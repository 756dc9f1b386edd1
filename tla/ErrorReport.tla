------------------------------- MODULE ErrorReport -------------------------------
(***************************************************************************)
(* From the status of an OCI call to a Ruby exception (error.c, and the    *)
(* error handles of env.c).  OCI leaves code and text of an error in the   *)
(* error handle of the thread; they are read when the thread is back.      *)
(***************************************************************************)
EXTENDS Integers

CONSTANTS
  Caller,         \* threads
  Connection,
  Code,           \* errors of the server
  TooManyCursors, \* ORA-01000
  TextLength,     \* Code -> length of the message
  BufferStart, Expand, Spare, MaxBuffer,  \* errbufsiz: at first, what it grows
                  \* by (ERRBUF_EXPAND_LEN), what must be left free, and a bound
  NoCode, NoHandle, NoError

ASSUME BufferAssumption ==
  /\ TooManyCursors \in Code
  /\ BufferStart \in Nat /\ Expand \in Nat \ {0} /\ Spare \in Nat
  /\ \A c \in Code : TextLength[c] \in Nat /\ TextLength[c] + Spare + Expand < MaxBuffer
  /\ NoCode # NoHandle /\ {NoCode, NoHandle} \cap Code = {}

VARIABLES
  errhp,          \* each thread's error handle: NoHandle, or the error in it
  meant,          \* the error that the last OCI call of each thread ended with
  call,           \* what each thread does
  errbufsiz,
  reported,       \* the exception of each thread's last call
  lastError       \* @last_error of each connection

errorVars == <<errhp, meant, call, errbufsiz, reported, lastError>>

\* OCI_ERROR, OCI_SUCCESS_WITH_INFO and OCI_NO_DATA have a text in the handle;
\* OCI_SUCCESS and the others do not.
Statuses == {"text", "no text"}

Idle == [stage |-> "idle"]

ErrorInit ==
  /\ errhp = [t \in Caller |-> NoHandle]
  /\ meant = [t \in Caller |-> NoCode]
  /\ call = [t \in Caller |-> Idle]
  /\ errbufsiz = BufferStart
  /\ reported = [t \in Caller |-> NoError]
  /\ lastError = [c \in Connection |-> NoError]

\* oci8_get_errhp: the thread whose handle is used
ErrhpOf(t) == t

\* The handle is made at the first use; if that fails it raises before the call.
\* An execution may be tried again.
StartCall(t, c, executes) ==
  /\ call[t] = Idle
  /\ errhp' = [errhp EXCEPT ![ErrhpOf(t)] = IF @ = NoHandle THEN NoCode ELSE @]
  /\ call' = [call EXCEPT ![t] = [stage |-> "inside", on |-> c, again |-> executes]]
  /\ reported' = [reported EXCEPT ![t] = NoError]
  /\ UNCHANGED <<meant, errbufsiz, lastError>>

LeavesError(t, code) ==
  errhp' = [errhp EXCEPT ![ErrhpOf(t)] = code] /\ meant' = [meant EXCEPT ![t] = code]

\* OCI returns, without the GVL.
Returns(t, status, code) ==
  /\ call[t].stage = "inside"
  /\ status # "text" => code = NoCode
  /\ LeavesError(t, code)
  /\ call' = [call EXCEPT ![t] = [stage |-> "back", on |-> @.on, again |-> @.again,
                                 status |-> status]]
  /\ UNCHANGED <<errbufsiz, reported, lastError>>

\* Before it looks at the status the thread may run a signal handler that calls
\* OCI, or sweep a TDO: both use its error handle.
UsesHandle(t, code) ==
  /\ call[t].stage = "back"
  /\ LeavesError(t, code)
  /\ UNCHANGED <<call, errbufsiz, reported, lastError>>

\* oci8_call_stmt_execute, exec_sql: an execution that met ORA-01000 is tried once
\* more when the collector has closed unused cursors.
MayRetry(t) ==
  call[t].status = "text" /\ call[t].again /\ errhp[ErrhpOf(t)] = TooManyCursors

RetryExecute(t) ==
  /\ call[t].stage = "back" /\ MayRetry(t)
  /\ call' = [call EXCEPT ![t] = [stage |-> "inside", on |-> @.on, again |-> FALSE]]
  /\ UNCHANGED <<errhp, meant, errbufsiz, reported, lastError>>

\* What OCIErrorGet puts into a buffer of size b; text that does not fit is cut
\* off at a whole character.
Got(code, b) ==
  IF code = NoCode THEN {0}
  ELSE IF TextLength[code] < b THEN {TextLength[code]}
  ELSE b - Spare .. b - 1

\* Mutant: a buffer that has just Spare bytes left is large enough.
TooSmallByOne(length) == errbufsiz - length < Spare

TooSmall(length) == errbufsiz - length <= Spare

\* get_error_msg finds the buffer too small and tries again.
GrowBuffer(t) ==
  /\ call[t].stage = "back" /\ call[t].status = "text" /\ ~MayRetry(t)
  /\ \E length \in Got(errhp[ErrhpOf(t)], errbufsiz) : TooSmall(length)
  /\ errbufsiz + Expand <= MaxBuffer
  /\ errbufsiz' = errbufsiz + Expand
  /\ UNCHANGED <<errhp, meant, call, reported, lastError>>

\* oci8_make_exc.  Without an error in the handle the code is -1 and the text a
\* default one.
Exception(t, length) == [code |-> errhp[ErrhpOf(t)], meant |-> meant[t], length |-> length]

\* oci8_check_error_.  The exception is kept by the connection, if base is given
\* and still has it among its parents.
Report(t, baseFound) ==
  /\ call[t].stage = "back" /\ call[t].status = "text" /\ ~MayRetry(t)
  /\ \E length \in Got(errhp[ErrhpOf(t)], errbufsiz) :
       /\ ~TooSmall(length)
       /\ reported' = [reported EXCEPT ![t] = Exception(t, length)]
       /\ lastError' = IF baseFound
                       THEN [lastError EXCEPT ![call[t].on] = Exception(t, length)] ELSE lastError
  /\ call' = [call EXCEPT ![t] = Idle]
  /\ UNCHANGED <<errhp, meant, errbufsiz>>

\* The status tells all: success, or an exception with a fixed text
ReportStatus(t) ==
  /\ call[t].stage = "back" /\ call[t].status # "text"
  /\ call' = [call EXCEPT ![t] = Idle]
  /\ UNCHANGED <<errhp, meant, errbufsiz, reported, lastError>>

\* oci8_ping looks at the status only.
Ping(t) ==
  /\ call[t].stage = "back" /\ ~MayRetry(t)
  /\ call' = [call EXCEPT ![t] = Idle]
  /\ UNCHANGED <<errhp, meant, errbufsiz, reported, lastError>>

\* The destructor of the thread's key frees the error handle; a new thread starts
\* without one.
ThreadEnds(t) ==
  /\ call[t] = Idle /\ errhp[t] # NoHandle
  /\ errhp' = [errhp EXCEPT ![t] = NoHandle] /\ meant' = [meant EXCEPT ![t] = NoCode]
  /\ reported' = [reported EXCEPT ![t] = NoError]
  /\ UNCHANGED <<call, errbufsiz, lastError>>

ErrorNext ==
  \E t \in Caller :
    \/ \E c \in Connection, executes \in BOOLEAN : StartCall(t, c, executes)
    \/ \E status \in Statuses, code \in Code \union {NoCode} : Returns(t, status, code)
    \/ \E code \in Code \union {NoCode} : UsesHandle(t, code)
    \/ RetryExecute(t) \/ GrowBuffer(t) \/ ReportStatus(t) \/ Ping(t) \/ ThreadEnds(t)
    \/ \E b \in BOOLEAN : Report(t, b)

ErrorSpec == ErrorInit /\ [][ErrorNext]_errorVars

-----------------------------------------------------------------------------
Faithful(e) ==
  e # NoError =>
    /\ e.code = e.meant
    /\ e.code # NoCode => e.length = TextLength[e.code]

\* An exception, also the one that a connection keeps in @last_error, has code and
\* whole text of the error that its own thread's last OCI call ended with (the
\* second, of an execution that is tried again), whatever other threads called
\* between that call and the report, and however long the text is for the buffer
\* they share (oci8_check_error_, get_error_msg).
ReportsOwnError ==
  /\ \A t \in Caller : Faithful(reported[t])
  /\ \A c \in Connection : Faithful(lastError[c])
===============================================================================
