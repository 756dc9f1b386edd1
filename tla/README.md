# Models and proofs of ruby-oci8

ruby-oci8 is a Ruby binding of the Oracle Call Interface (OCI): a C extension
(`ext/oci8`) that wraps OCI handles in Ruby objects, and a Ruby layer
(`lib/oci8`) that builds connections, cursors, bind variables and object types
on them. This directory holds TLA+ models of the parts of it where steps of
several actors meet (Ruby threads, the garbage collector, the OCI library with
its callbacks, the native threads that log off), and of the conversions between
Ruby's values and Oracle's.

## Inventory

| component | state | operations | who it talks to |
|---|---|---|---|
| Handle tree (`oci8lib.c`, `ocihandle.c`, allocators) | `oci8_base_t`: type, closed, hp, parent, next, prev, children | allocate, link, unlink, `free`, GC cleanup, logoff | every other C class is a node of it |
| Service call gate (`oci8lib.c`: `oci8_call_without_gvl`) | `executing_thread`, `temp_lobs`, `suppress_free_temp_lobs`, `non_blocking` | one OCI call at a time on a connection with the interpreter lock released, freeing of temporary LOBs, `OCI8#break` | all `*_nb` calls; Ruby interrupts; OCI |
| Session (`oci8.c`, `oci8.rb`) | `logoff_strategy`, `state` bits, `hp`, `usrhp`, `srvhp`, `@session_handle`, `@server_handle`, `@pool` | allocate_handles, server_attach, session_begin, logoff, collection | gate, native threads, pool |
| Bind and define buffers (`bind.c`, `bindtype.rb`) | `valuep`, indicators, `maxar_sz`, `curar_sz`, the chunk list of long values with `tail` and `inpos` | set, get, piecewise callbacks | statement, OCI callbacks |
| Statement (`stmt.c`) and cursor (`cursor.rb`) | `end_of_fetch`, `@rowbuf_size`, `@rowbuf_index`, bind and define tables, `@fetch_array_size`, `@max_array_size`, `@actual_array_size` | define, bind, exec, fetch, array DML, close | gate, binds |
| LOB (`lob.c`) | position, open state, locator | read, write, seek, truncate, BFILE open and close | gate, temporary LOB list |
| Connection pool (`connection_pool.c/.rb`) | pool handle, name | create, reinitialize, destroy, collection | sessions, native thread |
| Socket hooks (`hook_funcs.c`) | ring of sockets in use, replaced functions, `oci8_cancel_read_at_exit`, `oci8_tcp_keepalive_time` | hook install, read, setsockopt, shutdown at exit | process exit, properties |
| Properties (`properties.rb`), environment (`env.c`) | property table, global environment handle, error handles of threads | set, first use | everything |
| Metadata (`metadata.*`, `ocihandle.c`) | attributes of handles, with a type each | describe, get and set | handle tree, gate |
| Object types (`object.*`) | cache of TDOs, layout of attributes, native instances | build a TDO, get and set attributes and elements | metadata, binds |
| Numbers, dates, intervals (`ocinumber.c`, `oranumber_util.c`, `oradate.c`, `ocidatetime.c`, `datetime.rb`) | values; arrays of descriptors | conversions, operators | binds |
| Errors and encodings (`error.c`, `encoding.c`) | message buffer, `@last_error`, encoding of the connection | raise, retry, convert | everything |
| DBD driver (`lib/dbd/OCI8.rb`) | thin adapter | | cursor |
| PLT hook, API wrappers, build | vendored, generated, build time | | |

`PROJECT.json` lists the same components with their status, and every hazard
with the line where it bites.

What is hard to test in this code, and what correctness means there:

- **Handle tree.** Ruby's collector sweeps wrappers in any order, lazily, and
  even in the middle of a free. The sibling rings must stay well formed, no
  pointer may lead to a freed struct, and each native handle must be released
  exactly once and after what was made inside it.
- **Gate.** Calls release the interpreter lock, so checks made before a call
  may be stale after it, and an exception of another thread can be raised on
  either side of it. One call at a time, and no exception may lose a temporary
  LOB or leave the connection marked as busy.
- **Cursor.** Rows come in batches, buffers are reused, and every call may
  raise half-way. The caller must see the rows of the last execution, in order
  and once.
- **Array DML, long values.** Addresses and list positions outlive the calls
  that set them. The database must get what was last assigned.
- **LOB.** A read is many calls, whose amounts come in characters and bytes, and
  the position moves only after the last. The caller must see a file. A BFILE's
  open state, its names and the server's open files must agree.
- **Session.** `OCI8.new` may fail between any two of its steps, and a native
  thread ends the session when nobody is left to do it. What was begun is
  undone, in order, once; nothing that nobody committed is committed.
- **Values.** A NUMBER has 40 figures in pairs, dates have years before 0, zones
  have signs, and strings two kinds of length. What comes back is what was
  assigned, to the precision of Oracle's type; what cannot be stored is refused
  and leaves the old value.
- **Variables of LOBs and cursors, object types.** Native handles and instances
  live in elements that OCI writes to again and again, and an assignment may
  raise half-way. What the program got from one fetch must not change with the
  next; an object that was partly assigned must not be a mixture of rows.
- **What threads share.** One list of sockets, one message buffer, one property
  table, hooks that are replaced while OCI reads. A thread's exception tells its
  own error; the process terminates although a read never ends.

## Modules

| module | models | composed by |
|---|---|---|
| `HandleRing` | the ring of `next`/`prev`/`children`/`parent`: `Linked` (`oci8_link_to_parent`), `Unlinked` (`oci8_unlink_from_parent`), `RingOK` | `HandleTree` |
| `HandleTree` | life and death of wrappers and natives | `HandleTreeRefinement` |
| `HandleForest` | abstract specification: each handle has an ordered list of children | refined by `HandleTree` |
| `HandleTreeRefinement` | the refinement mapping: the children of `p` are what the walk along `next` from `children[p]` meets | `MCHandleTree` |
| `ServiceCall` | `oci8_call_without_gvl` and who calls it | `MCServiceCall` |
| `RowStream` | abstract specification: the rows of the last execution, then nil | refined by `RowFetch` |
| `RowFetch` | define, exec, fetch, close of a query | `Cursor` |
| `ArrayDml` | `max_array_size=`, `bind_param_array`, `[]=`, `exec_array` | `Cursor` |
| `LongBuffer` | the chunk list of LONG values and its callbacks | `Cursor` |
| `Cursor` | one cursor object whose statement is a query, array DML, or has a long bind | `MCCursor` |
| `LobFile` | abstract specification: a file of characters or bytes with a position | refined by `Lob` |
| `Lob` | read, write, seek, truncate, size, eof? of a CLOB or BLOB | `Library` |
| `Bfile` | names, open state and implicit open of the BFILEs of a connection | `Library` |
| `Library` | either a LOB or BFILEs | `MCLibrary`, `MCConnection` |
| `Session` | `OCI8.new` to the end of the session, connection pools | `MCSession`, `MCConnection` |
| `NumberText` | `oranumber_from_str`, `oranumber_to_str`, `onum__dump`, `onum_s_load` | `OraNumber` |
| `OraNumber` | class `OraNumber`, `OCI8::Math`: conversions from and to Ruby's classes, operators, bind variables | `Client` |
| `OraDate` | class `OraDate`: fields, comparison, dump and load, bind variables | `TimeBind` |
| `TimeBind` | bind variables of timestamps and intervals, dates in object attributes | `Client` |
| `Attributes` | `attr_get_*`, `attr_set_*` of `OCIHandle` | `Client` |
| `ObjectLayout` | the cache and layout of TDOs | `Objects` |
| `Objects` | instances of object types and what assignments leave in them | `Client` |
| `StringBind` | string variables with a length in bytes or characters | `Client` |
| `HandleBind` | bind and define variables of LOBs and cursors | `Client` |
| `SocketHooks` | `hook_funcs.c` and `at_exit_func` | `Settings` |
| `Settings` | `OCI8.properties`, the environment and what they control | `Client` |
| `ErrorReport` | error handles, message buffer, `@last_error`, the retry after ORA-01000 | `Client` |
| `Client` | one part of the modules from `NumberText` on, by the variable `part` | `MCClient` |
| `Recursion` | induction over numbers and functions defined by recursion, for the proofs | |
| `HandleTreeProofs` | theorems about `HandleTree`: its structs and rings, and its natives | |
| other `*Proofs` | theorems about the module of that name and the parts it composes | |

`Cursor` puts three independent parts of the cursor behind one variable,
`statement`, that is chosen initially and never changes: a cursor has one
statement, and what a query does cannot disturb the arrays of an INSERT.
The state spaces of the parts add up and do not multiply. `Library` does the
same with the LOB and the BFILEs, by the variable `part`, `MCConnection` with `Session`
and `Library`, and `Client` with
values, variables and what the connections of a process share.

### HandleTree

A slot of `Handle` stands for one `oci8_base_t`, `Kind` says of which class.
`live` is the set of allocated structs (an `xfree` takes it out), `held` what
the program can still reach, `typed` the structs whose `base.type` is not zero,
`closed` and `hp` the fields of that name. `native` is the OCI library: what it
has allocated; `within` says that a native was made inside another and goes
with it (a bind inside its statement, a parameter inside what it describes).

`stack` holds the C frames of `oci8_base_free`. One action is one iteration of
its loop or its end: `FreeChild` is the call for the first child, `FreeSelf`
unlinks, calls `data_type->free` and clears `type` and `hp`. The free of a
temporary LOB is split at the `ALLOC` of `oci8_lob_free` into `UnlinkTempLob`
and `MoveTempLob`, because the allocation may run the collector, which is then
a new frame (`Sweep`). `Logoff` and `FinishLogoff` are `oci8_svcctx_logoff`, whose
last call may raise at any time, after any part of the temporary LOBs was released:
what can stand in its way (another thread in a call, a pending exception, a release
that raises) is in `ServiceCall` and not in the state here.
`DescribeCall` and `DescribeReturn` are the two halves of `oci8_do_describe`,
between which other threads run.

`Drop` loses the last reference of the program, according to the mark functions
(`Marks`). One slot stands for the session and the server wrapper, and one
native for the three handles of a connection; `Session` has them apart.

### ServiceCall

`pc` is a thread's place in `oci8_call_without_gvl`: in the loop over the
temporary LOBs, in a protected call for one of them, or in the call proper. The
places `...Check` and `...Back` are those where the interpreter lock can change
hands and Ruby raises what `Thread#raise`, `Thread#kill` or `Timeout` has left
(`pending`). `gvl` is the thread in C code with the lock; between two such
places the C code is one action. `executing`, `nonBlocking`, `suppress` and `temp` are
`executing_thread`, `non_blocking`, `suppress_free_temp_lobs` and `temp_lobs`
of `oci8_svcctx_t`; `collected`, `answered` and `freed` follow a temporary LOB
from the collector to the server and to `OCIDescriptorFree`. A release is answered
with success or with an error: the code asks only whether it was cancelled (and in
blocking mode nothing at all), and frees the descriptor after any other answer. `spoilt` remembers
that a read of pieces was left by an exception, or that a refused call has
cleared another thread's mark, after which nothing is promised about reads.

### RowFetch, ArrayDml, LongBuffer

`RowFetch` names a row by the execution it belongs to and its number, which
tells rows of another execution, batch or column apart. The instance variables
of the Ruby object (`rowbufSize`, `rowbufIndex`, `arraySize`), the flag
`endOfFetch` of the C struct, and OCI (`cursor`, `served`, `total`, the define
buffers) are separate variables. `fetch` has one action per branch of
`fetch_row_internal`, `__fetch` and `OCIStmtFetch`'s answers, the failures
included. An exception may also strike when OCI is done: then there is a new result of
which the row buffer does not know (`waiting` has its rows), or define buffers of a
handle that is not in `@define_handles` (`astray`, and `leftover` for its size, until
the collector frees it).

`ArrayDml` keeps, next to the fields of the cursor and the bind handles, the
handle whose buffer OCI has the address of (`registered`), which the code
stores nowhere, and the handles that are allocated. `late` are the placeholders whose
last binding raised when OCI had the new buffer: `handles` then has the old handle, and
the collector may free the new one. `LongBuffer` has the list of chunks with `tail` and `inpos`,
the pieces OCI asks for, and the text each program action leaves in it.

### Lob, Bfile

`pos` is `lob->pos`. `call` holds the local variables of `oci8_lob_read`: `asked`
(the argument, or `Nil`), `pos`, and `got` (the strings in `v`), with OCI's side
of it: its place `at`, the `end` of the current request, and `from`, where the
read has begun. `ReadPiece` is one `OCILobRead2` and what the loop does with its
result; `EndOfRequest` is the code behind the loop, with `goto read_more_data`.
The refinement maps the position of `LobFile` to `call.from` while a read is in
progress, and to `pos` otherwise. `LobFile` says where each `seek` goes, the
positions near 2^64 included that one before the start reaches, and what `eof?`
answers, which is not what its comment says (below).

In `Bfile`, `isOpen`, `dirAlias` and `filename` are `state`, `@dir_alias` and
`@filename`; `locator` holds the names in the OCI locator, and `served` the file
that the server has open for it. `opening` are the calls inside `open_bfile`,
which leaves the interpreter lock between its attempts.

### Session

`ptr`, `copies` and `state` are the members of `oci8_svcctx_t` and the two
wrappers that hold copies of its pointers. `job` is the `complex_logoff_arg_t`
that `complex_logoff_prepare` takes out of the connection, with the step of
`complex_logoff_execute` it waits for; `by` says whether the caller's thread or
a native one executes it. `attached`, `begun`, `work` and `committed` are the
server's side. `pc` is the progress of `OCI8#initialize`; `InitializeRaises`
and the arguments `done`, `raised` and `versionFails` of the other actions are
the places where it can fail.

### NumberText, OraNumber

`NumberText` follows the two C functions figure by figure: a text is a record of
a sign, the figures before and behind the point and an exponent (or malformed, or
an infinity), a number the bytes of an `OCINumber`. `Figures`, `MinExponent` and
`MaxExponent` stand for 40 (the figures in 20 bytes), and the limits of the
exponent byte. `oranumber_to_str` is `ToText`, and `Marshalled` and `Unmarshal`
are what `Marshal` does with a number.

`OraNumber` takes values for fractions `<<p, q>>`. `Stored` is what OCI's exact
arithmetic rounds to, external; `FromNumeric` is `set_oci_number_from_num` with
its way for each class (the digits of a BigDecimal as an integer that is shifted,
numerator and denominator of a Rational divided, a Float through its text).
`Operator(op, v, x)` is `v op x`, and `Mirrored` is `x op v`, which Ruby sends
through `onum_coerce`. An answer is the class and value of what a method returns,
or an exception. A Complex also has a numerator and a denominator, the former Complex
again, so `set_oci_number_from_num` calls itself until the stack ends.

### OraDate, TimeBind

A date is its seven bytes; `Bytes7` has the excess of 100 of century and year.
`SetField` is any of the setters, and `Now` stores what `localtime` says, a leap second
too. `TimeBind` has the descriptors of an array
(`slot`), allocated one after the other, and what was accepted for each element
(`assigned`). `unit` is `IntervalDS.unit`, which may change at any time: durations
are split from seconds (`FromSeconds`) or from days (`FromDays`). They are exact
numbers here; how Floats round is left out. Of a Date the time is zero
(`DateArray`). Ruby's `\div` and C's `/` differ for negative numbers: `Quotient`
and `Remainder` are those of C.

### Attributes, ObjectLayout, Objects

`Attributes` keeps an attribute as the content of the union with all its bytes;
a byte has `UnitModulus` values. `Magic` is what the union holds where nobody has
written.

`tdos` is `@id_to_tdo`, `building` the constructors `TDO#initialize` that are
running, the outermost first. `half` are types whose construction has raised,
whose cached TDO is half made. An instance is its indicator and content. Types are
nested, so what goes over a type with its parts is a recursive function on types:
`Values` and `Instances` are what a type has, `NewInstance` is what `OCIObjectNew`
makes, `GetValue` is `get_attribute`, and `SetValue` is `set_attribute`, whose step
is `Assigned`: the attributes of an object in place, one after the other
(`attributes=`), the elements of a collection through one temporary element
(`ElementResults`, `AssignedUpTo`). `Schema` has the types of both modules.

### StringBind, HandleBind

`StringBind` has the sizes that `bind_string_init` derives from the length, its
semantics and the ratio `NlsRatios`, and words with their characters and bytes.

In `HandleBind` an element has the `obj` and the `hp` of `oci8_hp_obj_t`. An
object's native is the number of the row OCI has stored in it last. `renewed`
counts the elements that `pre_fetch_hook` has made new in this fetch, which may
raise between two. `recorded` are the elements written with `RB_OBJ_WRITTEN`, the
only ones that a minor collection finds.

### SocketHooks, Settings, ErrorReport

`at` is a reader's place in `hook_read`; its entry is on its stack. `walk` is the
entry where `oci8_shutdown_sockets` is, which holds the lock. The ring is
`next` and `prev`. `Settings` tells a value apart by its class (nil, a symbol, a
negative number, one too big for a C int), and has the property table, what the
extension has of it, the environment and a socket of OCI.

`ErrorReport` has the error in each thread's handle (`errhp`), the error of the
last call that the thread made (`meant`), the length of the message buffer that
all threads share, and the exceptions.

## Runs

| run | instance | distinct states (about) |
|---|---|---|
| `handles_statement` | connection, session, statement, bind, two parameters; 4 natives, symmetric | 184,000 |
| `handles_lob` | connection, session, two LOBs, describe handle; 3 natives | 236,000 |
| `gate` | 2 threads, 2 temporary LOBs, both modes, SQL and reads in pieces, exceptions, fairness | 165,000 |
| `cursor` | 2 columns, up to 3 rows, batches of 2, 2 executions; 2 placeholders, 3 bind handles, arrays up to 2, 2 resizes; texts up to 5 bytes, chunks of 1 and 2 | 509,000 |
| `connection` | 2 connections, 1 pool; texts up to 3 letters, 2 bytes per character at most, UB4MAXVAL = 2, 2^64 = 8, LOBs up to 4; 2 BFILEs, 2 directories, 2 file names, 1 open file | 497,000 |
| `client` | NUMBERs of 4 figures, texts of up to 6, exponents -2 to 3; 8 numbers against 26 operands; dates in both eras; 33 moments, 9 numbers of months, 19 durations, 2 elements; attributes of 1, 2, 4, 8 bits; words up to 3 characters; variables of 2 LOBs or cursors, 4 objects, 3 rows; 5 object types, 4 of them nested in one another; 8 values assigned to an object; 3 readers; 8 classes of property values; 2 threads, 2 connections, 2 errors | 305,000 |

What they show:

- `handles_statement`: rings stay well formed (`RingsWellFormed`), nothing open was
  released (`OpenHandlesAreAllocated`), and the pointers implement `HandleForest`
  (`ImplementsForest`). Whatever OCI has allocated has someone who will release it;
  only the end of a logoff that raises loses natives, and only those of its
  connection (`OnlyLogoffLoses`).
- `handles_lob`: no pointer to freed memory (`NoDanglingPointer`), no native
  with two owners (`NeverFreedTwice`), the loop of a free ends though the
  collector changes the ring under it (`FreesEnd`). A describe handle may be in
  a call of another thread when `logoff` comes, and temporary LOBs may be on the
  list, which a logoff that raises leaves there (`OnlyLogoffLoses`).
- `gate`: until the collector has freed the first temporary LOB, one thread is in
  OCI at a time and the mark is true (`GateExact`), and a
  break or an exception stops only the call it was meant for
  (`StopsOnlyWhoWasAsked`), also while another thread switches the mode. With
  temporary LOBs the first two are false, see below. What holds with them:
  `LobOwnedOnce`, `AnsweredFirst` (a descriptor is freed only after OCI has answered the
  release of its LOB, though perhaps with an error), and `InterruptEndsCall`, a liveness
  property: an interrupted thread leaves its call, if OCI answers the calls it
  is told to break. `ReadNotDisturbed`: no temporary LOB is released while OCI
  waits for the next piece of a read, unless the read is `spoilt`. With an
  exception pending when the first piece arrives, `oci8_lob_read` is left before
  it sets `suppress_free_temp_lobs`; that is listed as a hazard.
- `cursor`, queries: the query implements `RowStream` although every call may raise,
  before or after OCI has done its part (`ImplementsRowStream`): the rows of one
  result, in order and once. After an exec that raised when OCI had a new result, these
  are the rest of the old batch and then the new rows. As long as OCI fills the buffer of a
  handle whose `__define` raised, nothing is said of the rows. `FetchesAsAgreed` says that
  two errors of `__fetch` (handles of different sizes, no open result) meet the
  caller only after such a failure.
- `cursor`, bind variables: `RowsAsAssigned` and `HeldBuffersInUse` are about array DML, whose
  bindings may fail before and after OCI has the buffer; of a placeholder whose last
  binding failed after it, only that the held handle is allocated is claimed.
  `LongTextKept` is about long values, what the program reads and what OCI gets.
- `connection`, large objects: a LOB implements `LobFile` (`ImplementsLobFile`): the text that read
  returns does not depend on how OCI cuts it, a read that raises leaves the
  position inside what it has read, and `seek` goes where it was asked to. `FilesAsNamed`: the client and the server
  agree on which file of a BFILE is open and on its names, whatever raises on the
  way.
- `connection`, sessions: `WorkRolledBack`, `HandlesAllocated`, `PoolOutlivesUsers`, and the
  liveness property `LogoffEndsSession`.
- `client`, values: a number text becomes the nearest NUMBER (`ReadsNearest`), and
  what is printed or marshalled is read as the same bytes (`RoundTrip`); numbers of all classes
  are the same numbers when they are stored and reckoned with, on either side of
  an operator (`NumbersAgree`); the bytes of dates order them as time does, and
  come back (`DatesInOrder`); moments, months and durations come back, whichever unit
  was chosen and whatever was refused in between, but for a date, of which a refused one
  overwrites fields (`TimesKept`); so do attributes, in the width and sign of their type
  (`AttributeKept`), and strings, which are refused or whole (`StringKept`).
  `LayoutFits`: a type's attributes lie where C structures have them, and a TDO
  that was not left by an exception is complete. `ObjectHoldsAssigned`: after an
  assignment an object reads as it was assigned; one that raised leaves each part
  old or new.
- `client`, variables: a LOB or cursor that a fetch has given out stays at its row
  (`HandlesKept`).
- `client`, what is shared: the ring has exactly the readers that may be cancelled
  (`EntriesFound`), and those there at exit end (`CancelledReadsEnd`, a liveness
  property); `SettingsInEffect`: the property table tells what is in effect after
  setters that raise; `ReportsOwnError`: an exception has the code and the whole
  text of its own thread's error, with two threads, a buffer that grows, and a
  retry.

### Why the bounds are enough

- A ring shows all its cases with three members (head, middle, tail) under one
  parent, plus a second parent to move from: the connection has up to four
  children and the bind moves from connection to statement. The proofs of
  `HandleTreeProofs` are for any number.
- Two threads are the one in OCI and the one that is refused or gets in. Two
  temporary LOBs are needed for a thread that comes back from the release of one
  to be refused at the other; one of them goes round the loop each time its
  release raises. In `SC_gate.cfg` the first thread makes calls of both kinds and
  is interrupted, the second one executes SQL. The proofs are for any number of
  threads and LOBs, any calls and any interrupted threads.
- Two columns are needed for handles of different sizes. Batches of two with
  up to three rows give a full batch, a part of one, and an empty last one. The
  second execution meets the buffers of the first.
- Three bind handles for two placeholders allow one binding more than is in
  use. Two resizes are one that frees buffers after one that made them.
- Chunks of one, two, two, ... bytes (`MaxChunk` = 2) with texts up to five
  bytes reach the growth, its limit, and a full last chunk.
- Requests of two letters (`MaxAmount` = 2) for texts of up to four give reads of
  no, one and two full requests and a rest. Positions up to 7 lie well behind
  the end, and 7 + 1 wraps to 0. One open file and two BFILEs reach the limit.
- Two connections can share a pool, and one can be closed while the other is in
  use. Each slot is used once (an object is not reused), so the run ends and
  deadlock is not checked in `CN_connection.cfg` and `SE_attach.cfg`. Nor is it where a part
  comes to its end (`CL_client.cfg`: after exit, after a variable was freed) or all BFILEs
  may be freed (`LI_*.cfg`).

- Four figures in two bytes of a NUMBER, with texts of up to three figures on
  each side of the point made of 0, 5 and 9, reach rounding, its carry through all
  figures into a new exponent, both parities of the exponent, and both limits.
  The operands have values that fit, are rounded, overflow or are of no number
  class.
- Moments are of the three classes and have offsets of whole and half hours, with seconds, and of less than an
  hour west; durations lie on both sides of a minute, an hour and a day in a
  second of 20 parts.
- A byte of two values gives widths of 1, 2, 4 and 8 bits for 8 to 64, with the values on both sides of
  each limit.
- Four types reach nesting, a collection, a type with an unsupported attribute and
  one that uses it. `MCObjectType` has a collection of objects and one of
  collections, the values are shorter, longer, nil and refused at each level.
- Two elements and four objects allow a hook that fails after the first, one
  object in the hands of the program, and one more. Three rows are a full batch and one that
  overwrites. The proof is for any number.
- Three readers give a ring with a head, a middle and a tail. A buffer of 6 that grows
  by 4 has to grow twice for a message of 9.

### Fairness

- `HandleTree`: `WF(FreeStep)`. C code that has begun a free runs on; nothing in
  it waits.
- `ServiceCall`: `SF(Proceed(t))` for each thread, because Ruby hands the
  interpreter lock round; `WF` for OCI's answer to a call that was told to break,
  and `SF` for the return of a call in blocking mode, which nobody can break. A
  non-blocking call that nobody breaks may take for ever.
- `Bfile`: `WF` for the next attempt of `open_bfile`, which waits for nobody. Used
  by `bfile_open_loop` only.
- `SocketHooks`: `WF` for each step inside the hook functions and for the walk at
  exit, which wait only for a lock that is held for a few lines, and for the end
  of a read from a socket that was shut down. No fairness for other reads.
- `Session`: `WF` on the steps of `complex_logoff_execute` and of
  `cpool_free_thread`. Both run in native threads, or in one that holds no Ruby
  lock, and each of their OCI calls is assumed to return. Process exit is not
  modelled.

## Disagreements found

Each is a run that TLC must find violated.

| run | property | what the code does |
|---|---|---|
| `gate_lob_two_in_oci` | `OneCallAtATime` | `free_temp_lob` clears `executing_thread` before its thread has the lock again; a call that is then refused clears the mark of another thread (`oci8lib.c:477`), and a third call enters OCI beside it |
| `gate_lob_stuck` | `MarkIsTrue` | an exception that strikes before `OCILobFreeTemporary` has started leaves `executing_thread` set (`oci8lib.c:460`): the connection refuses every later call |
| `cursor_resize` | `BuffersAllocated` | `max_array_size=` frees buffers whose addresses OCI keeps; if one placeholder is bound again, `exec_array` does not notice the others (`cursor.rb:270`) |
| `session_attach_forgotten` | `ServerConnectionRemembered` | a timeout during `OCIServerAttach` is raised before the state bit is set (`oci8.c:557`): nobody detaches the connection |
| `bfile_open_loop` | `OpenEnds` | the loop that is to close other BFILEs when too many are open never runs (`lob.c:597`), so `open_bfile` asks the server for ever |
| `lob_eof` | `EofAtEnd` | `eof?` is true everywhere in a LOB and false behind its end (`lob.c:499`), where its comment says 'at end of lob' |

Not listed as disagreements, because no document speaks of them, or what it says
is not precise enough to be one:

A binding that raises when OCI has the buffer of the new handle (`stmt.c:213-231`:
`OCIBindArrayOfStruct` or the hook of the type fails) leaves the old one in
`@bind_handles`. What `[]=` then stores is not what `exec_array` sends, and the collector may
free the buffer that OCI reads, as `oci8_stmt_mark` (`stmt.c:22`) marks no children.
`RowsAsAssigned`, `HeldBuffersInUse` and `BuffersAllocated` leave such a
placeholder out (`late`); no document says what a cursor is after such a failure.

An execution that OCI gives up between two pieces of a long value leaves `inpos`
in the middle of the chunks, and the next one starts there (`bind.c:403`).
`LongTextKept` leaves that case out.

The end of a `logoff` may raise after the handles were taken out of the connection:
another thread is in a call (unless something has cleared its mark, as in the first
row of the table), an exception is pending, or the release of a temporary LOB raises.
The handles are then lost. `OnlyLogoffLoses` says that no other step loses a native and
that this one loses no other; `WorkRolledBack` holds nevertheless, because a lost
session is rolled back by the server.

The result of `OCILobFreeTemporary` is looked at only to see whether it was cancelled
(`oci8lib.c:423-427`), and in blocking mode not at all (`oci8lib.c:465`): after an error the
descriptor is freed and the temporary LOB stays on the server until the session ends.

Numbers. `OraNumber(2) <=> 2.5` is -1, as the comment of `onum_cmp` says in words
(`ocinumber.c:1103`); the example in the same comment says 1 (`ocinumber.c:1110`).
`NumbersAgree` follows the words and the code. A BigDecimal of more than 126 digits, or a Rational of huge numerator
and denominator, is refused although its value fits. `OraNumber % Float` and `**`
give an OraNumber, `Float % OraNumber` a Float. `OraNumber == nil` raises TypeError, `OraNumber(Complex(1, 1))`
SystemStackError. `to_d` prints 39 of the 40 figures.

Dates. `OraDate` defines `hash` but not `eql?`. Offsets of -00:01 to -00:59 come back
with the other sign, as the sign is that of the hours; `TimesKept` leaves them
out. A refused date attribute leaves the fields before the refused one written. What
`IntervalDS` returned before does not tell in which unit it was.

Variables. A refused assignment to a string variable that was NULL makes its old
bytes visible (`bind.c:681`); `StringKept` leaves that out. The check of
`:length_semantics` in `properties.rb:34` is for another name, so any value passes. If the
program closes a cursor or a LOB that it shares with a bind variable, and executes
again, OCI uses the freed handle; a cursor from an OUT parameter is used again by the
next execution. `HandlesKept` is about what a fetch gives.

Objects. A TDO whose construction raised stays in the cache half made, and later
types that embed it are laid out with its wrong sizes; `LayoutFits` leaves these out. An exception in `set_coll_element` leaves the temporary
element allocated (its `rb_ensure` is disabled, `object.c:464`).

Errors and hooks. A signal handler that calls OCI between a failed call and its
report changes the error that is told. A reader that starts after `at_exit_func`
is not shut down. `:tcp_keepalive_time` with a value too big for a C int raises after
the hooks were installed. An exec that fails leaves the rows of the previous
result to be fetched. `cpool_free` ignores that no native thread could be made.

## Proofs

TLAPS checks these for every value of the constants that satisfies the named
assumptions (below). Every safety property and every action property of the passing
runs has its theorem, but for `ReadsNearest` and `NumbersAgree`.

An invariant of a run is hardly ever inductive; what makes it so is in the second
column, and most of it says something about the code by itself.

### The handle tree

| theorem | argument |
|---|---|
| `TypeCorrect`, `RingsStayWellFormed` | lemmas `LinkedOK` and `UnlinkedOK`: the append and the splice keep `RingOK`, `next` and `prev` inverse within the children of one parent, and one cycle for each parent. The cycle is stated without induction: a set of children that is closed under `next` and not empty is all of them |
| `StructureKept`, `NeverDangling` | `Structure`: parents are of the kind the code links to (`ParentsOfKind`), no handle is below itself (`NoCycle`), memory that is not in use is in nobody's ring (`DeadAlone`), what the program can reach marks nothing that it cannot (`HeldMarked`), a LOB hangs below its connection until its free has come to the `ALLOC` (`LobsPlaced`), what a describe call works on is reachable (`DescribesHeld`), only a connection keeps its `hp` when it is closed (`OpenTyped`), and the frames on the stack are of different, allocated handles, each the child that the loop below it frees, the top of a logoff, or a sweep that came in at an `ALLOC` (`StackOK`) |
| `NothingFreedTwice`, `OpenStayAllocated` | `TreeInv`, which adds: an open wrapper has a native that is allocated (`TypedOK`), a session shares that of its connection, binds and parameters live in that of an open parent (`SharersOK`), natives are nested one deep (`WithinOK`), and no native belongs to two wrappers, to two lists of temporary LOBs, or to both (`OneOwner`) |
| `OnlyLogoffsLose` | `TreeInv`, and for each step what becomes of the owner of a native (`NextKept`): the wrapper or the list that has it keeps it or gives it to another, or it is released. Only the end of a logoff leaves natives without an owner, and they are those that its strategy took from the connection (`LostByLogoff`) |
| `RingsAreForest` | `HandleTree` implements `HandleForest`: the walk along `next` meets each child once and in the order of the list (`WalkMeets`), which is a recursive function over the ring; appending and splicing are appending to and removing from that list (`AppendedLists`, `UnlinkedLists`) |

`WalkMeets` and the theorems about `LongBuffer` go over data of any length. The
induction rules of the standard library take an operator as a parameter, which no
backend can instantiate; `Recursion` proves what is needed with sets in their
place, from `WFMin` (a set of numbers has a least element): induction from 1 to n
(`UpTo`), and that a function defined by recursion exists (`RecursionExists`).
`ObjectsHold` goes over types nested to any depth: `TypeInduction` comes from the
depth in `SchemaAssumption`, and for each recursive function of `Objects` a lemma
proves that it follows its rule (`ValuesRule`, `InstancesRule`, `NewInstanceRule`,
`GetValueRule`, `SetValueRule`, `MixedRule`), because a function that does can be put
together depth by depth.

### Calls and sessions

| theorem | argument |
|---|---|
| `LobsOwnedOnce` | `TypeOK /\ Holding /\ LobOwnedOnce`: a thread has a locator exactly at the places of the loop. For any number of threads and LOBs, with exceptions |
| `AnsweredBeforeFreed` | `ReleaseInv`: an answer that waits for its thread, other than a cancellation, is that of a release which OCI has answered (`AnswerTrue`) |
| `GateAlwaysExact`, `StopsOnlyAsked` | `GateInv`: mark, place and lock determine each other (`InStep`) as long as `NoLobYet`; once a LOB was collected it says nothing, and `collected` only grows |
| `ReadsNotDisturbed` | `ReadInv`: a thread in C code has the lock (`LockHeld`); unless something was spoilt, a thread in a call has the mark (`MarkKept`), and while OCI waits for the next piece there is a thread between two pieces: the first one just came back, or `suppress_free_temp_lobs` is set (`Reads`) |
| `SessionTypes`, `NothingCommitted`, `HandlesStayAllocated`, `PoolsOutliveUsers` | `SessionInv`: what `initialize` relies on (`OpenOK`), a closed connection has nothing to free twice (`ClosedOK`), a call keeps its connection (`CallOK`), and a logoff is alone and has rolled back after its first step (`JobOK`). `PoolOK`: a pool that is being destroyed was either destroyed by the program or has no user |

### Cursors and LOBs

| theorem | argument |
|---|---|
| `AlwaysFetchesAsAgreed`, `DeliversRowStream` | `FetchInv`: all handles have one size (`OneSize`), the batch is a part of what OCI served (`BatchServed`), nil means that all was served (`EndMeansAll`), elements not yet returned hold the next rows unless a handle is astray (`Contents`), and an exhausted result is known to be (`DoneIsKnown`). `Contents` is what makes the step simulation of `RowStream` go through |
| `SendsAssignedRows`, `HeldBuffersAlways` | `DmlInv`: every held handle has the cursor's maximal size and no other key (`OwnHandles`), a stored array is in its buffer and has the common size (`ArraysKept`), and what was sent is what OCI reads (`JustSent`) |
| `LongTextsKept` | `LongInv`: as long as no execution was given up, `inpos` is the number of pieces that OCI has got, and these are the texts of the first chunks (`InPlace`); what was sent while the variable did not change is what it holds (`SentIsHeld`). By induction over the list: the chunks that `AllocFacts` adds have the size asked for, a text is spread over as many as it needs (`NeededFacts`, `FilledText`), and their concatenation is the text again (`FlattenFacts`) |
| `LobIsFile`, `LibraryTypes` | `LobInv`: during a read, OCI's place and the local position agree and lie in the current request (`PlaceOK`), and `got` is the text from the old position to the place (`GotOK`). Each piece extends the text by an adjacent one; the end of the last request is the end of what `LobFile` reads. The position that `seek` computes in 64 bits is the target modulo 2^64 |
| `FilesAlwaysAsNamed` | `BfileInv`: with `OpeningClosed`, only closed files are being opened |

### Values, variables and what threads share

Each part of `Client` has a specification of its own (`NumberTextSpec`, `HandlesSpec`, `StringSpec`,
`OraDateSpec`, `TimeBindSpec`, `AttributesSpec`, `LayoutSpec`, `ObjectsSpec`,
`ErrorSpec`, `ProcessSpec`), and the theorems in the table are about these.
`ClientSafe` states all of the properties of `Client` itself, the specification that
the run checks: its behaviours satisfy the specification of every part
(`PartsSpec`), since a part that does not act leaves its variables alone
(`PartsStep`) and starts in one of its own initial states (`PartsInit`).

| theorem | argument |
|---|---|
| `PrintedReadsSame` | `NumberTextInv`: a number that is neither zero nor infinite is the `Encoded` bytes of digits to the base of 100 whose first and last are not 0, with the exponent of the first figure within the limits (`IsEncoded`). The scanner makes no others (`ConvertedShape`): after alignment the digits start with a figure other than 0, or with one 0 and such a figure at an even exponent (`AlignedShape`), which rounding keeps, also when it carries into a new pair (`RoundedFirst`), and stripping and pairing leave no zero at the end (`PairedShape`). Back again, `EncodedFacts` reads sign, exponent and digits from the bytes, for a negative number with or without its terminator; the printed text shows those digits, wherever its point lies and whatever zeros it was filled up with or lost (`PrintedWithWhole`, `PrintedWithoutWhole`); and what shows them is converted to these bytes (`ShownReads`) |
| `HandlesAlwaysKept` | `HandleInv`: each element has the address of its own object, which is there (`ElementsOwn`); the program has only open objects, and a row for no others (`KeptOpen`); what OCI is about to store into was never given to the program as a row (`NotGiven`), which for cursors holds of the elements that the hook has renewed so far |
| `StringsKept` | `WordInv`: the variable has the sizes that `bind_string_init` computes from some length and width, and gives back what was last stored. `RoundedUp`: the buffer is not shorter than the length in bytes |
| `DatesAlwaysInOrder` | `DateInv`: the bytes are those of fields in their ranges. Century and year with their excess order the years of both eras |
| `TimesAlwaysKept` | `TimeInv`: every element has a descriptor and gives back what it was assigned. Division in C, of numbers of either sign, gives parts that make up the number again; days and seconds give the same parts (`UnitsAgree`), and these the duration (`DurationBack`) |
| `AttributesKept` | `AttrInv`: what was assigned last was accepted, and is in the union as `Cast` leaves it; `LowBits` relates that to the integer that the getter reads |
| `ReadersFound`, `SettingsHold` | `SocketInv`: the ring has the readers and they only (`EntriesFound`), and the entries that the walk has passed are those it has shut down (`WalkOK`). `SettingsInv`: types, and that the table tells what is in effect |
| `OwnErrorReported` | `ErrorInv`: when a call is back, the thread's own handle has the error of that call (`OwnHandle`). A text that leaves more than the spare bytes of the buffer was not cut off (`WholeText`) |
| `LayoutsFit` | `LayoutInv`: the types under construction are distinct and each is embedded in the one before it (`Constructed`), so the one an attribute waits for is none of those outside (`NotUnderConstruction`: this is where the database's refusal of types that hold themselves is needed); every TDO in the cache is complete, under construction or left by an exception (`Accounted`); each attribute is behind the one before it and inside its TDO, and its type does not change any more (`AttrFits`), so completing a TDO disturbs nobody (`StillFits`) |
| `ObjectsHold` | `ObjectsInv`: the elements are instances of their type, and element 1 holds what it should. That a step keeps it is a statement about `SetValue` for every type (`AllAssign`): the result is an instance, which reads as the value if nothing was raised, and as a mixture of old and new if something was (`Sound`). It is shown by induction over types (`TypeInduction`): if it holds of a type's parts, it holds of the type (`AssignStep`), for an object because the attributes before the failure read as new, those behind it as old, and the failing one is a mixture (`PartsSound`), for a collection because its elements are copied whole |

### Assumptions on the constants

| assumption | why the code justifies it |
|---|---|
| `NullAssumption`, `NoneAssumption`, `NoPoolAssumption`, `NilAssumption`, `HandleAssumption`, `SocketAssumption`, `NativeAssumption` | the model's marks for NULL, nil and "no one" are no handles, threads, pools, rows, readers |
| `KindAssumption`, `OpsAssumption`, `ModesAssumption`, `ValuesAssumption`, `AttrAssumption`, `DateAssumption` | each slot, call and input is of one of the classes that the module knows |
| `BoundAssumption`, `LengthAssumption`, `MarksAssumption`, `PrefetchAssumption`, `LobAssumption`, `BfileAssumption` | numbers of rows, lengths and limits are natural, the sizes of requests positive, texts as short as OCI allows, and marks for "unset" no values |
| `ChunkAssumption` | chunks are not empty: `initial_chunk_size` and `max_chunk_size` are 32 KiB and 8 MiB |
| `WordAssumption` | a character has at least one byte, and the ratio of a character set is positive |
| `TimeAssumption` | a second has parts |
| `FiguresAssumption` | 40 figures make 20 pairs; at -130, the smallest exponent, the byte of a negative number is still below 128, and 125, the greatest, belongs to the first figure of a pair |
| `DecimalsAssumption` | what the scanner takes for a digit is one |
| `BufferAssumption` | no message of OCI is as long as the bound on the buffer |
| `ScalarsAssumption` | alignments are powers of two (the smaller of two divides the other), and sizes are those of C |
| `SchemaAssumption` | a collection has one type of elements, and the database refuses a type that holds itself at any depth: every type has a depth that is greater than those of the types it holds, and at most `Nesting` |
| `ObjectsAssumption` | a bind variable has a type whose TDO could be built, so one without attributes that are not supported; nil and what no conversion takes are neither scalars nor arrays |

TLC evaluates each of them in some run.

### Only model-checked

- the liveness properties `FreesEnd`, `InterruptEndsCall`, `LogoffEndsSession`,
  `CancelledReadsEnd`: the prover has no rule for fairness and `ENABLED`;
- `ReadsNearest`: the value of a text is a fold over its figures, and the nearest
  NUMBER is stated with powers of ten;
- `NumbersAgree`: fractions, their greatest common divisor and powers of ten, which
  is arithmetic with products of unknowns.

## What the models assume

- C code between two releases of the interpreter lock is one action.
- `OCIBreak` stops whatever runs on the connection; a break that finds no call
  does nothing.
- OCI uses the buffers whose addresses it was given last for a placeholder, and
  asks for all pieces of a long value even if its indicator says NULL.
- Columns are defined only when no fetched row waits in the buffers.
  `prefetch_rows` does not change while a cursor is in use.
- Empty arrays are not part of `RowsAsAssigned`: an execution with them
  has no rows to send.
- A LOB is used by one thread at a time; another connection does not change it
  during a read. The server fills the gap before a write behind the end. A read
  of 0 characters, which OCI takes as a read to the end, is not made.
- The server keeps a file open until it is closed or the session ends, also
  when the locator is freed.
- The collector does not sweep a wrapper whose free is in progress.
- OCI commits pending work when a session ends in order, and the server rolls
  it back when the connection goes. The rollback of a logoff is not broken by
  anybody. Freeing an attached server handle does not detach it.
- A forked process does not use its parent's connections.

External parts (OCI, the server, Ruby's collector and threads) are modelled as
far as the code in `ext/` and `lib/` relies on them.
- What the `OCINumber` functions compute is the nearest NUMBER; a Float is the nearest
  number of `FloatFigures` figures.
- `OCIErrorGet` cuts a text off at a whole character, within `Spare` bytes of the end
  of the buffer.
- A read from a socket that was shut down returns.

## Not modelled

`available?`, `chunk_size` and `exists?` of LOBs, row ids, connect strings,
authentication modes and the settings of a session, process identity (what a forked child does with its
parent's connections and natives),
format models of `TO_NUMBER` and `TO_CHAR`, `OCIObjectNew` and methods of object types, parse
error positions, and the variants of the hooks for Windows. Lengths near 2^31 are
not reached. The DBD driver is an adapter without state. The PLT hook and the API wrappers are vendored
and generated.

## Plan

Done, in this order: `HandleRing`, `HandleTree` with `HandleForest`;
`ServiceCall`; `RowStream`, `RowFetch`; `ArrayDml`; `LongBuffer` and `Cursor`;
`Session`; `LobFile`, `Lob`, `Bfile` and `Library`; then `NumberText`, `OraNumber`,
`OraDate`, `TimeBind`, `Attributes`, `ObjectLayout`, `Objects`, `StringBind`, `SocketHooks`,
`Settings`, `ErrorReport`, `HandleBind` and `Client`.

Next, the most important first:

1. Process identity in `Session`: a forked child that closes or loses its
   parent's connections.
2. Pinned and referenced objects in `Objects`, and their place in `HandleTree`.

New parts join an existing run where they share an object with it, as the
parts of `Cursor` do.
