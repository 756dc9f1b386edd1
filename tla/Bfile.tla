--------------------------------- MODULE Bfile ---------------------------------
(***************************************************************************)
(* The OCI8::BFILE objects of one connection: dir_alias=, filename=,       *)
(* dir_alias, filename, the implicit open of read, close and collection.   *)
(* Ruby threads may call different objects in turn: an open that finds     *)
(* the session's files used up leaves the lock between its attempts.       *)
(***************************************************************************)
EXTENDS Naturals, FiniteSets

CONSTANTS BFILE,     \* the objects
          DirAlias, Filename,
          MaxOpen,   \* SESSION_MAX_OPEN_FILES of the server
          NoName

ASSUME BfileAssumption == MaxOpen \in Nat /\ NoName \notin DirAlias \union Filename

VARIABLES
  exists,     \* the objects whose descriptor is allocated
  isOpen,     \* lob->state = S_BFILE_OPEN
  dirAlias, filename,   \* @dir_alias, @filename, or NoName for nil
  locator,    \* the directory and file named in the locator
  served,     \* the file that the server has open for the object, or NoName
  opening,    \* the objects for which open_bfile loops
  attempt,    \* changes with each refused attempt
  givenUp     \* the objects of which an open or close was cut by an exception

names == <<dirAlias, filename, locator>>
bfileVars == <<exists, isOpen, names, served, opening, attempt, givenUp>>

Locator == DirAlias \X Filename

\* clones of one fetched locator, without instance variables
BfileInit ==
  /\ exists = BFILE
  /\ isOpen = [f \in BFILE |-> FALSE]
  /\ dirAlias = [f \in BFILE |-> NoName] /\ filename = [f \in BFILE |-> NoName]
  /\ \E name \in Locator : locator = [f \in BFILE |-> name]
  /\ served = [f \in BFILE |-> NoName]
  /\ opening = {} /\ attempt = 0 /\ givenUp = {}

Ready(f) == f \in exists \ opening

-------------------------------------------------------------------------------
(***************************************************************************)
(* open_bfile, called by read                                              *)
(***************************************************************************)

ReadFile(f) ==
  /\ Ready(f) /\ ~isOpen[f]
  /\ opening' = opening \union {f}
  /\ UNCHANGED <<exists, isOpen, names, served, attempt, givenUp>>

OpenFiles == {f \in BFILE : served[f] # NoName}

\* ORA-22290
TooMany(f) == Cardinality(OpenFiles) >= MaxOpen

\* the open files that the loop over the siblings closes before the next
\* attempt: its condition is false from the start
ClosedImplicitly(f) == {}

OpenRefused(f) ==
  /\ f \in opening /\ TooMany(f)
  /\ isOpen' = [g \in BFILE |-> isOpen[g] /\ g \notin ClosedImplicitly(f)]
  /\ served' = [g \in BFILE |-> IF g \in ClosedImplicitly(f) THEN NoName ELSE served[g]]
  /\ attempt' = 1 - attempt
  /\ UNCHANGED <<exists, names, opening, givenUp>>

\* The server opens the file unless it is open for this locator already.
OpenDone(f) ==
  /\ f \in opening /\ ~TooMany(f) /\ served[f] = NoName
  /\ served' = [served EXCEPT ![f] = locator[f]]
  /\ isOpen' = [isOpen EXCEPT ![f] = TRUE]
  /\ opening' = opening \ {f}
  /\ UNCHANGED <<exists, names, attempt, givenUp>>

\* An error of OCI when the file is open for this locator already.
OpenAgain(f) ==
  /\ f \in opening /\ served[f] # NoName
  /\ opening' = opening \ {f}
  /\ UNCHANGED <<exists, isOpen, names, served, attempt, givenUp>>

\* Another error, or an exception that strikes before or after OCI's work.
OpenRaises(f) ==
  /\ f \in opening
  /\ opening' = opening \ {f}
  /\ \/ UNCHANGED <<served, givenUp>>
     \/ /\ ~TooMany(f) /\ served[f] = NoName
        /\ served' = [served EXCEPT ![f] = locator[f]]
        /\ givenUp' = givenUp \union {f}
  /\ UNCHANGED <<exists, isOpen, names, attempt>>

-------------------------------------------------------------------------------
(***************************************************************************)
(* The names                                                               *)
(***************************************************************************)

\* oci8_bfile_get_name asks the locator for both names if one that is
\* wanted has not been cached.
Cached(f, ivar) ==
  IF ivar[f] # NoName THEN UNCHANGED <<dirAlias, filename>>
  ELSE /\ dirAlias' = [dirAlias EXCEPT ![f] = locator[f][1]]
       /\ filename' = [filename EXCEPT ![f] = locator[f][2]]

GetDirAlias(f) ==
  /\ Ready(f) /\ Cached(f, dirAlias)
  /\ UNCHANGED <<exists, isOpen, locator, served, opening, attempt, givenUp>>

GetFilename(f) ==
  /\ Ready(f) /\ Cached(f, filename)
  /\ UNCHANGED <<exists, isOpen, locator, served, opening, attempt, givenUp>>

\* the name of ivar, as oci8_bfile_get_name returns it
NameOf(f, ivar, i) == IF ivar[f] # NoName THEN ivar[f] ELSE locator[f][i]

\* Mutant: the file is not closed before it is renamed.
CloseNothing(f) == UNCHANGED <<isOpen, served>>

\* bfile_close, when the server does it
CloseFirst(f) ==
  /\ isOpen' = [isOpen EXCEPT ![f] = FALSE]
  /\ served' = IF isOpen[f] THEN [served EXCEPT ![f] = NoName] ELSE served

SetDirAlias(f, name) ==
  /\ Ready(f)
  /\ CloseFirst(f)
  /\ locator' = [locator EXCEPT ![f] = <<name, NameOf(f, filename, 2)>>]
  /\ dirAlias' = [dirAlias EXCEPT ![f] = name]
  /\ filename' = [filename EXCEPT ![f] = NameOf(f, filename, 2)]
  /\ UNCHANGED <<exists, opening, attempt, givenUp>>

SetFilename(f, name) ==
  /\ Ready(f)
  /\ CloseFirst(f)
  /\ locator' = [locator EXCEPT ![f] = <<NameOf(f, dirAlias, 1), name>>]
  /\ dirAlias' = [dirAlias EXCEPT ![f] = NameOf(f, dirAlias, 1)]
  /\ filename' = [filename EXCEPT ![f] = name]
  /\ UNCHANGED <<exists, opening, attempt, givenUp>>

\* OCILobFileClose fails, or is cut before or after its work.
CloseRaises(f, ivar) ==
  /\ Ready(f) /\ isOpen[f]
  /\ Cached(f, ivar)
  /\ \/ UNCHANGED <<served, givenUp>>
     \/ /\ served' = [served EXCEPT ![f] = NoName]
        /\ givenUp' = givenUp \union {f}
  /\ UNCHANGED <<exists, isOpen, locator, opening, attempt>>

\* OCILobFileSetName refuses the name, or it is longer than 65535 bytes:
\* the file has been closed by then.
SetNameRaises(f, ivar) ==
  /\ Ready(f)
  /\ Cached(f, ivar)
  /\ CloseFirst(f)
  /\ UNCHANGED <<exists, locator, opening, attempt, givenUp>>

-------------------------------------------------------------------------------
\* close, or the collector: the descriptor is freed, nothing is said to the
\* server
Free(f) ==
  /\ Ready(f)
  /\ exists' = exists \ {f}
  /\ UNCHANGED <<isOpen, names, served, opening, attempt, givenUp>>

Attempt(f) == OpenRefused(f) \/ OpenDone(f) \/ OpenAgain(f)

BfileNext ==
  \E f \in BFILE :
    \/ ReadFile(f) \/ Attempt(f) \/ OpenRaises(f)
    \/ GetDirAlias(f) \/ GetFilename(f)
    \/ \E name \in DirAlias : SetDirAlias(f, name)
    \/ \E name \in Filename : SetFilename(f, name)
    \/ \E ivar \in {dirAlias, filename} : CloseRaises(f, ivar) \/ SetNameRaises(f, ivar)
    \/ Free(f)

\* open_bfile goes on without waiting for anybody
BfileFairness == \A f \in BFILE : WF_bfileVars(Attempt(f))

(***************************************************************************)
(* Properties.                                                             *)
(***************************************************************************)

BfileTypeOK ==
  /\ exists \subseteq BFILE /\ opening \subseteq exists /\ givenUp \subseteq BFILE
  /\ isOpen \in [BFILE -> BOOLEAN]
  /\ dirAlias \in [BFILE -> DirAlias \union {NoName}]
  /\ filename \in [BFILE -> Filename \union {NoName}]
  /\ locator \in [BFILE -> Locator]
  /\ served \in [BFILE -> Locator \union {NoName}]
  /\ attempt \in {0, 1}

\* the object knows whether the server has its file open, and the open file is
\* the one that its locator names
OpenFileIsNamed ==
  \A f \in exists \ givenUp : served[f] = (IF isOpen[f] THEN locator[f] ELSE NoName)

\* what dir_alias and filename answer from their cache is what the locator says
CachedNamesTrue ==
  \A f \in exists :
    /\ dirAlias[f] \in {NoName, locator[f][1]}
    /\ filename[f] \in {NoName, locator[f][2]}

\* A renamed BFILE never reads the old file, unless an exception cut its open or
\* close, and its cached names are true, also after a rename of which only a part
\* was done (bfile_close in oci8_bfile_set_name, the order of call and assignment
\* in open_bfile, oci8_bfile_set_dir_alias, oci8_bfile_set_filename).
FilesAsNamed == OpenFileIsNamed /\ CachedNamesTrue

\* A read of a BFILE gets its file opened, or raises: when the server refuses
\* because too many are open, the others are closed (the comment in
\* open_bfile: "close all opened BFILE implicitly").
OpenEnds == \A f \in BFILE : f \in opening ~> f \notin opening
===============================================================================
