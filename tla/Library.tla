-------------------------------- MODULE Library --------------------------------
(***************************************************************************)
(* Large objects of a connection: one CLOB or BLOB, or several BFILEs.     *)
(* They share nothing but the connection.                                  *)
(***************************************************************************)
EXTENDS Lob, Bfile

VARIABLE part

libraryVars == <<part, lobVars, bfileVars>>

LibraryInit ==
  /\ part \in {"lob", "bfile"}
  /\ LobInit /\ BfileInit

LibraryNext ==
  /\ UNCHANGED part
  /\ \/ part = "lob" /\ LobNext /\ UNCHANGED bfileVars
     \/ part = "bfile" /\ BfileNext /\ UNCHANGED lobVars

LibrarySpec == LibraryInit /\ [][LibraryNext]_libraryVars

\* open_bfile goes on without waiting for anybody
LibraryFairSpec == LibrarySpec /\ BfileFairness

\* The positions are unsigned 64 bit numbers (lob->pos, pos of
\* oci8_lob_read), also after seek with a negative number.
LibraryTypeOK == part \in {"lob", "bfile"} /\ LobTypeOK /\ BfileTypeOK
===============================================================================
