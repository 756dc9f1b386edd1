----------------------------- MODULE MCConnection -----------------------------
(***************************************************************************)
(* Connections: their sessions and pools, or the LOBs and BFILEs of one.   *)
(* These share nothing, so one of the three acts in a behaviour, and the   *)
(* others stay in one initial state.                                       *)
(***************************************************************************)
EXTENDS MCSession, MCLibrary

VARIABLE library   \* LOBs and BFILEs act, not sessions

connectionVars == <<library, vars, libraryVars>>

LobActs == library /\ part = "lob"
BfilesAct == library /\ part = "bfile"

ConnectionInit ==
  /\ library \in BOOLEAN
  /\ Init /\ LibraryInit
  /\ ~library => part = "lob"
  /\ ~LobActs => isClob /\ content = <<>>
  /\ ~BfilesAct => \A f \in BFILE : locator[f] = CHOOSE name \in Locator : TRUE

ConnectionNext ==
  /\ UNCHANGED library
  /\ \/ library /\ LibraryNext /\ UNCHANGED vars
     \/ ~library /\ Next /\ UNCHANGED libraryVars

ConnectionSpec == ConnectionInit /\ [][ConnectionNext]_connectionVars /\ SessionFairness
===============================================================================
