--------------------------------- MODULE Client ---------------------------------
(***************************************************************************)
(* What does not depend on the state of a session: values that go to the   *)
(* server and come back (numbers, dates, strings, timestamps, intervals,   *)
(* LOBs, cursors, object types, attributes of handles), and what all       *)
(* connections of a process share (hooks, properties with the environment, *)
(* error handles).                                                         *)
(* The parts share no state, except that a property installs the hooks:    *)
(* each behaviour is one of a single part.                                 *)
(***************************************************************************)
EXTENDS OraNumber, TimeBind, Attributes, Objects, StringBind, HandleBind, Settings,
        ErrorReport

VARIABLE part

vars == <<part, numberTextVars, oraNumberVars, oraDateVars, timeBindVars, attributeVars,
          layoutVars, storeVars, stringVars, handleVars, socketVars, settingVars, errorVars>>

Parts == {"text", "number", "date", "time", "attribute", "layout", "object", "string", "handle",
          "sockets", "settings", "errors"}

\* What the part p starts with: any of S if it acts, and one of them if not
Start(p, S) == IF part = p THEN S ELSE {CHOOSE x \in S : TRUE}

Init ==
  /\ part \in Parts
  /\ NumberTextInit(Start("text", Texts))
  /\ OraNumberInit(Start("number", OraNumbers), Start("number", Operands))
  /\ OraDateInit
  /\ TimeBindInit(Start("time", BindTypes))
  /\ AttributesInit(Start("attribute", AttrTypes), Start("attribute", BOOLEAN))
  /\ LayoutInit /\ StoreInit /\ StringInit /\ HandlesInit
  /\ SocketInit /\ SettingsInit /\ ErrorInit

\* Readers, while the program changes the property that lets them be cancelled
SocketsNext ==
  \/ SocketStep /\ UNCHANGED settingVars
  \/ \E v \in SettingValues : SetCancel(v)

Next ==
  /\ UNCHANGED part
  /\ IF part = "text" THEN NumberTextNext ELSE UNCHANGED numberTextVars
  /\ IF part = "number" THEN OraNumberNext ELSE UNCHANGED oraNumberVars
  /\ IF part = "date" THEN OraDateNext ELSE UNCHANGED oraDateVars
  /\ IF part = "time" THEN TimeBindNext ELSE UNCHANGED timeBindVars
  /\ IF part = "attribute" THEN AttributesNext ELSE UNCHANGED attributeVars
  /\ IF part = "layout" THEN LayoutNext ELSE UNCHANGED layoutVars
  /\ IF part = "object" THEN StoreNext ELSE UNCHANGED storeVars
  /\ IF part = "string" THEN StringNext ELSE UNCHANGED stringVars
  /\ IF part = "handle" THEN HandlesNext ELSE UNCHANGED handleVars
  /\ IF part = "errors" THEN ErrorNext ELSE UNCHANGED errorVars
  /\ CASE part = "sockets" -> SocketsNext
       [] part = "settings" -> SettingsNext
       [] OTHER -> UNCHANGED <<socketVars, settingVars>>

Spec == Init /\ [][Next]_vars /\ SocketFairness
===============================================================================
