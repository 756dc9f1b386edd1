-------------------------------- MODULE Settings --------------------------------
(***************************************************************************)
(* OCI8.properties (properties.rb) and what they control: the environment  *)
(* handle (env.c), the hooks, and flags of the extension (oci8.c).  A      *)
(* value is told apart by the class of values it belongs to.               *)
(***************************************************************************)
EXTENDS SocketHooks

CONSTANT SettingValues   \* a subset of the classes below

VARIABLES
  properties,     \* @@properties
  rubyFloats,     \* oci8_float_conversion_type_is_ruby
  events,         \* OCI_EVENTS in oci8_env_mode
  env,            \* oci8_global_envhp: "none", "plain", or "events" with OCI_EVENTS
  keepAlive,      \* oci8_tcp_keepalive_time
  socketTime,     \* keepalive time of the socket that OCI opened last,
  meantTime       \* and what the program wanted of it

settingVars == <<properties, rubyFloats, events, env, keepAlive, socketTime, meantTime>>

Classes == {"nil", "false", "byte", "char", "ruby", "oracle", "negative", "zero", "positive", "huge"}

ASSUME ValuesAssumption == SettingValues \subseteq Classes

Names == {"length_semantics", "float_conversion_type", "statement_cache_size",
          "events_mode", "cancel_read_at_exit", "recv_timeout", "tcp_keepalive_time"}

Truth(v) == v \notin {"nil", "false"}

\* to_i, which false and symbols do not have
HasToI(v) == v \in {"nil", "negative", "zero", "positive", "huge"}
ToI(v) == IF v = "nil" THEN "zero" ELSE v

SettingsInit ==
  /\ properties = [name \in Names |->
       CASE name = "length_semantics" -> "byte"
         [] name = "float_conversion_type" -> "ruby"
         [] name = "statement_cache_size" -> "zero"
         [] name \in {"events_mode", "cancel_read_at_exit"} -> FALSE
         [] name \in {"recv_timeout", "tcp_keepalive_time"} -> "nil"]
  /\ rubyFloats = TRUE /\ events = FALSE /\ env = "none" /\ keepAlive = "zero"
  /\ socketTime = "default" /\ meantTime = "default"

Remember(name, v) == properties' = [properties EXCEPT ![name] = v]

OnlyProperties == UNCHANGED <<rubyFloats, events, env, keepAlive, socketTime, meantTime, socketVars>>

\* :length_semantics is taken as it is: the check is for another name.
SetLengthSemantics(v) == Remember("length_semantics", v) /\ OnlyProperties

SetFloatConversion(v) ==
  /\ v \in {"ruby", "oracle"}
  /\ rubyFloats' = (v = "ruby") /\ Remember("float_conversion_type", v)
  /\ UNCHANGED <<events, env, keepAlive, socketTime, meantTime, socketVars>>

SetCacheSize(v) ==
  /\ HasToI(v) /\ ToI(v) # "negative"
  /\ Remember("statement_cache_size", ToI(v)) /\ OnlyProperties

\* tcp_connect_timeout, connect_timeout, send_timeout and recv_timeout are alike.
SetTimeout(v) ==
  /\ v = "nil" \/ v \in {"positive", "huge"}
  /\ Remember("recv_timeout", v) /\ OnlyProperties

\* Mutant: the mode may change when the environment exists.
SetEventsAnytime(v) ==
  /\ events' = Truth(v) /\ Remember("events_mode", Truth(v))
  /\ UNCHANGED <<rubyFloats, env, keepAlive, socketTime, meantTime, socketVars>>

\* __set_prop(2, mode) raises when the environment exists.
SetEvents(v) ==
  /\ env = "none"
  /\ events' = Truth(v) /\ Remember("events_mode", Truth(v))
  /\ UNCHANGED <<rubyFloats, env, keepAlive, socketTime, meantTime, socketVars>>

SetCancel(v) ==
  /\ SetCancelRead(Truth(v))
  /\ IF Installed' THEN Remember("cancel_read_at_exit", Truth(v)) ELSE UNCHANGED properties
  /\ UNCHANGED <<rubyFloats, events, env, keepAlive, socketTime, meantTime>>

\* __set_prop(4, v) installs the hooks before it finds that v is no C int.
SetKeepAlive(v) ==
  /\ v = "nil" \/ v \in {"positive", "huge"}
  /\ Install /\ UNCHANGED cancelRead
  /\ IF Installed' /\ v # "huge"
     THEN keepAlive' = ToI(v) /\ Remember("tcp_keepalive_time", v)
     ELSE UNCHANGED <<keepAlive, properties>>
  /\ UNCHANGED <<rubyFloats, events, env, socketTime, meantTime>>

\* oci8_make_envhp, at the first use of oci8_envhp; when OCIEnvCreate fails, the
\* next use tries again.
MakeEnv ==
  /\ env = "none"
  /\ env' \in {"none", IF events THEN "events" ELSE "plain"}
  /\ UNCHANGED <<properties, rubyFloats, events, keepAlive, socketTime, meantTime, socketVars>>

\* OCI calls setsockopt for a socket it opens: hook_setsockopt sets the time if
\* that turned SO_KEEPALIVE on.
OpenSocket(turnsOn) ==
  /\ env # "none"
  /\ socketTime' = IF "setsockopt" \in hooked /\ turnsOn /\ keepAlive = "positive"
                   THEN keepAlive ELSE "default"
  /\ meantTime' = IF turnsOn /\ properties["tcp_keepalive_time"] # "nil"
                  THEN properties["tcp_keepalive_time"] ELSE "default"
  /\ UNCHANGED <<properties, rubyFloats, events, env, keepAlive, socketVars>>

SettingsNext ==
  \/ \E v \in SettingValues : \/ SetLengthSemantics(v) \/ SetFloatConversion(v) \/ SetCacheSize(v)
                       \/ SetTimeout(v) \/ SetEvents(v) \/ SetCancel(v) \/ SetKeepAlive(v)
  \/ MakeEnv
  \/ \E b \in BOOLEAN : OpenSocket(b)

\* The program sets properties while its threads read from sockets.
ProcessNext == SettingsNext \/ (SocketStep /\ UNCHANGED settingVars)

ProcessSpec == SocketInit /\ SettingsInit /\ [][ProcessNext]_<<socketVars, settingVars>>

-----------------------------------------------------------------------------
\* What OCI8.properties tells is in effect, also when a setter raised halfway or
\* tried again: the conversion of numbers, the mode of the environment, which
\* cannot change once that exists, and the flags of the hooks, which are set only
\* when all of the functions are replaced (properties.rb, oci8_s_set_prop).
SettingsInEffect ==
  /\ rubyFloats = (properties["float_conversion_type"] = "ruby")
  /\ events = properties["events_mode"]
  /\ env # "none" => (env = "events") = properties["events_mode"]
  /\ cancelRead = properties["cancel_read_at_exit"]
  /\ cancelRead \/ keepAlive # "zero" => Installed
  /\ keepAlive = ToI(properties["tcp_keepalive_time"])
  /\ socketTime = meantTime
===============================================================================
