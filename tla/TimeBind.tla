-------------------------------- MODULE TimeBind --------------------------------
(***************************************************************************)
(* Bind variables of timestamps and intervals (ocidatetime.c, datetime.rb) *)
(* and dates in object attributes: an array of OCI descriptors, what is    *)
(* stored in them, and what is read back.                                  *)
(*                                                                         *)
(* A moment is a Ruby Date, Time or DateTime: its class, six fields, the   *)
(* nanosecond and the offset from UTC in seconds.  A duration counts parts *)
(* of a second, of which PartsPerSecond make one; a descriptor holds       *)
(* nothing finer than KeptParts of them (a nanosecond).  The program gives *)
(* it in seconds or in days, which are Rationals; how Floats round is left *)
(* out.                                                                    *)
(***************************************************************************)
EXTENDS OraDate, FiniteSets

CONSTANTS
  Moments, Months, Durations,   \* what the program assigns
  PartsPerSecond, KeptParts,
  SessionOffset,                \* the session's time zone in minutes
  Elements                      \* number of elements of the array

ASSUME TimeAssumption ==
  /\ \A v \in Moments :
       /\ v.class \in {"Date", "Time", "DateTime"}
       /\ v.fields \in [1 .. 6 -> Int] /\ v.offset \in Int
  /\ Months \subseteq Int /\ Durations \subseteq Int /\ SessionOffset \in Int
  /\ PartsPerSecond \in Nat \ {0} /\ KeptParts \in Nat \ {0} /\ Elements \in Nat

VARIABLES
  bindType,       \* "timestamp", "timestamp_tz", "interval_ym", "interval_ds", "date"
  stage,          \* of the bind variable: "new", "ready", "failed", "freed"
  slot,           \* elements of valuep: NULL, or a descriptor with its content
  assigned,       \* for each element, what was last accepted
  unit            \* IntervalDS.unit, of the whole process

timeBindVars == <<bindType, stage, slot, assigned, unit>>

BindTypes == {"timestamp", "timestamp_tz", "interval_ym", "interval_ds", "date"}
Absolute(i) == IF i < 0 THEN -i ELSE i
Null == <<>>
Fresh == <<"fresh">>
Holds(x) == <<"holds", x>>
NotAssigned == <<>>

-----------------------------------------------------------------------------
\* Moments

\* Whole minutes of the offset: DateTime's fraction of a day is cut off, a
\* Time's seconds are divided with Ruby's /.
OffsetMinutes(v) == IF v.class = "DateTime" THEN Quotient(v.offset, 60) ELSE v.offset \div 60

\* datetime_to_array for :date; the hour, min and sec of a Date are private
DateArray(v) == [i \in 1 .. 6 |-> IF v.class = "Date" /\ i > 3 THEN 0 ELSE v.fields[i]]

\* datetime_to_array for the others; a Date has no offset either
DatetimeToArray(v) ==
  LET minutes == OffsetMinutes(v)
      size == Absolute(minutes)
  IN  [fields |-> DateArray(v),
       nsec |-> IF v.class = "Date" THEN 0 ELSE v.nsec,
       zone |-> IF v.class = "Date" \/ bindType = "timestamp" THEN <<>>
                ELSE IF minutes < 0 THEN <<-(size \div 60), size % 60>>
                ELSE <<minutes \div 60, minutes % 60>>]

\* Mutant: minutes west of Greenwich count to the east.
ZoneTextEast(zone) == zone[1] * 60 + zone[2]

\* What OCI understands of "%+02ld:%02ld": the sign is that of the hours.
ZoneText(zone) ==
  LET sign == IF zone[1] < 0 THEN -1 ELSE 1
  IN  sign * (Absolute(zone[1]) * 60 + zone[2])

FieldsAccepted(f) ==
  /\ -4712 <= f[1] /\ f[1] <= 9999
  /\ f[2] \in 0 .. 12 /\ f[3] \in 0 .. 31 /\ f[4] \in 0 .. 23
  /\ f[5] \in 0 .. 60 /\ f[6] \in 0 .. 60

\* OCIDateTimeConstruct
ConstructAccepts(f) == f[2] # 0 /\ f[3] # 0 /\ f[5] # 60 /\ f[6] # 60

\* oci8_set_ocitimestamp_tz: without a zone, the session's is taken
SetTimestamp(a) ==
  IF ~FieldsAccepted(a.fields) \/ ~ConstructAccepts(a.fields) THEN Null
  ELSE Holds([fields |-> a.fields, nsec |-> a.nsec,
              offset |-> IF a.zone = <<>> THEN SessionOffset ELSE ZoneText(a.zone)])

\* oci8_make_ocitimestamp; hour and minute of the zone have one sign
MakeTimestamp(s) ==
  [fields |-> s.fields, nsec |-> s.nsec,
   zone |-> IF bindType = "timestamp" THEN <<>>
            ELSE <<Quotient(s.offset, 60), Remainder(s.offset, 60)>>]

\* array_to_time and array_to_datetime: the offset in seconds
ArrayToTime(a) ==
  [fields |-> a.fields, nsec |-> a.nsec,
   offset |-> IF a.zone = <<>> THEN <<>> ELSE <<a.zone[1] * 3600 + a.zone[2] * 60>>]

\* oci8_set_ocidate: each field is written before the next one is checked.
DateAccepts(i, v) == Lowest[i] - (IF i \in {2, 3} THEN 1 ELSE 0) <= v /\ v <= Highest[i]

SetOCIDate(old, f) ==
  LET Before(i) == \A j \in 1 .. i : DateAccepts(j, f[j])
  IN  [i \in 1 .. 6 |-> IF Before(i) THEN f[i] ELSE old[i]]

-----------------------------------------------------------------------------
\* Intervals

\* IntervalYM#set gives OCI val / 12 and val % 12, and get takes them together.
SetYearMonth(v) == Holds(<<v \div 12, v % 12>>)
GetYearMonth(s) == s[1] * 12 + s[2]

\* IntervalDS#set with the unit :second divides by 86400, 3600 and 60 ...
FromSeconds(size) ==
  LET second == size \div PartsPerSecond
  IN  <<second \div 86400, (second % 86400) \div 3600, (second % 3600) \div 60, second % 60,
        ((size % PartsPerSecond) * KeptParts) \div PartsPerSecond>>

\* ... and with :day multiplies what is left of a day by 24, 60 and 60.
FromDays(size) ==
  LET day == 86400 * PartsPerSecond
      hours == (size % day) * 24
      minutes == (hours % day) * 60
      seconds == (minutes % day) * 60
  IN  <<size \div day, hours \div day, minutes \div day, seconds \div day,
        ((seconds % day) * KeptParts) \div day>>

\* A negative duration is split without its sign.
SplitDuration(v) ==
  LET parts == IF unit = "day" THEN FromDays(Absolute(v)) ELSE FromSeconds(Absolute(v))
  IN  [i \in 1 .. 5 |-> IF v < 0 THEN -parts[i] ELSE parts[i]]

\* IntervalDS#get, the duration that its seconds or days are, in kept parts
JoinDuration(s) == (s[1] * 86400 + s[2] * 3600 + s[3] * 60 + s[4]) * KeptParts + s[5]

-----------------------------------------------------------------------------
TimeBindInit(types) ==
  /\ bindType \in types
  /\ stage = "new"
  /\ slot = [i \in 1 .. Elements |-> Null]
  /\ assigned = [i \in 1 .. Elements |-> NotAssigned]
  /\ unit = "second"

\* IntervalDS.unit=, at any time
SetUnit(u) ==
  /\ bindType = "interval_ds" /\ unit' = u
  /\ UNCHANGED <<bindType, stage, slot, assigned>>

\* bind_init_elem_common allocates one descriptor after the other; if one cannot
\* be had, the ones before it stay in the array.  A date is no descriptor.
InitElements ==
  /\ stage = "new"
  /\ \E n \in 0 .. Elements :
       /\ slot' = [i \in 1 .. Elements |-> IF i <= n THEN Fresh ELSE Null]
       /\ stage' = IF n = Elements THEN "ready" ELSE "failed"
  /\ UNCHANGED <<bindType, assigned, unit>>

Assignable ==
  CASE bindType \in {"timestamp", "timestamp_tz", "date"} -> Moments
    [] bindType = "interval_ym" -> Months
    [] bindType = "interval_ds" -> Durations

\* What the set function leaves in an element, or Null if it raises
Converted(v) ==
  CASE bindType \in {"timestamp", "timestamp_tz"} -> SetTimestamp(DatetimeToArray(v))
    [] bindType = "interval_ym" -> SetYearMonth(v)
    [] bindType = "interval_ds" -> Holds(SplitDuration(v))

\* bind_*_set of an element; arrays are set element by element until one raises.
SetElement(i, v) ==
  /\ stage = "ready" /\ bindType # "date"
  /\ IF Converted(v) = Null THEN UNCHANGED <<slot, assigned>>
     ELSE /\ slot' = [slot EXCEPT ![i] = Converted(v)]
          /\ assigned' = [assigned EXCEPT ![i] = <<v>>]
  /\ UNCHANGED <<bindType, stage, unit>>

OldFields(i) == IF slot[i] = Fresh THEN <<0, 0, 0, 0, 0, 0>> ELSE slot[i][2]

\* A refused date has overwritten fields: the element then holds none that was
\* assigned.
SetDate(i, v) ==
  /\ stage = "ready" /\ bindType = "date"
  /\ slot' = [slot EXCEPT ![i] = Holds(SetOCIDate(OldFields(i), DateArray(v)))]
  /\ assigned' = [assigned EXCEPT ![i] =
                    IF \A j \in 1 .. 6 : DateAccepts(j, DateArray(v)[j]) THEN <<v>> ELSE NotAssigned]
  /\ UNCHANGED <<bindType, stage, unit>>

\* bind_free_common, from OCIHandle#free or the collector
FreeElements ==
  /\ stage' = "freed"
  /\ slot' = [i \in 1 .. Elements |-> Null]
  /\ UNCHANGED <<bindType, assigned, unit>>

TimeBindNext ==
  \/ InitElements
  \/ \E i \in 1 .. Elements, v \in Assignable : SetElement(i, v) \/ SetDate(i, v)
  \/ FreeElements
  \/ \E u \in {"second", "day"} : SetUnit(u)

TimeBindSpec == TimeBindInit(BindTypes) /\ [][TimeBindNext]_timeBindVars

-----------------------------------------------------------------------------
\* Properties

GivesBack(s) ==
  CASE bindType \in {"timestamp", "timestamp_tz"} -> ArrayToTime(MakeTimestamp(s))
    [] bindType = "interval_ym" -> GetYearMonth(s)
    [] bindType = "interval_ds" -> JoinDuration(s)
    [] bindType = "date" -> s

\* A zone less than an hour west has no sign left in its hours.
SignLost(v) == v.class # "Date" /\ OffsetMinutes(v) \in -59 .. -1

\* What the program is to get back for v
Meant(v) ==
  CASE bindType = "timestamp" ->
         [fields |-> DatetimeToArray(v).fields, nsec |-> DatetimeToArray(v).nsec, offset |-> <<>>]
    [] bindType = "timestamp_tz" ->
         [fields |-> DatetimeToArray(v).fields, nsec |-> DatetimeToArray(v).nsec,
          offset |-> <<IF v.class = "Date" THEN SessionOffset * 60
                       ELSE OffsetMinutes(v) * 60>>]
    [] bindType = "interval_ym" -> v
    [] bindType = "interval_ds" ->
         (IF v < 0 THEN -1 ELSE 1) * ((Absolute(v) * KeptParts) \div PartsPerSecond)
    [] bindType = "date" -> DateArray(v)

\* An element gives back what it last accepted: a moment with its offset in
\* whole minutes, months, or a duration of either sign cut off towards zero,
\* also when the unit of intervals has changed since, and whatever was refused
\* since; only a date is lost when another is refused, until one is accepted.
\* Zones of -00:01 to -00:59 are the exception: they come back with the other
\* sign.  (DateTime#set and get, Time, IntervalYM, IntervalDS of datetime.rb
\* with ocidatetime.c)
TimesKept ==
  \A i \in 1 .. Elements :
    slot[i] # Null /\ assigned[i] # NotAssigned =>
      \/ GivesBack(slot[i][2]) = Meant(assigned[i][1])
      \/ bindType = "timestamp_tz" /\ SignLost(assigned[i][1])
===============================================================================
