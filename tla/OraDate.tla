-------------------------------- MODULE OraDate --------------------------------
(***************************************************************************)
(* Class OraDate and its bind type (oradate.c).  A date is the seven bytes *)
(* of ora_date_t: century and year in excess of 100, month, day, and hour, *)
(* minute, second in excess of 1.                                          *)
(***************************************************************************)
EXTENDS Integers, Sequences

CONSTANTS
  Arguments,      \* lists of numbers given to OraDate.new
  FieldValues     \* for each field, the numbers given to its setter

ASSUME DateAssumption ==
  /\ \A args \in Arguments : Len(args) <= 6 /\ args \in Seq(Int)
  /\ FieldValues \in [1 .. 6 -> SUBSET Int]

VARIABLES
  date,           \* an OraDate
  bound,          \* the date in the buffer of a bind variable
  given,          \* the six numbers that the program set in date
  boundGiven,     \* those that were set in the date that was bound
  dateRaised      \* the last call raised an exception

oraDateVars == <<date, bound, given, boundGiven, dateRaised>>

Defaults == <<1, 1, 1, 0, 0, 0>>
Lowest  == <<-4712, 1, 1, 0, 0, 0>>
Highest == <<9999, 12, 31, 23, 59, 59>>

\* Division and remainder of C, towards zero
Quotient(a, b) == IF a < 0 THEN -((-a) \div b) ELSE a \div b
Remainder(a, b) == a - b * Quotient(a, b)

\* Mutant: the century is rounded down, and the year within it is not.
Bytes7Down(f) == <<f[1] \div 100 + 100, Remainder(f[1], 100) + 100,
                   f[2], f[3], f[4] + 1, f[5] + 1, f[6] + 1>>

\* oci8_set_ora_date
Bytes7(f) == <<Quotient(f[1], 100) + 100, Remainder(f[1], 100) + 100,
               f[2], f[3], f[4] + 1, f[5] + 1, f[6] + 1>>

\* The fields of a date, as to_a, to_s and the six readers tell them
ToArray(d) == <<(d[1] - 100) * 100 + (d[2] - 100), d[3], d[4], d[5] - 1, d[6] - 1, d[7] - 1>>

InRange(i, v) == Lowest[i] <= v /\ v <= Highest[i]

\* What an unset bind variable holds: julian day 0
JulianDay0 == <<100 - 47, 100 - 12, 1, 1, 1, 1, 1>>

-----------------------------------------------------------------------------
OraDateInit ==
  /\ date = Bytes7(Defaults) /\ given = Defaults
  /\ bound = JulianDay0 /\ boundGiven = <<-4712, 1, 1, 0, 0, 0>>
  /\ dateRaised = FALSE

Refuse == dateRaised' = TRUE /\ UNCHANGED <<date, given, bound, boundGiven>>

Keep(fields) ==
  /\ date' = Bytes7(fields) /\ given' = fields
  /\ dateRaised' = FALSE
  /\ UNCHANGED <<bound, boundGiven>>

\* ora_date_initialize: all arguments are checked before the first is stored.
InitializeDate(args) ==
  IF \E i \in DOMAIN args : ~InRange(i, args[i]) THEN Refuse
  ELSE Keep([i \in 1 .. 6 |-> IF i \in DOMAIN args THEN args[i] ELSE Defaults[i]])

\* ora_date_s_now stores the fields of localtime unchecked; a leap second is 60.
Now == \E args \in Arguments :
         /\ Len(args) = 6 /\ \A i \in 1 .. 5 : InRange(i, args[i])
         /\ args[6] \in 0 .. 60
         /\ Keep(args)

\* The bytes after a setter; only those of its field change.
WithField(i, v) ==
  LET fields == Bytes7([Defaults EXCEPT ![i] = v])
  IN  IF i = 1 THEN [date EXCEPT ![1] = fields[1], ![2] = fields[2]]
               ELSE [date EXCEPT ![i + 1] = fields[i + 1]]

\* ora_date_set_year ... ora_date_set_second
SetField(i, v) ==
  IF ~InRange(i, v) THEN Refuse
  ELSE /\ date' = WithField(i, v) /\ given' = [given EXCEPT ![i] = v]
       /\ dateRaised' = FALSE
       /\ UNCHANGED <<bound, boundGiven>>

\* ora_date_trunc
Trunc ==
  /\ date' = [date EXCEPT ![5] = 1, ![6] = 1, ![7] = 1]
  /\ given' = [given EXCEPT ![4] = 0, ![5] = 0, ![6] = 0]
  /\ dateRaised' = FALSE
  /\ UNCHANGED <<bound, boundGiven>>

\* Marshal: the bytes are the dump, which is taken back if it has their length.
Dump(d) == d
Load(s) == IF Len(s) # 7 THEN <<>> ELSE s

LoadDumped ==
  /\ date' = Load(Dump(date))
  /\ dateRaised' = FALSE
  /\ UNCHANGED <<bound, given, boundGiven>>

\* bind_oradate_set, bind_oradate_get
BindSet ==
  /\ bound' = date /\ boundGiven' = given
  /\ dateRaised' = FALSE
  /\ UNCHANGED <<date, given>>

BindGet ==
  /\ date' = bound /\ given' = boundGiven
  /\ dateRaised' = FALSE
  /\ UNCHANGED <<bound, boundGiven>>

OraDateNext ==
  \/ \E args \in Arguments : InitializeDate(args)
  \/ Now \/ Trunc \/ LoadDumped \/ BindSet \/ BindGet
  \/ \E i \in 1 .. 6 : \E v \in FieldValues[i] : SetField(i, v)

OraDateSpec == OraDateInit /\ [][OraDateNext]_oraDateVars

-----------------------------------------------------------------------------
\* ora_date_cmp: the first byte that differs decides.
CompareDates(d, e) ==
  LET Differ == {i \in 1 .. 7 : d[i] # e[i]}
      first == CHOOSE i \in Differ : \A j \in Differ : i <= j
  IN  IF Differ = {} THEN 0 ELSE IF d[first] < e[first] THEN -1 ELSE 1

\* ora_date_hash
HashDate(d) ==
  d[1] * 2 ^ 8 + d[2] * 2 ^ 15 + d[3] * 2 ^ 22 + d[4] * 2 ^ 26
    + d[5] * 2 ^ 12 + d[6] * 2 ^ 6 + d[7]

Earlier(f, g) ==
  \E i \in 1 .. 6 : f[i] < g[i] /\ \A j \in 1 .. i - 1 : f[j] = g[j]

\* A date has the fields that the program gave it, whatever was refused and
\* through binds and Marshal; two dates compare as their fields do, also before
\* the year 0, where both bytes of the year fall; and what compares equal has
\* one hash (oradate.c).
DatesInOrder ==
  /\ ToArray(date) = given
  /\ ToArray(bound) = boundGiven
  /\ LET order == CompareDates(date, bound)
     IN  /\ (order = -1) = Earlier(given, boundGiven)
         /\ (order = 1) = Earlier(boundGiven, given)
         /\ order = 0 => HashDate(date) = HashDate(bound)
===============================================================================
