------------------------------ MODULE NumberText ------------------------------
(***************************************************************************)
(* Conversion between decimal texts and the bytes of an Oracle NUMBER      *)
(* (oranumber_util.c).                                                     *)
(*                                                                         *)
(* A NUMBER is its significant bytes OCINumberPart[1 ..]: one for sign and *)
(* exponent to the base of 100, then the digits to that base.  A text is   *)
(* what the scanner makes of its characters: a sign, the digits before and *)
(* behind the decimal point, and the exponent behind an E.                 *)
(***************************************************************************)
EXTENDS Integers, SequencesExt

CONSTANTS
  Figures,        \* decimal figures a NUMBER holds (40)
  MinExponent,    \* of the smallest and of the largest number (-130, 125)
  MaxExponent,
  Decimals        \* texts of the program, [negative, whole, part, exponent]

ASSUME FiguresAssumption ==
  /\ Figures \in Nat \ {0} /\ Figures % 2 = 0
  /\ MinExponent \in Int /\ MaxExponent \in Int /\ MinExponent < MaxExponent
  /\ MinExponent >= -130 /\ MaxExponent % 2 = 1

ASSUME DecimalsAssumption ==
  \A d \in Decimals : /\ d.negative \in BOOLEAN /\ d.exponent \in Int
                      /\ d.whole \in Seq(0 .. 9) /\ d.part \in Seq(0 .. 9)

VARIABLES
  text,           \* the text that was given, or printed last
  number          \* the bytes it was converted to, or an error

numberTextVars == <<text, number>>

\* Sequences that are no bytes: before the conversion, and error codes
NotConverted == <<>>
InvalidNumber == <<1722>>
NumericOverflow == <<1426>>

Zero == <<128>>
Infinity == <<255, 101>>
MinusInfinity == <<0>>

-----------------------------------------------------------------------------
\* Text to NUMBER

\* s without the zeros at its start, and without those at its end
WithoutLeadingZeros(s) ==
  LET Kept == {i \in DOMAIN s : \E j \in 1 .. i : s[j] # 0}
  IN  SubSeq(s, Len(s) - Cardinality(Kept) + 1, Len(s))

WithoutTrailingZeros(s) == Reverse(WithoutLeadingZeros(Reverse(s)))

\* The digits that count: with nothing before the point, zeros behind it move
\* the point and are no digits.
ScannedWhole(t) == WithoutLeadingZeros(t.whole)

ScannedPart(t) ==
  IF ScannedWhole(t) = <<>> THEN WithoutLeadingZeros(t.part) ELSE t.part

\* dec_point
DecimalPoint(t) ==
  IF ScannedWhole(t) = <<>> THEN Len(ScannedPart(t)) - Len(t.part)
                            ELSE Len(ScannedWhole(t))

\* The exponent of the first digit; a pair starts at an odd exponent.
LeadingExponent(t) == t.exponent + DecimalPoint(t) - 1

Aligned(t) ==
  LET digits == ScannedWhole(t) \o ScannedPart(t)
  IN  IF LeadingExponent(t) % 2 = 0 THEN <<0>> \o digits ELSE digits

\* Rounded half up at the last figure.  Digits that are all 9 become 01, one
\* pair higher: the second component.
Rounded(s) ==
  LET kept == SubSeq(s, 1, Figures)
      notNine == {i \in DOMAIN kept : kept[i] # 9}
      last == CHOOSE i \in notNine : \A j \in notNine : j <= i
  IN  IF Len(s) <= Figures THEN <<s, 0>>
      ELSE IF s[Figures + 1] < 5 THEN <<kept, 0>>
      ELSE IF notNine = {} THEN <<<<0, 1>>, 1>>
      ELSE <<[i \in DOMAIN kept |-> IF i < last THEN kept[i]
                                    ELSE IF i = last THEN kept[i] + 1 ELSE 0], 0>>

\* Two figures make a digit to the base of 100.
Paired(s) ==
  LET even == IF Len(s) % 2 = 1 THEN Append(s, 0) ELSE s
  IN  [i \in 1 .. Len(even) \div 2 |-> even[2 * i - 1] * 10 + even[2 * i]]

\* The bytes; a negative number that is not full ends with 102.
Encoded(negative, exponent, cells) ==
  IF negative
  THEN <<62 - exponent>> \o [i \in DOMAIN cells |-> 101 - cells[i]]
                         \o (IF Len(cells) < Figures \div 2 THEN <<102>> ELSE <<>>)
  ELSE <<193 + exponent>> \o [i \in DOMAIN cells |-> cells[i] + 1]

\* Mutant: the limits are those of the exponent before rounding.
FromDecimalUnrounded(t) ==
  LET rounded == Rounded(Aligned(t))
      figures == WithoutTrailingZeros(rounded[1])
      exponent == LeadingExponent(t) + rounded[2]
  IN  IF figures = <<>> \/ LeadingExponent(t) < MinExponent THEN Zero
      ELSE IF LeadingExponent(t) > MaxExponent THEN NumericOverflow
      ELSE Encoded(t.negative, exponent \div 2, Paired(figures))

FromDecimal(t) ==
  LET rounded == Rounded(Aligned(t))
      figures == WithoutTrailingZeros(rounded[1])
      exponent == LeadingExponent(t) + rounded[2]
  IN  IF figures = <<>> \/ exponent < MinExponent THEN Zero
      ELSE IF exponent > MaxExponent THEN NumericOverflow
      ELSE Encoded(t.negative, exponent \div 2, Paired(figures))

\* oranumber_from_str
FromText(t) ==
  IF t.kind = "infinity" THEN IF t.negative THEN MinusInfinity ELSE Infinity
  ELSE IF t.kind = "malformed" THEN InvalidNumber
  ELSE FromDecimal(t)

-----------------------------------------------------------------------------
\* NUMBER to text

IsNegative(n) == n[1] < 128

Exponent100(n) == IF IsNegative(n) THEN 62 - n[1] ELSE n[1] - 193

\* The digits to the base of 100, up to the 102 of a negative number
Cells(n) ==
  LET cells == [i \in 1 .. Len(n) - 1 |-> IF IsNegative(n) THEN 101 - n[i + 1] ELSE n[i + 1] - 1]
  IN  IF IsNegative(n) /\ Last(n) = 102 THEN Front(cells) ELSE cells

Zeros(k) == [i \in 1 .. k |-> 0]

Figure(cells) ==
  [i \in 1 .. 2 * Len(cells) |-> IF i % 2 = 1 THEN cells[(i + 1) \div 2] \div 10
                                              ELSE cells[i \div 2] % 10]

\* Mutant: no zeros where the number has no digits.
PrintedWholeUnpadded(n) ==
  LET count == 2 * (Exponent100(n) + 1)
      digits == Figure(Cells(n))
      all == SubSeq(digits, 1, IF count < Len(digits) THEN count ELSE Len(digits))
  IN  IF count <= 0 THEN <<0>> ELSE IF all[1] = 0 THEN Tail(all) ELSE all

\* Before the point: exponent + 1 digits to the base of 100, with zeros where
\* the number has none.
PrintedWhole(n) ==
  LET count == 2 * (Exponent100(n) + 1)
      digits == Figure(Cells(n))
      all == [i \in 1 .. count |-> IF i <= Len(digits) THEN digits[i] ELSE 0]
  IN  IF count <= 0 THEN <<0>> ELSE IF all[1] = 0 THEN Tail(all) ELSE all

\* Behind it: the other ones, without the zero of the last pair
PrintedPart(n) ==
  LET count == 2 * (Exponent100(n) + 1)
      digits == IF count < 0 THEN Zeros(-count) \o Figure(Cells(n))
                             ELSE SubSeq(Figure(Cells(n)), count + 1, 2 * Len(Cells(n)))
  IN  IF digits # <<>> /\ Last(digits) = 0 THEN Front(digits) ELSE digits

\* oranumber_to_str
ToText(n) ==
  IF n = Infinity THEN [kind |-> "infinity", negative |-> FALSE]
  ELSE IF n = MinusInfinity THEN [kind |-> "infinity", negative |-> TRUE]
  ELSE IF n = Zero THEN [kind |-> "decimal", negative |-> FALSE, whole |-> <<0>>,
                         part |-> <<>>, exponent |-> 0]
  ELSE [kind |-> "decimal", negative |-> IsNegative(n), whole |-> PrintedWhole(n),
        part |-> PrintedPart(n), exponent |-> 0]

\* onum__dump and onum_s_load: the bytes with their number in front
Marshalled(n) == <<Len(n)>> \o n
Unmarshal(s) ==
  IF s = <<>> \/ Len(s) # s[1] + 1 \/ Len(s) > 2 + Figures \div 2 THEN NotConverted ELSE Tail(s)

-----------------------------------------------------------------------------
Texts ==
  {[kind |-> "decimal", negative |-> d.negative, whole |-> d.whole,
    part |-> d.part, exponent |-> d.exponent] : d \in Decimals}
  \union [kind : {"infinity"}, negative : BOOLEAN]
  \union [kind : {"malformed"}]

NumberTextInit(texts) == text \in texts /\ number = NotConverted

Read ==
  /\ number = NotConverted
  /\ number' = FromText(text)
  /\ UNCHANGED text

Write ==
  /\ number \notin {NotConverted, InvalidNumber, NumericOverflow}
  /\ text' = ToText(number)
  /\ UNCHANGED number

MarshalAndLoad ==
  /\ number \notin {NotConverted, InvalidNumber, NumericOverflow}
  /\ number' = Unmarshal(Marshalled(number))
  /\ UNCHANGED text

NumberTextNext == Read \/ Write \/ MarshalAndLoad

-----------------------------------------------------------------------------
\* Properties

\* The value of digits as an integer
Decimal(s) == FoldLeft(LAMBDA a, d : 10 * a + d, 0, s)

NumberOfFigures(v) == CHOOSE k \in 1 .. 10 : v \div 10 ^ (k - 1) \in 1 .. 9

\* t is value * 10^scale; a NUMBER near it is a multiple of 10^Unit, and the
\* nearest one (half away from zero) is Multiple of them.
Value(t) == Decimal(t.whole \o t.part)
Scale(t) == t.exponent - Len(t.part)
Unit(t) == 2 * ((Scale(t) + NumberOfFigures(Value(t)) - 1) \div 2) + 2 - Figures
Multiple(t) ==
  LET rest == Unit(t) - Scale(t)
  IN  IF rest <= 0 THEN Value(t) * 10 ^ (-rest)
      ELSE (2 * Value(t) + 10 ^ rest) \div (2 * 10 ^ rest)

\* the exponent of the first figure of the nearest multiple
NearestExponent(t) == Unit(t) + NumberOfFigures(Multiple(t)) - 1

Denotes(n, t) ==
  LET cells == Cells(n)
      unit == 2 * (Exponent100(n) - Len(cells) + 1)
      value == FoldLeft(LAMBDA a, c : 100 * a + c, 0, cells)
  IN  /\ IsNegative(n) = t.negative
      /\ unit >= Unit(t)
      /\ value * 10 ^ (unit - Unit(t)) = Multiple(t)

\* A text becomes the NUMBER nearest to it, zero if that is below the smallest
\* number and an overflow if it is above the largest (oranumber_from_str); what
\* oranumber_to_str prints denotes the number exactly.
ReadsNearest ==
  text.kind = "decimal" /\ number # NotConverted =>
    IF Value(text) = 0 \/ NearestExponent(text) < MinExponent THEN number = Zero
    ELSE IF NearestExponent(text) > MaxExponent THEN number = NumericOverflow
    ELSE number \in Seq(0 .. 255) /\ Denotes(number, text)

\* Reading what oranumber_to_str printed gives the same bytes, as does Marshal:
\* onum_hash takes the bytes, so numbers that print alike must be the same ones.
RoundTrip ==
  number \notin {NotConverted, InvalidNumber, NumericOverflow} =>
    FromText(ToText(number)) = number /\ Unmarshal(Marshalled(number)) = number
===============================================================================
