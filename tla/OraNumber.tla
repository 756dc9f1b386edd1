------------------------------- MODULE OraNumber -------------------------------
(***************************************************************************)
(* Class OraNumber and OCI8::Math (ocinumber.c): how numbers of Ruby's     *)
(* classes become NUMBERs, and what the operators make of them.            *)
(*                                                                         *)
(* A value is a fraction <<p, q>> in lowest terms.  OCI's own arithmetic   *)
(* is external: it rounds to the figures that a NUMBER holds.              *)
(***************************************************************************)
EXTENDS NumberText

CONSTANTS
  FloatFigures,   \* decimal figures that tell Floats apart (17)
  OraNumbers,     \* values of OraNumber objects
  Operands        \* objects they meet: records of a class and a value

VARIABLES
  left,           \* an OraNumber's value
  right,          \* the other operand
  answer          \* what the last method returned or raised

oraNumberVars == <<left, right, answer>>

-----------------------------------------------------------------------------
\* Fractions

Gcd[a \in Nat, b \in Nat] == IF b = 0 THEN a ELSE Gcd[b, a % b]
Magnitude(i) == IF i < 0 THEN -i ELSE i

Reduced(p, q, g) == IF q < 0 THEN <<-(p \div g), -(q \div g)>> ELSE <<p \div g, q \div g>>
Fraction(p, q) == Reduced(p, q, Gcd[Magnitude(p), Magnitude(q)])

Minus(v) == <<-v[1], v[2]>>
Plus(v, w) == Fraction(v[1] * w[2] + w[1] * v[2], v[2] * w[2])
Product(v, w) == Fraction(v[1] * w[1], v[2] * w[2])
Times(v, w) == Product(Fraction(v[1], w[2]), Fraction(w[1], v[2]))
Over(v, w) == Times(v, Fraction(w[2], w[1]))
Sign(v) == IF v[1] > 0 THEN 1 ELSE IF v[1] = 0 THEN 0 ELSE -1
Whole(i) == <<i, 1>>
IsWhole(v) == v[2] = 1
FloorOf(v) == v[1] \div v[2]
CeilingOf(v) == -((-v[1]) \div v[2])
TowardsZero(v) == IF v[1] < 0 THEN CeilingOf(v) ELSE FloorOf(v)
PowerOfTen(k) == IF k >= 0 THEN <<10 ^ k, 1>> ELSE <<1, 10 ^ (-k)>>

\* The exponent of the first decimal figure of v # 0
FirstExponent(v) ==
  LET p == Magnitude(v[1])
  IN  IF p >= v[2] THEN NumberOfFigures(p \div v[2]) - 1
      ELSE -NumberOfFigures((v[2] + p - 1) \div p - 1)

\* The multiple of 10^unit nearest to v, half away from zero
NearestWhole(v) == (2 * v[1] + v[2]) \div (2 * v[2])
NearestMultiple(v, unit) ==
  Times(Whole(Sign(v) * NearestWhole(Times(<<Magnitude(v[1]), v[2]>>, PowerOfTen(-unit)))),
        PowerOfTen(unit))

-----------------------------------------------------------------------------
\* Answers: <<class, value>>, or the name of an exception

Number(v) == <<"OraNumber", v>>
Overflow == <<"OCIError">>
ZeroDivision == <<"ZeroDivisionError">>
WrongType == <<"TypeError">>
OutOfRange == <<"RangeError">>
DomainError == <<"Errno::EDOM">>
StackError == <<"SystemStackError">>
Raised(a) == Len(a) = 1

\* What OCI makes of an exact result: the nearest NUMBER, or an overflow
Limited(v) ==
  IF FirstExponent(v) > MaxExponent THEN Overflow
  ELSE IF FirstExponent(v) < MinExponent THEN Number(Whole(0))
  ELSE Number(v)

Stored(v) ==
  IF v[1] = 0 \/ FirstExponent(v) < MinExponent - 1 THEN Number(Whole(0))
  ELSE IF FirstExponent(v) > MaxExponent THEN Overflow
  ELSE Limited(NearestMultiple(v, 2 * (FirstExponent(v) \div 2) + 2 - Figures))

\* the Float nearest to v
AsFloat(v) ==
  IF v[1] = 0 THEN v ELSE NearestMultiple(v, FirstExponent(v) + 1 - FloatFigures)

\* Goes on with the value of an answer, or raises what it raises.
After(a, Do(_)) == IF Raised(a) THEN a ELSE Do(a[2])

-----------------------------------------------------------------------------
\* Conversions to NUMBER

\* BigDecimal#split: the value is 0.digits * 10^exponent.
SplitExponent(v) == IF v[1] = 0 THEN 0 ELSE FirstExponent(v) + 1
SplitDigits(v) ==
  LET scale == CHOOSE k \in 0 .. 9 : /\ (10 ^ k) % v[2] = 0
                                     /\ \A j \in 0 .. k - 1 : (10 ^ j) % v[2] # 0
      figures == Times(v, PowerOfTen(scale))[1]
      zeros == CHOOSE k \in 0 .. 9 : /\ figures % (10 ^ k) = 0
                                     /\ figures % (10 ^ (k + 1)) # 0
  IN  IF v[1] = 0 THEN 0 ELSE Magnitude(figures) \div 10 ^ zeros

\* Mutant: the exponent counts from the end of the digits.
DecimalFromTheEnd(v) ==
  LET Shift(d) == Stored(Times(d, PowerOfTen(SplitExponent(v))))
  IN  After(After(Stored(Whole(SplitDigits(v))), Shift),
            LAMBDA d : Number(IF Sign(v) < 0 THEN Minus(d) ELSE d))

\* The digits become a NUMBER as an integer, which is shifted and gets its sign.
FromBigDecimal(v) ==
  LET length == IF v[1] = 0 THEN 1 ELSE NumberOfFigures(SplitDigits(v))
      Shift(d) == Stored(Times(d, PowerOfTen(SplitExponent(v) - length)))
  IN  After(After(Stored(Whole(SplitDigits(v))), Shift),
            LAMBDA d : Number(IF Sign(v) < 0 THEN Minus(d) ELSE d))

\* Numerator and denominator become NUMBERs, and OCI divides them.
FromRational(v) ==
  After(Stored(Whole(v[1])),
        LAMBDA n : After(Stored(Whole(v[2])), LAMBDA d : Stored(Over(n, d))))

\* oci8_dbl_to_onum and set_oci_number_from_str: the text of a Float, or a String
\* without a format, is read by oranumber_from_str.
FromFloat(v) == Stored(v)
FromString(v) == Stored(v)

NoNumber == <<"no number">>

\* set_oci_number_from_num.  The numerator of a Complex is a Complex, whose
\* numerator is taken, and so on.  A Numeric without numerator ("other") is read
\* as a text if force is set, which fails as it is not a String.
FromNumeric(x, force) ==
  IF x.class \in {"String", "NaN"} THEN WrongType
  ELSE IF x.class = "OraNumber" THEN Number(x.value)
  ELSE IF x.class = "Integer" THEN Stored(x.value)
  ELSE IF x.class = "Float" THEN FromFloat(x.value)
  ELSE IF x.class = "BigDecimal" THEN FromBigDecimal(x.value)
  ELSE IF x.class = "Rational" THEN FromRational(x.value)
  ELSE IF x.class = "Complex" THEN StackError
  ELSE IF force THEN WrongType ELSE NoNumber

\* onum_initialize
Initialize(x) == IF x.class = "String" THEN FromString(x.value) ELSE FromNumeric(x, TRUE)

-----------------------------------------------------------------------------
\* Conversions from NUMBER

\* oci8_make_integer: the text is used if a long cannot hold the value; what is
\* behind its point is lost in either way.
ToInteger(v) == <<"Integer", Whole(TowardsZero(v))>>

\* onum_to_r multiplies by ten until nothing is left behind the point.
ToRational(v) ==
  LET shift == CHOOSE k \in 0 .. 9 : /\ IsWhole(Times(v, PowerOfTen(k)))
                                     /\ \A j \in 0 .. k - 1 : ~IsWhole(Times(v, PowerOfTen(j)))
      whole == ToInteger(Times(v, PowerOfTen(shift)))[2][1]
  IN  <<"Rational", Fraction(whole, 10 ^ shift)>>

\* oci8_onum_to_dbl
ToFloat(v) == <<"Float", AsFloat(v)>>

\* onum_to_d_real: the format prints 39 figures of the 40.
ToBigDecimal(v) ==
  <<"BigDecimal", IF v[1] = 0 THEN v
                  ELSE NearestMultiple(v, FirstExponent(v) + 1 - (Figures - 1))>>

\* What the classes Complex and, of NaN, Float of Ruby compute
SomeComplex == <<"Complex", <<>>>>
NotFinite == <<"Float", <<"not finite">>>>

\* onum_coerce: what Ruby computes with when the OraNumber is on the right
Coerce(v, x) ==
  CASE x.class = "Integer" -> <<FromNumeric(x, FALSE), Number(v)>>
    [] x.class = "Float" -> <<<<x.class, x.value>>, ToFloat(v)>>
    [] x.class = "Rational" -> <<<<x.class, x.value>>, ToRational(v)>>
    [] x.class = "BigDecimal" -> <<<<x.class, x.value>>, ToBigDecimal(v)>>
    [] OTHER -> <<WrongType, WrongType>>

-----------------------------------------------------------------------------
\* Operators

Exactly(op, v, w) ==
  CASE op = "+" -> Plus(v, w)
    [] op = "-" -> Plus(v, Minus(w))
    [] op = "*" -> Times(v, w)
    [] op = "/" -> Over(v, w)

\* What Ruby's own classes and OCI do with two numbers of one class
Compute(op, class, v, w) ==
  IF op = "/" /\ w[1] = 0
  THEN IF class = "Float" THEN NotFinite ELSE ZeroDivision
  ELSE CASE class = "OraNumber" -> Stored(Exactly(op, v, w))
         [] class = "Float" -> <<class, AsFloat(Exactly(op, v, w))>>
         [] OTHER -> <<class, Exactly(op, v, w)>>

\* onum_add, onum_sub, onum_mul, onum_div: OraNumber op x.  Others are asked to
\* coerce; Complex can.
Add(v, x, op) ==
  CASE x.class \in {"Integer", "OraNumber"} ->
         After(FromNumeric(x, FALSE), LAMBDA w : Compute(op, "OraNumber", v, w))
    [] x.class = "Float" -> Compute(op, "Float", ToFloat(v)[2], x.value)
    [] x.class = "Rational" -> Compute(op, "Rational", ToRational(v)[2], x.value)
    [] x.class = "BigDecimal" -> Compute(op, "BigDecimal", ToBigDecimal(v)[2], x.value)
    [] x.class = "NaN" -> NotFinite
    [] x.class = "Complex" -> SomeComplex
    [] OTHER -> WrongType

Subtract(v, x) == Add(v, x, "-")
Multiply(v, x) == Add(v, x, "*")
Divide(v, x) == IF x.class = "Integer" /\ x.value[1] = 0 THEN ZeroDivision
                                                         ELSE Add(v, x, "/")

Operator(op, v, x) ==
  CASE op = "+" -> Add(v, x, op)
    [] op = "-" -> Subtract(v, x)
    [] op = "*" -> Multiply(v, x)
    [] op = "/" -> Divide(v, x)

\* x op OraNumber: Ruby asks the OraNumber to coerce, but for a Complex, which
\* takes any real Numeric as its real part.
OfPair(op, pair) ==
  IF Raised(pair[1]) THEN pair[1] ELSE Compute(op, pair[1][1], pair[1][2], pair[2][2])

Mirrored(op, x, v) ==
  IF x.class = "OraNumber" THEN Operator(op, x.value, [class |-> "OraNumber", value |-> v])
  ELSE IF x.class = "NaN" THEN NotFinite
  ELSE IF x.class = "Complex" THEN SomeComplex
  ELSE OfPair(op, Coerce(v, x))

\* onum_mod and onum_power; others are asked to coerce, which fails.
Modulo(v, x) ==
  LET n == FromNumeric(x, FALSE)
      Rest(w) == IF w[1] = 0 THEN ZeroDivision
                 ELSE Stored(Plus(v, Minus(Times(Whole(TowardsZero(Over(v, w))), w))))
  IN  IF n = NoNumber THEN WrongType ELSE After(n, Rest)

\* What OCI computes, and the model does not
SomeNumber == <<"OraNumber", <<>>>>

Power(v, x) ==
  LET n == FromNumeric(x, FALSE)
      Raise(w) == CASE w = Whole(0) -> Number(Whole(1))
                    [] w = Whole(1) -> Number(v)
                    [] OTHER -> SomeNumber
  IN  IF n = NoNumber THEN WrongType ELSE After(n, Raise)

\* onum_cmp
Compare(v, x) ==
  LET n == FromNumeric(x, FALSE)
  IN  IF n = NoNumber THEN WrongType
      ELSE After(n, LAMBDA w : <<"Integer", Whole(Sign(Plus(v, Minus(w))))>>)

\* Methods of one number
Floor(v) == ToInteger(Whole(FloorOf(v)))
Ceil(v) == ToInteger(Whole(CeilingOf(v)))
Round(v, places) ==
  IF places = 0 THEN ToInteger(NearestMultiple(v, 0)) ELSE Number(NearestMultiple(v, -places))
Truncate(v) == Number(Whole(TowardsZero(v)))
RoundPrec(v, digits) ==
  IF v[1] = 0 THEN Number(v) ELSE Stored(NearestMultiple(v, FirstExponent(v) + 1 - digits))
Shift10(v, k) == Stored(Times(v, PowerOfTen(k)))
HasFractionalPart(v) == <<"Boolean", ~IsWhole(v)>>
IsZero(v) == <<"Boolean", v[1] = 0>>
Abs(v) == Number(<<Magnitude(v[1]), v[2]>>)

Negative(v) == Number(Minus(v))

\* OCI8::Math.  What the functions compute is OCI's; some refuse what is outside
\* their domain.
Circular == {"cos", "sin", "tan"}
Hyperbolic == {"atan", "cosh", "sinh", "tanh", "exp"}
Arcs == {"acos", "asin"}

ArcDefined(v) == v[1] <= v[2] /\ -v[2] <= v[1]
LogDefined(v) == Sign(v) > 0
SquareRootDefined(v) == Sign(v) >= 0

Atan2(y, x) ==
  CASE x[1] = 0 /\ y[1] = 0 -> <<"Integer", Whole(0)>>
    [] x[1] = 0 /\ y[1] # 0 -> <<"OraNumber", IF y[1] > 0 THEN <<"PI/2">> ELSE <<"-PI/2">> >>
    [] OTHER -> SomeNumber

Math(f, x) ==
  After(FromNumeric(x, TRUE),
        LAMBDA v : CASE f \in Arcs /\ ~ArcDefined(v) -> OutOfRange
                     [] f = "log10" /\ ~LogDefined(v) -> OutOfRange
                     [] f = "sqrt" /\ ~SquareRootDefined(v) -> DomainError
                     [] OTHER -> SomeNumber)

\* omath_log, with a base and without
Log(x) ==
  After(FromNumeric(x, TRUE), LAMBDA v : IF LogDefined(v) THEN SomeNumber ELSE OutOfRange)

LogBase(v, x) ==
  IF ~LogDefined(v) THEN OutOfRange
  ELSE After(FromNumeric(x, TRUE),
             LAMBDA b : IF ~LogDefined(b) \/ b = Whole(1) THEN OutOfRange ELSE SomeNumber)

\* A bind variable of one of the classes is assigned x and read.
Bound(class, x) ==
  After(FromNumeric(x, TRUE),
        LAMBDA v : CASE class = "OraNumber" -> Number(v)
                     [] class = "Integer" -> ToInteger(Whole(TowardsZero(v)))
                     [] class = "Float" -> ToFloat(v))

-----------------------------------------------------------------------------
Operators == {"+", "-", "*", "/"}

NotAsked == <<"none">>

OraNumberInit(numbers, operands) ==
  left \in numbers /\ right \in operands /\ answer = NotAsked

Return(a) == answer' = a /\ UNCHANGED <<left, right>>

Arithmetic ==
  \E op \in Operators :
    \/ Return(Operator(op, left, right))
    \/ right.class # "String" /\ Return(Mirrored(op, right, left))

OtherOperators ==
  \/ Return(Compare(left, right))
  \/ Return(Modulo(left, right))
  \/ Return(Power(left, right))
  \/ right.class = "OraNumber" /\ Return(Atan2(left, right.value))
  \/ Return(LogBase(left, right))

Conversions ==
  \/ Return(ToInteger(left)) \/ Return(ToRational(left))
  \/ Return(ToFloat(left)) \/ Return(ToBigDecimal(left))
  \/ Return(Floor(left)) \/ Return(Ceil(left)) \/ Return(Truncate(left))
  \/ \E n \in 0 .. 2 : Return(Round(left, n)) \/ Return(RoundPrec(left, n + 1))
                       \/ Return(Shift10(left, n))
  \/ Return(HasFractionalPart(left)) \/ Return(IsZero(left))
  \/ Return(Abs(left)) \/ Return(Negative(left))

\* An object becomes an OraNumber, and the next one to compute with.
Convert ==
  /\ answer' = Initialize(right)
  /\ left' = IF Raised(answer') THEN left ELSE answer'[2]
  /\ UNCHANGED right

Functions1 ==
  \/ \E f \in Circular \union Hyperbolic \union Arcs \union {"log10", "sqrt"} : Return(Math(f, right))
  \/ Return(Log(right))

BindVariable == \E class \in {"OraNumber", "Integer", "Float"} : Return(Bound(class, right))

OraNumberNext == Arithmetic \/ OtherOperators \/ Conversions \/ Convert \/ Functions1 \/ BindVariable

-----------------------------------------------------------------------------
\* Properties

\* The parts of a number that are converted apart are not too long for a NUMBER:
\* the digits of a BigDecimal, numerator and denominator of a Rational.
PartsFit(x) ==
  CASE x.class = "BigDecimal" -> Stored(Whole(SplitDigits(x.value))) # Overflow
    [] x.class = "Rational" -> /\ Stored(Whole(x.value[1])) = Number(Whole(x.value[1]))
                               /\ Stored(Whole(x.value[2])) = Number(Whole(x.value[2]))
    [] OTHER -> TRUE

\* A finite number of any class becomes the NUMBER nearest to it, and is refused
\* only if there is none (set_oci_number_from_num).  BigDecimals and Rationals
\* go through several conversions; it holds when each of their parts fits.
StoresNearest ==
  LET x == right
  IN  x.class \in {"Integer", "Float", "BigDecimal", "Rational"} /\ PartsFit(x) =>
        /\ FromNumeric(x, TRUE) = Stored(x.value)
        /\ \A r \in {ToRational(left), ToBigDecimal(left)} :
             LET y == [class |-> r[1], value |-> r[2]]
             IN  PartsFit(y) => FromNumeric(y, TRUE) = Stored(y.value)

\* left is a value of the class of x as well, and x a NUMBER.
Shared(v, x) ==
  /\ FromNumeric(x, FALSE) = Number(x.value)
  /\ x.class = "Float" => AsFloat(v) = v
  /\ x.class = "BigDecimal" => ToBigDecimal(v)[2] = v

\* Of numbers that both classes can hold, OraNumber op x is what exact
\* arithmetic gives in the class of x, or in OraNumber if x is an Integer; x op
\* OraNumber, which goes through coerce, answers the same with the operands
\* exchanged; and <=> agrees with the sign of the difference.
OperatorsAgree ==
  LET class == IF right.class = "Integer" THEN "OraNumber" ELSE right.class
  IN  right.class \in {"Integer", "Float", "BigDecimal", "Rational", "OraNumber"}
      /\ Shared(left, right) =>
        /\ \A op \in Operators :
             /\ Operator(op, left, right) = Compute(op, class, left, right.value)
             /\ Mirrored(op, right, left) = Compute(op, class, right.value, left)
        /\ Compare(left, right) =
             <<"Integer", Whole(Sign(Plus(left, Minus(right.value))))>>

\* Numbers of Ruby's classes and OraNumbers are the same numbers, to as many
\* figures as a NUMBER has, when they are stored and when they are reckoned with.
\* For <=> that is what onum_cmp returns and what its comment says ("less than,
\* equal to, or greater than"); the example in that comment, OraNumber(2) <=> 2.5
\* # => 1 (ocinumber.c:1110), contradicts both.
\* (It is about numbers that some method was called for: each pair is one.)
NumbersAgree == answer # NotAsked => StoresNearest /\ OperatorsAgree
===============================================================================
