-------------------------------- MODULE MCClient --------------------------------
EXTENDS Client, TLC

CONSTANTS sa, sb, short, long

MCMinExponent == -2
MCSessionOffset == -300

\* Up to six digits in two parts, one or two more than the NUMBER of four
\* figures holds, around both ends of the exponents
MCDecimals ==
  [negative : BOOLEAN, whole : BoundedSeq({0, 5, 9}, 3), part : BoundedSeq({0, 5, 9}, 3),
   exponent : {-6, -5, -3, -1, 0, 2, 4}]

MCOraNumbers ==
  {<<0, 1>>, <<1, 1>>, <<-3, 2>>, <<3333, 10000>>, <<617, 50>>, <<9999, 1>>, <<1, 50>>, <<1234, 1>>}

MCOperands ==
  [class : {"Integer"},
   value : {<<0, 1>>, <<1, 1>>, <<-7, 1>>, <<12, 1>>, <<10001, 1>>, <<1234, 1>>}]
  \union [class : {"Float"}, value : {<<0, 1>>, <<1, 2>>, <<-5, 2>>, <<90000, 1>>, <<1, 1000>>}]
  \union [class : {"Rational"}, value : {<<0, 1>>, <<1, 3>>, <<-7, 8>>, <<10007, 7>>}]
  \union [class : {"BigDecimal"},
          value : {<<0, 1>>, <<-3, 2>>, <<12345, 10000>>, <<1, 100>>, <<120, 1>>}]
  \union [class : {"OraNumber"}, value : {<<0, 1>>, <<-3, 2>>, <<1, 1>>}]
  \union [class : {"String", "NaN", "Complex", "other"}, value : {<<5, 1>>}]

MCArguments ==
  {<<>>, <<-101>>, <<-4713>>, <<100, 13>>, <<-1, 12, 31>>, <<0, 1, 32>>,
   <<1999, 12, 31, 23, 59, 0>>, <<2016, 12, 31, 23, 59, 60>>}

MCFieldValues ==
  <<{-4713, -100, -99, -1, 99, 10000}, {0, 12, 13}, {0, 31}, {23, 24}, {-1, 59, 60}, {60}>>

MCFields ==
  {<<2005, 12, 31, 23, 59, 59>>, <<-4712, 1, 1, 0, 0, 0>>, <<2016, 12, 31, 23, 59, 60>>}

MCMoments ==
  [class : {"Time", "DateTime"}, fields : MCFields, nsec : {7},
   offset : {0, 30600, -30600, -1800, -18030}]
  \union [class : {"Date"}, fields : MCFields, nsec : {0}, offset : {0}]

MCMonths == {-25, -13, -12, -1, 0, 1, 11, 12, 13}

MCDurations ==
  {s * x : s \in {-1, 1},
           x \in {0, 1, 19, 1199, 1200, 71999, 72000, 1727999, 1728000, 1800021}}

\* Both sides of each limit of the four widths of 1, 2, 4 and 8 bits
MCAttrIntegers ==
  {-257, -129, -128, -17, -9, -8, -3, -2, -1, 0, 1, 2, 3, 4, 7, 8, 15, 16, 17,
   127, 128, 255, 256}

\* A path is a collection of points, a grid one of paths; a line holds a point,
\* a grid and a number; odd uses a line and then a reference, which is not supported.
MCTypeNames == {"point", "path", "grid", "line", "odd"}
MCSchema == [t \in MCTypeNames |->
  CASE t = "point" -> [collection |-> FALSE, of |-> <<"number", "double">>]
    [] t = "path" -> [collection |-> TRUE, of |-> <<"point">>]
    [] t = "grid" -> [collection |-> TRUE, of |-> <<"path">>]
    [] t = "line" -> [collection |-> FALSE, of |-> <<"point", "grid", "float">>]
    [] t = "odd" -> [collection |-> FALSE, of |-> <<"float", "line", "ref">>]]

MCScalars == [s \in {"number", "double", "float"} |->
  CASE s = "number" -> [size |-> 22, alignment |-> 1]
    [] s = "double" -> [size |-> 8, alignment |-> 8]
    [] s = "float" -> [size |-> 4, alignment |-> 4]]

\* To a line: a point, a grid and a scalar
MCAssignments ==
  {Nil, Refused,
   <<Nil, <<>>, sb>>,
   <<<<sa, Nil>>, <<<<<<sa, sb>>>>, <<>>, <<<<sb, sb>>, Nil>>>>, Nil>>,
   <<<<sb, sb>>, <<<<<<Nil, sb>>, Nil, <<sa, sb>>>>>>, sa>>,
   <<<<sb, Refused>>, Nil, sa>>,
   <<<<sb, sa>>, <<<<<<sb, sa>>>>, <<<<sa, sa>>, <<sa, Refused>>>>>>, Nil>>,
   <<<<sa, sb>>, <<<<>>>>, Refused>>}

\* Words of up to three characters, each of one to three bytes
MCWords ==
  {w \in [text : {sa, sb}, chars : 0 .. 3, bytes : 0 .. 9] :
     /\ w.chars <= w.bytes /\ w.bytes <= 3 * w.chars
     /\ w.text = sb => w.bytes = w.chars}
MCEmptyWord == [text |-> sa, chars |-> 0, bytes |-> 0]

\* The second message needs the buffer to grow twice.
MCTextLength == short :> 3 @@ long :> 9

MCSettingValues == {"nil", "false", "byte", "ruby", "oracle", "negative", "positive", "huge"}
===============================================================================
