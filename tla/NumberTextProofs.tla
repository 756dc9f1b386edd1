---------------------------- MODULE NumberTextProofs ----------------------------
(***************************************************************************)
(* Proofs about NumberText, for any texts and any number of figures: what  *)
(* oranumber_to_str prints of a NUMBER that oranumber_from_str made is     *)
(* read as the same bytes, and Marshal keeps them.                         *)
(*                                                                         *)
(* Lemmas about digits come first, then what the bytes of a NUMBER say     *)
(* (EncodedFacts), how its digits show in a text and survive alignment,    *)
(* rounding, stripping and pairing (ShownReads), that the printed text     *)
(* shows them (PrintedWithWhole, PrintedWithoutWhole), and which NUMBERs   *)
(* the scanner makes (ConvertedShape).                                     *)
(***************************************************************************)
EXTENDS NumberText, Recursion, SequenceTheorems, FiniteSetTheorems

Digit == 0 .. 9

\* n of them
Digits(n) == [1 .. n -> Digit]

\* A function on 1 .. n is a sequence.
LEMMA IsSequence ==
  ASSUME NEW n \in Nat, NEW S, NEW f \in [1 .. n -> S]
  PROVE  f \in Seq(S) /\ Len(f) = n /\ DOMAIN f = 1 .. n
  OBVIOUS

\* The part of s that starts with its first digit other than 0
LEMMA LeadingZeros ==
  ASSUME NEW n \in Nat, NEW s \in Digits(n), NEW f \in 1 .. n,
         s[f] # 0, \A j \in 1 .. f - 1 : s[j] = 0
  PROVE  WithoutLeadingZeros(s) = [i \in 1 .. n - f + 1 |-> s[i + f - 1]]
<1> DEFINE Kept == {i \in DOMAIN s : \E j \in 1 .. i : s[j] # 0}
<1>1. Len(s) = n /\ DOMAIN s = 1 .. n
  BY IsSequence DEF Digits
<1>2. Kept = f .. n
  <2>1. ASSUME NEW i \in 1 .. n, i >= f PROVE i \in Kept
    <3>1. f \in 1 .. i
      BY <2>1
    <3> QED BY <1>1, <3>1
  <2>2. ASSUME NEW i \in Kept PROVE i \in f .. n
    <3>1. PICK j \in 1 .. i : s[j] # 0
      OBVIOUS
    <3>2. ~(j \in 1 .. f - 1)
      BY <3>1
    <3> QED BY <1>1, <3>1, <3>2
  <2>3. \A i \in f .. n : i \in 1 .. n /\ i >= f
    OBVIOUS
  <2> HIDE DEF Kept
  <2> QED BY <2>1, <2>2, <2>3
<1>3. Cardinality(Kept) = n - f + 1
  <2>1. f \in Int /\ n \in Int /\ f <= n
    OBVIOUS
  <2>2. Cardinality(f .. n) = IF f > n THEN 0 ELSE n - f + 1
    BY <2>1, FS_Interval
  <2> HIDE DEF Kept
  <2> QED BY <1>2, <2>1, <2>2
<1>4. WithoutLeadingZeros(s) = SubSeq(s, n - (n - f + 1) + 1, n)
  <2> HIDE DEF Kept
  <2>1. WithoutLeadingZeros(s) = SubSeq(s, Len(s) - Cardinality(Kept) + 1, Len(s))
    BY DEF WithoutLeadingZeros, Kept
  <2> QED BY <1>1, <1>3, <2>1
<1>5. n - (n - f + 1) + 1 = f
  OBVIOUS
<1> QED BY <1>4, <1>5

\* There is none.
LEMMA OnlyZeros ==
  ASSUME NEW n \in Nat, NEW s \in Digits(n), \A j \in 1 .. n : s[j] = 0
  PROVE  WithoutLeadingZeros(s) = <<>>
<1> DEFINE Kept == {i \in DOMAIN s : \E j \in 1 .. i : s[j] # 0}
<1>1. Len(s) = n /\ DOMAIN s = 1 .. n
  BY IsSequence DEF Digits
<1>2. Kept = {}
  <2> SUFFICES ASSUME NEW i \in Kept PROVE FALSE
    OBVIOUS
  <2>1. PICK j \in 1 .. i : s[j] # 0
    OBVIOUS
  <2>2. j \in 1 .. n
    BY <1>1
  <2> QED BY <2>1, <2>2
<1>3. Cardinality(Kept) = 0
  BY <1>2, FS_EmptySet
<1> HIDE DEF Kept
<1>4. WithoutLeadingZeros(s) = SubSeq(s, Len(s) - Cardinality(Kept) + 1, Len(s))
  BY DEF WithoutLeadingZeros, Kept
<1>5. WithoutLeadingZeros(s) = SubSeq(s, n + 1, n)
  BY <1>1, <1>3, <1>4
<1>6. s \in Seq(Digit)
  BY IsSequence DEF Digits
<1> QED BY <1>1, <1>5, <1>6, SubSeqEmpty

\* One of the two cases
LEMMA FirstDigit ==
  ASSUME NEW n \in Nat, NEW s \in Digits(n), ~(\A j \in 1 .. n : s[j] = 0)
  PROVE  \E f \in 1 .. n : s[f] # 0 /\ \A j \in 1 .. f - 1 : s[j] = 0
<1> DEFINE T == {j \in 1 .. n : s[j] # 0}
<1>1. T \subseteq Nat /\ T # {}
  OBVIOUS
<1>2. PICK f \in T : \A j \in T : f <= j
  <2> HIDE DEF T
  <2> QED BY <1>1, LeastNumber
<1>3. f \in 1 .. n /\ s[f] # 0
  OBVIOUS
<1>4. ASSUME NEW j \in 1 .. f - 1 PROVE s[j] = 0
  <2>1. j \in 1 .. n /\ ~(f <= j)
    BY <1>3
  <2> QED BY <1>2, <2>1
<1> QED BY <1>3, <1>4

\* The same at the end
LEMMA TrailingZeros ==
  ASSUME NEW n \in Nat, NEW s \in Digits(n), NEW l \in 1 .. n,
         s[l] # 0, \A j \in l + 1 .. n : s[j] = 0
  PROVE  WithoutTrailingZeros(s) = [i \in 1 .. l |-> s[i]]
<1> DEFINE r == [i \in 1 .. n |-> s[n - i + 1]]
           f == n - l + 1
           w == [i \in 1 .. n - f + 1 |-> r[i + f - 1]]
<1>1. Reverse(s) = r
  <2>1. Len(s) = n
    BY IsSequence DEF Digits
  <2> QED BY <2>1 DEF Reverse
<1>2. r \in Digits(n)
  BY DEF Digits
<1>3. f \in 1 .. n /\ r[f] # 0
  <2>1. f \in 1 .. n /\ n - f + 1 = l
    OBVIOUS
  <2> QED BY <2>1
<1>4. ASSUME NEW j \in 1 .. f - 1 PROVE r[j] = 0
  <2>1. j \in 1 .. n /\ n - j + 1 \in l + 1 .. n
    OBVIOUS
  <2> QED BY <2>1
<1>5. WithoutLeadingZeros(r) = w
  <2> HIDE DEF r, f
  <2>1. WithoutLeadingZeros(r) = [i \in 1 .. n - f + 1 |-> r[i + f - 1]]
    BY <1>2, <1>3, <1>4, LeadingZeros
  <2> QED BY <2>1
<1>6. n - f + 1 = l /\ \A i \in 1 .. l : w[l - i + 1] = s[i]
  <2>1. n - f + 1 = l
    OBVIOUS
  <2>2. ASSUME NEW i \in 1 .. l PROVE w[l - i + 1] = s[i]
    <3>1. l - i + 1 \in 1 .. l /\ (l - i + 1) + f - 1 \in 1 .. n
          /\ n - ((l - i + 1) + f - 1) + 1 = i
      OBVIOUS
    <3> QED BY <3>1
  <2> QED BY <2>1, <2>2
<1>7. w \in Digits(l)
  <2>1. ASSUME NEW i \in 1 .. l PROVE i + f - 1 \in 1 .. n
    OBVIOUS
  <2> QED BY <1>2, <1>6, <2>1 DEF Digits
<1> HIDE DEF w, r, f
<1>8. Len(w) = l
  BY <1>7, IsSequence DEF Digits
<1>9. Reverse(w) = [i \in 1 .. l |-> s[i]]
  BY <1>6, <1>8 DEF Reverse
<1> QED BY <1>1, <1>5, <1>9 DEF WithoutTrailingZeros

LEMMA OnlyTrailingZeros ==
  ASSUME NEW n \in Nat, NEW s \in Digits(n), \A j \in 1 .. n : s[j] = 0
  PROVE  WithoutTrailingZeros(s) = <<>>
<1> DEFINE r == [i \in 1 .. n |-> s[n - i + 1]]
<1>1. Reverse(s) = r
  <2>1. Len(s) = n
    BY IsSequence DEF Digits
  <2> QED BY <2>1 DEF Reverse
<1>2. r \in Digits(n) /\ \A j \in 1 .. n : r[j] = 0
  BY DEF Digits
<1> HIDE DEF r
<1>3. WithoutLeadingZeros(r) = <<>>
  BY <1>2, OnlyZeros
<1>4. Reverse(<<>>) = <<>>
  BY DEF Reverse
<1> QED BY <1>1, <1>3, <1>4 DEF WithoutTrailingZeros

LEMMA LastDigit ==
  ASSUME NEW n \in Nat, NEW s \in Digits(n), ~(\A j \in 1 .. n : s[j] = 0)
  PROVE  \E l \in 1 .. n : s[l] # 0 /\ \A j \in l + 1 .. n : s[j] = 0
<1> DEFINE r == [i \in 1 .. n |-> s[n - i + 1]]
<1>1. r \in Digits(n) /\ ~(\A j \in 1 .. n : r[j] = 0)
  <2>1. PICK j \in 1 .. n : s[j] # 0
    OBVIOUS
  <2>2. n - j + 1 \in 1 .. n /\ n - (n - j + 1) + 1 = j
    OBVIOUS
  <2>3. r[n - j + 1] # 0
    BY <2>1, <2>2
  <2> QED BY <2>2, <2>3 DEF Digits
<1>2. PICK f \in 1 .. n : r[f] # 0 /\ \A j \in 1 .. f - 1 : r[j] = 0
  <2> HIDE DEF r
  <2> QED BY <1>1, FirstDigit
<1>3. n - f + 1 \in 1 .. n /\ s[n - f + 1] # 0
  BY <1>2
<1>4. ASSUME NEW j \in (n - f + 1) + 1 .. n PROVE s[j] = 0
  <2>1. n - j + 1 \in 1 .. f - 1 /\ n - j + 1 \in 1 .. n /\ n - (n - j + 1) + 1 = j
    OBVIOUS
  <2>2. r[n - j + 1] = 0
    BY <1>2, <2>1
  <2> QED BY <2>1, <2>2
<1> QED BY <1>3, <1>4

\* How many digits to the base of 100 a NUMBER holds
Room100 == Figures \div 2

LEMMA RoomFacts == Figures \in Nat /\ Room100 \in Nat \ {0} /\ Figures = 2 * Room100
  BY FiguresAssumption DEF Room100

\* Bytes: a first one and those of f
LEMMA Joined ==
  ASSUME NEW a \in Int, NEW m \in Nat, NEW f \in [1 .. m -> Int]
  PROVE  /\ <<a>> \o f \in Seq(Int) /\ Len(<<a>> \o f) = m + 1 /\ (<<a>> \o f)[1] = a
         /\ \A i \in 1 .. m : (<<a>> \o f)[i + 1] = f[i]
<1> DEFINE p == <<a>> \o f
<1>1. <<a>> \in Seq(Int) /\ Len(<<a>>) = 1 /\ f \in Seq(Int) /\ Len(f) = m
  BY IsSequence
<1>2. /\ p \in Seq(Int) /\ Len(p) = m + 1
      /\ \A i \in 1 .. m + 1 : p[i] = IF i <= 1 THEN <<a>>[i] ELSE f[i - 1]
  BY <1>1, ConcatProperties
<1> HIDE DEF p
<1>3. p[1] = a
  BY <1>2
<1>4. ASSUME NEW i \in 1 .. m PROVE p[i + 1] = f[i]
  <2>1. i + 1 \in 1 .. m + 1 /\ ~(i + 1 <= 1) /\ i + 1 - 1 = i
    OBVIOUS
  <2>2. p[i + 1] = f[i + 1 - 1]
    BY <1>2, <2>1
  <2> QED BY <2>1, <2>2
<1> QED BY <1>2, <1>3, <1>4 DEF p

\* The bytes of a NUMBER
LEMMA EncodedBytes ==
  ASSUME NEW negative \in BOOLEAN, NEW e \in Int, NEW m \in 1 .. Room100, NEW cells \in [1 .. m -> 0 .. 99]
  PROVE  LET n == Encoded(negative, e, cells)
             full == IF negative /\ m < Room100 THEN m + 2 ELSE m + 1
         IN  /\ n \in Seq(Int) /\ Len(n) = full
             /\ n[1] = IF negative THEN 62 - e ELSE 193 + e
             /\ \A i \in 1 .. m : n[i + 1] = IF negative THEN 101 - cells[i] ELSE cells[i] + 1
             /\ full = m + 2 => n[m + 2] = 102
<1> DEFINE n == Encoded(negative, e, cells)
           full == IF negative /\ m < Room100 THEN m + 2 ELSE m + 1
           h == IF negative THEN 62 - e ELSE 193 + e
           f == [i \in 1 .. m |-> IF negative THEN 101 - cells[i] ELSE cells[i] + 1]
           p == <<h>> \o f
<1>1. Len(cells) = m /\ DOMAIN cells = 1 .. m /\ m \in Nat /\ Room100 \in Nat
  BY RoomFacts, IsSequence
<1>2. h \in Int /\ f \in [1 .. m -> Int]
  <2>1. \A i \in 1 .. m : cells[i] \in 0 .. 99
    OBVIOUS
  <2>2. \A x \in 0 .. 99 : 101 - x \in Int /\ x + 1 \in Int
    OBVIOUS
  <2>3. ASSUME NEW i \in 1 .. m PROVE f[i] \in Int
    <3>1. cells[i] \in 0 .. 99
      BY <2>1
    <3>2. 101 - cells[i] \in Int /\ cells[i] + 1 \in Int
      BY <2>2, <3>1
    <3>3. f[i] = 101 - cells[i] \/ f[i] = cells[i] + 1
      OBVIOUS
    <3> QED BY <3>2, <3>3
  <2>4. f = [i \in 1 .. m |-> f[i]]
    OBVIOUS
  <2>5. f \in [1 .. m -> Int]
    <3> HIDE DEF f
    <3> QED BY <2>3, <2>4
  <2> QED BY <2>5
<1>3. p \in Seq(Int) /\ Len(p) = m + 1 /\ p[1] = h /\ \A i \in 1 .. m : p[i + 1] = f[i]
  <2> HIDE DEF h, f
  <2> QED BY <1>1, <1>2, Joined
<1>4. CASE full = m + 2
  <2>1. negative /\ m < Room100
    BY <1>1, <1>4
  <2>2. n = p \o <<102>>
    BY <1>1, <2>1 DEF Encoded, Room100
  <2> HIDE DEF n, p, full
  <2>3. <<102>> \in Seq(Int) /\ Len(<<102>>) = 1 /\ <<102>>[1] = 102
    OBVIOUS
  <2>4. /\ n \in Seq(Int) /\ Len(n) = m + 2
        /\ \A i \in 1 .. m + 2 : n[i] = IF i <= m + 1 THEN p[i] ELSE <<102>>[i - (m + 1)]
    BY <1>1, <1>3, <2>2, <2>3, ConcatProperties
  <2>5. n[1] = h /\ \A i \in 1 .. m : n[i + 1] = f[i]
    <3>1. \A i \in 1 .. m + 1 : n[i] = p[i]
      BY <1>1, <2>4
    <3> QED BY <1>1, <1>3, <3>1
  <2>6. n[m + 2] = 102
    <3>1. m + 2 \in 1 .. m + 2 /\ ~(m + 2 <= m + 1) /\ m + 2 - (m + 1) = 1
      BY <1>1
    <3> QED BY <2>3, <2>4, <3>1
  <2> QED BY <1>4, <2>4, <2>5, <2>6 DEF n, full
<1>5. CASE full # m + 2
  <2>1. full = m + 1 /\ ~(negative /\ m < Room100)
    BY <1>1, <1>5
  <2>2. n = p
    <3>1. CASE negative
      <4>1. n = p \o <<>>
        BY <1>1, <2>1, <3>1 DEF Encoded, Room100
      <4> HIDE DEF p
      <4> QED BY <1>3, <4>1, ConcatEmptySeq
    <3>2. CASE ~negative
      BY <1>1, <3>2 DEF Encoded
    <3> QED BY <3>1, <3>2
  <2> HIDE DEF n, p, full
  <2>3. n \in Seq(Int) /\ Len(n) = full /\ n[1] = h /\ \A i \in 1 .. m : n[i + 1] = f[i]
    BY <1>3, <2>1, <2>2
  <2> QED BY <1>5, <2>3 DEF n, full
<1> QED BY <1>4, <1>5

\* and what oranumber_to_str takes them for
LEMMA EncodedFacts ==
  ASSUME NEW negative \in BOOLEAN, NEW e \in Int, NEW m \in 1 .. Room100, NEW cells \in [1 .. m -> 0 .. 99],
         e >= -65, cells[m] # 0
  PROVE  LET n == Encoded(negative, e, cells)
         IN  /\ IsNegative(n) = negative /\ Exponent100(n) = e /\ Cells(n) = cells
             /\ n \notin {NotConverted, InvalidNumber, NumericOverflow, Zero, Infinity, MinusInfinity}
             /\ n \in Seq(Int) /\ Len(n) <= 1 + Room100
<1> DEFINE n == Encoded(negative, e, cells)
           full == IF negative /\ m < Room100 THEN m + 2 ELSE m + 1
<1> HIDE DEF n
<1>1. /\ n \in Seq(Int) /\ Len(n) = full
      /\ n[1] = IF negative THEN 62 - e ELSE 193 + e
      /\ \A i \in 1 .. m : n[i + 1] = IF negative THEN 101 - cells[i] ELSE cells[i] + 1
      /\ full = m + 2 => n[m + 2] = 102
  BY EncodedBytes DEF n
<1>2. m \in Nat /\ m >= 1 /\ m <= Room100 /\ Room100 \in Nat
  BY RoomFacts
<1>3. \A i \in 1 .. m : cells[i] \in 0 .. 99 /\ cells[i] \in Int
  <2>1. \A i \in 1 .. m : cells[i] \in 0 .. 99
    OBVIOUS
  <2>2. \A x \in 0 .. 99 : x \in Int
    OBVIOUS
  <2> QED BY <2>1, <2>2
<1>4. IsNegative(n) = negative
  <2>1. CASE negative
    <3>1. n[1] = 62 - e
      BY <1>1, <2>1
    <3>2. IsNegative(n)
      BY <3>1 DEF IsNegative
    <3>3. IsNegative(n) = TRUE /\ negative = TRUE
      BY <2>1, <3>2 DEF IsNegative
    <3> QED BY <3>3
  <2>2. CASE ~negative
    <3>1. n[1] = 193 + e
      BY <1>1, <2>2
    <3>2. ~IsNegative(n)
      BY <3>1 DEF IsNegative
    <3>3. IsNegative(n) = FALSE /\ negative = FALSE
      BY <2>2, <3>2 DEF IsNegative
    <3> QED BY <3>3
  <2> QED BY <2>1, <2>2
<1>5. Exponent100(n) = e
  <2>1. CASE negative
    BY <1>1, <1>4, <2>1 DEF Exponent100
  <2>2. CASE ~negative
    BY <1>1, <1>4, <2>2 DEF Exponent100
  <2> QED BY <2>1, <2>2
<1>6. Len(n) >= 2 /\ Len(n) <= 1 + Room100
  BY <1>1, <1>2
<1> DEFINE c == [i \in 1 .. Len(n) - 1 |-> IF IsNegative(n) THEN 101 - n[i + 1] ELSE n[i + 1] - 1]
<1>7. ASSUME NEW i \in 1 .. m PROVE c[i] = cells[i]
  <2>1. i \in 1 .. Len(n) - 1 /\ cells[i] \in Int
    BY <1>3, <1>1, <1>2
  <2>2. c[i] = IF negative THEN 101 - n[i + 1] ELSE n[i + 1] - 1
    BY <1>4, <2>1
  <2>3. CASE negative
    <3>1. c[i] = 101 - n[i + 1] /\ n[i + 1] = 101 - cells[i]
      BY <1>1, <2>2, <2>3
    <3> QED BY <2>1, <3>1
  <2>4. CASE ~negative
    <3>1. c[i] = n[i + 1] - 1 /\ n[i + 1] = cells[i] + 1
      BY <1>1, <2>2, <2>4
    <3> QED BY <2>1, <3>1
  <2> QED BY <2>3, <2>4
<1>8. Cells(n) = IF IsNegative(n) /\ Last(n) = 102 THEN Front(c) ELSE c
  BY DEF Cells
<1>9. c \in Seq(Int) /\ Len(c) = Len(n) - 1
  <2>1. ASSUME NEW i \in 1 .. Len(n) - 1 PROVE c[i] \in Int
    <3>1. i + 1 \in 1 .. Len(n)
      BY <1>1, <1>2
    <3>2. n[i + 1] \in Int
      BY <1>1, <3>1
    <3> QED BY <3>2
  <2>2. c \in [1 .. Len(n) - 1 -> Int]
    BY <2>1
  <2>3. Len(n) - 1 \in Nat
    BY <1>1, <1>2
  <2> HIDE DEF c
  <2> QED BY <2>2, <2>3, IsSequence
<1> HIDE DEF c
<1>10. cells = [i \in 1 .. m |-> cells[i]] /\ cells \in Seq(Int) /\ Len(cells) = m
  <2>1. cells \in [1 .. m -> Int]
    BY <1>3
  <2> QED BY <1>2, <2>1, IsSequence
<1>11. Cells(n) = cells
  <2>1. CASE full = m + 2
    <3>1. negative /\ Last(n) = 102 /\ Len(c) = m + 1
      BY <1>1, <1>2, <1>9, <2>1 DEF Last
    <3>2. Front(c) = SubSeq(c, 1, m)
      BY <1>2, <3>1 DEF Front
    <3>3. SubSeq(c, 1, m) \in Seq(Int) /\ Len(SubSeq(c, 1, m)) = m
          /\ \A i \in 1 .. m : SubSeq(c, 1, m)[i] = c[i]
      <4>1. \A i \in 1 .. m : c[i] \in Int
        BY <1>9, <1>2, <3>1
      <4>2. /\ SubSeq(c, 1, m) \in Seq(Int)
            /\ Len(SubSeq(c, 1, m)) = IF 1 <= m THEN m - 1 + 1 ELSE 0
            /\ \A i \in 1 .. m - 1 + 1 : SubSeq(c, 1, m)[i] = c[1 + i - 1]
        BY <1>2, <4>1, SubSeqProperties
      <4> QED BY <1>2, <4>2
    <3>4. SubSeq(c, 1, m) = cells
      BY <1>7, <1>10, <3>3, SeqEqual
    <3> QED BY <1>4, <1>8, <3>1, <3>2, <3>4
  <2>2. CASE full # m + 2
    <3>1. Len(n) = m + 1 /\ Len(c) = m
      BY <1>1, <1>2, <1>9, <2>2
    <3>2. c = cells
      BY <1>7, <1>9, <1>10, <3>1, SeqEqual
    <3>3. ~(negative /\ Last(n) = 102)
      <4>1. Last(n) = n[m + 1] /\ m \in 1 .. m
        BY <1>2, <3>1 DEF Last
      <4>2. ASSUME negative PROVE n[m + 1] # 102
        <5>1. n[m + 1] = 101 - cells[m] /\ cells[m] \in 0 .. 99
          BY <1>3, <1>1, <4>1, <4>2
        <5>2. \A x \in 0 .. 99 : 101 - x # 102
          OBVIOUS
        <5> QED BY <5>1, <5>2
      <4> QED BY <4>1, <4>2
    <3> QED BY <1>4, <1>8, <3>2, <3>3
  <2> QED BY <2>1, <2>2
<1>12. n \notin {NotConverted, InvalidNumber, NumericOverflow, Zero, MinusInfinity}
  <2>1. Len(NotConverted) = 0 /\ Len(InvalidNumber) = 1 /\ Len(NumericOverflow) = 1 /\ Len(Zero) = 1
        /\ Len(MinusInfinity) = 1
    BY DEF NotConverted, InvalidNumber, NumericOverflow, Zero, MinusInfinity
  <2> QED BY <1>6, <1>1, <1>2, <2>1
<1>13. n # Infinity
  <2> SUFFICES ASSUME n = Infinity PROVE FALSE
    OBVIOUS
  <2>1. Len(n) = 2 /\ n[1] = 255 /\ n[2] = 101
    BY DEF Infinity
  <2>2. ~negative
    BY <1>4, <2>1 DEF IsNegative
  <2>3. m = 1 /\ 1 \in 1 .. m
    <3>1. full = m + 1
      BY <2>2
    <3> HIDE DEF full
    <3>2. Len(n) = full
      BY <1>1
    <3>3. m + 1 = 2
      BY <2>1, <3>1, <3>2
    <3> QED BY <1>2, <3>3
  <2>4. \A x \in 0 .. 99 : x + 1 # 101
    OBVIOUS
  <2>5. n[1 + 1] = cells[1] + 1 /\ cells[1] \in 0 .. 99
    BY <1>3, <1>1, <2>2, <2>3
  <2>6. n[2] = cells[1] + 1
    BY <2>5
  <2>7. n[2] # 101
    <3> DEFINE x == cells[1]
    <3>1. n[2] = x + 1 /\ x \in 0 .. 99
      BY <2>5, <2>6
    <3> HIDE DEF x
    <3> QED BY <3>1
  <2> QED BY <2>1, <2>7
<1> QED BY <1>1, <1>4, <1>5, <1>6, <1>11, <1>12, <1>13 DEF n


\* The decimal figures of digits to the base of 100
LEMMA FigureFacts ==
  ASSUME NEW m \in Nat, NEW cells \in [1 .. m -> 0 .. 99]
  PROVE  /\ Figure(cells) \in Digits(2 * m)
         /\ \A i \in 1 .. m : /\ Figure(cells)[2 * i - 1] = cells[i] \div 10
                              /\ Figure(cells)[2 * i] = cells[i] % 10
<1>1. Len(cells) = m
  BY IsSequence
<1> DEFINE F == [i \in 1 .. 2 * m |-> IF i % 2 = 1 THEN cells[(i + 1) \div 2] \div 10
                                                   ELSE cells[i \div 2] % 10]
<1>2. Figure(cells) = F
  BY <1>1 DEF Figure
<1>3. \A x \in 0 .. 99 : x \div 10 \in Digit /\ x % 10 \in Digit
  BY DEF Digit
<1>4. ASSUME NEW i \in 1 .. 2 * m PROVE F[i] \in Digit
  <2>1. CASE i % 2 = 1
    <3>1. (i + 1) \div 2 \in 1 .. m
      BY <2>1
    <3>2. F[i] = cells[(i + 1) \div 2] \div 10
      BY <2>1
    <3> QED BY <1>3, <3>1, <3>2
  <2>2. CASE i % 2 # 1
    <3>1. i \div 2 \in 1 .. m
      BY <2>2
    <3>2. F[i] = cells[i \div 2] % 10
      BY <2>2
    <3> QED BY <1>3, <3>1, <3>2
  <2> QED BY <2>1, <2>2
<1>5. F \in Digits(2 * m)
  <2>1. F = [i \in 1 .. 2 * m |-> F[i]]
    OBVIOUS
  <2> HIDE DEF F
  <2> QED BY <1>4, <2>1 DEF Digits
<1>6. ASSUME NEW i \in 1 .. m PROVE F[2 * i - 1] = cells[i] \div 10 /\ F[2 * i] = cells[i] % 10
  <2>1. /\ 2 * i - 1 \in 1 .. 2 * m /\ (2 * i - 1) % 2 = 1 /\ (2 * i - 1 + 1) \div 2 = i
        /\ 2 * i \in 1 .. 2 * m /\ (2 * i) % 2 # 1 /\ (2 * i) \div 2 = i
    OBVIOUS
  <2>2. F[2 * i - 1] = cells[(2 * i - 1 + 1) \div 2] \div 10
    BY <2>1
  <2>3. F[2 * i] = cells[(2 * i) \div 2] % 10
    BY <2>1
  <2> QED BY <2>1, <2>2, <2>3
<1> QED BY <1>2, <1>5, <1>6

\* Two sequences of digits
LEMMA JoinedDigits ==
  ASSUME NEW n \in Nat, NEW k \in Nat, NEW f \in Digits(n), NEW g \in Digits(k)
  PROVE  /\ f \o g \in Digits(n + k)
         /\ \A i \in 1 .. n : (f \o g)[i] = f[i]
         /\ \A i \in 1 .. k : (f \o g)[n + i] = g[i]
<1> DEFINE p == f \o g
<1>1. f \in Seq(Digit) /\ Len(f) = n /\ g \in Seq(Digit) /\ Len(g) = k
  BY IsSequence DEF Digits
<1>2. /\ p \in Seq(Digit) /\ Len(p) = n + k
      /\ \A i \in 1 .. n + k : p[i] = IF i <= n THEN f[i] ELSE g[i - n]
  BY <1>1, ConcatProperties
<1> HIDE DEF p
<1>3. p \in Digits(n + k)
  BY <1>2 DEF Digits
<1>4. ASSUME NEW i \in 1 .. n PROVE p[i] = f[i]
  BY <1>2
<1>5. ASSUME NEW i \in 1 .. k PROVE p[n + i] = g[i]
  <2>1. n + i \in 1 .. n + k /\ ~(n + i <= n) /\ n + i - n = i
    OBVIOUS
  <2> QED BY <1>2, <2>1
<1> QED BY <1>3, <1>4, <1>5 DEF p

\* All digits but the first
LEMMA TailOfDigits ==
  ASSUME NEW u \in Nat, NEW n \in Nat, n = u + 1, NEW f \in Digits(n)
  PROVE  Tail(f) \in Digits(u) /\ \A i \in 1 .. u : Tail(f)[i] = f[i + 1]
<1>1. f \in Seq(Digit) /\ Len(f) = n /\ f # <<>>
  <2>1. f \in Seq(Digit) /\ Len(f) = n
    BY IsSequence DEF Digits
  <2>2. n # 0
    OBVIOUS
  <2> QED BY <2>1, <2>2
<1>2. Tail(f) \in Seq(Digit) /\ Len(Tail(f)) = u /\ \A i \in 1 .. u : Tail(f)[i] = f[i + 1]
  <2>1. /\ Tail(f) \in Seq(Digit) /\ Len(Tail(f)) = Len(f) - 1
        /\ \A i \in 1 .. Len(f) - 1 : Tail(f)[i] = f[i + 1]
    BY <1>1, HeadTailProperties
  <2> QED BY <1>1, <2>1
<1>3. Tail(f) \in Digits(u)
  <2> DEFINE s == Tail(f)
  <2>1. s \in Seq(Digit) /\ Len(s) = u
    BY <1>2
  <2> HIDE DEF s
  <2>2. s \in [1 .. u -> Digit]
    BY <2>1
  <2> QED BY <2>2 DEF s, Digits
<1> QED BY <1>2, <1>3

\* k digits of a sequence, behind the first o of them
LEMMA PartOfDigits ==
  ASSUME NEW n \in Nat, NEW f \in Digits(n), NEW o \in Nat, NEW k \in Nat, o + k <= n,
         NEW a \in Nat, a = o + 1, NEW b \in Nat, b = o + k
  PROVE  /\ SubSeq(f, a, b) \in Digits(k)
         /\ \A i \in 1 .. k : SubSeq(f, a, b)[i] = f[i + o]
<1>1. SubSeq(f, a, b) = [i \in 1 .. b - a + 1 |-> f[a + i - 1]]
  OBVIOUS
<1>2. b - a + 1 = k /\ \A i \in 1 .. k : a + i - 1 = i + o /\ i + o \in 1 .. n
  OBVIOUS
<1>3. SubSeq(f, a, b) = [i \in 1 .. k |-> f[i + o]]
  BY <1>1, <1>2
<1>4. \A i \in 1 .. k : f[i + o] \in Digit
  BY <1>2 DEF Digits
<1> QED BY <1>3, <1>4 DEF Digits

\* The digits s are those of the figures D, perhaps with zeros behind them or
\* without the zero of the last pair.
Shows(s, n, D, m) ==
  /\ n \in Nat /\ n >= 2 * m - 1 /\ (n = 2 * m - 1 => D[2 * m] = 0)
  /\ s \in Digits(n)
  /\ \A i \in 1 .. n : s[i] = IF i <= 2 * m THEN D[i] ELSE 0

\* Digits that are shown are not rounded.
LEMMA ShownRounded ==
  ASSUME NEW m \in 1 .. Room100, NEW D \in Digits(2 * m), NEW n, NEW s, Shows(s, n, D, m)
  PROVE  \E k \in Nat : k <= Figures /\ Shows(Rounded(s)[1], k, D, m) /\ Rounded(s)[2] = 0
<1>1. /\ n \in Nat /\ n >= 2 * m - 1 /\ (n = 2 * m - 1 => D[2 * m] = 0)
      /\ s \in Digits(n)
      /\ \A i \in 1 .. n : s[i] = IF i <= 2 * m THEN D[i] ELSE 0
  BY DEF Shows
<1>2. m \in Nat /\ m >= 1 /\ Figures \in Nat /\ 2 * m <= Figures
  BY RoomFacts
<1>3. Len(s) = n
  BY <1>1, IsSequence DEF Digits
<1>4. CASE n <= Figures
  <2>1. Rounded(s) = <<s, 0>>
    BY <1>3, <1>4 DEF Rounded
  <2> QED BY <1>1, <1>4, <2>1
<1>5. CASE ~(n <= Figures)
  <2> DEFINE kept == SubSeq(s, 1, Figures)
  <2>1. s[Figures + 1] < 5
    <3>1. Figures + 1 \in 1 .. n /\ ~(Figures + 1 <= 2 * m)
      BY <1>1, <1>2, <1>5
    <3>2. s[Figures + 1] = 0
      BY <1>1, <3>1
    <3> QED BY <3>2
  <2>2. Rounded(s) = <<kept, 0>>
    BY <1>3, <1>5, <2>1 DEF Rounded
  <2>3. kept \in Digits(Figures) /\ \A i \in 1 .. Figures : kept[i] = s[i]
    <3>1. 0 \in Nat /\ 0 + Figures <= n /\ 1 \in Nat /\ 1 = 0 + 1 /\ Figures = 0 + Figures
          /\ \A i \in 1 .. Figures : i + 0 = i
      BY <1>1, <1>2, <1>5
    <3>2. kept \in Digits(Figures)
      BY <1>1, <1>2, <3>1, PartOfDigits
    <3>3. \A i \in 1 .. Figures : kept[i] = s[i + 0]
      BY <1>1, <1>2, <3>1, PartOfDigits
    <3> HIDE DEF kept
    <3> QED BY <3>1, <3>2, <3>3
  <2> HIDE DEF kept
  <2>4. Shows(kept, Figures, D, m)
    <3>1. Figures # 2 * m - 1 /\ Figures >= 2 * m - 1 /\ \A i \in 1 .. Figures : i \in 1 .. n
      BY <1>1, <1>2, <1>5
    <3> QED BY <1>1, <1>2, <2>3, <3>1 DEF Shows
  <2> QED BY <1>2, <2>2, <2>4
<1> QED BY <1>4, <1>5

\* Without their last zeros they end with the last pair.
LEMMA ShownStripped ==
  ASSUME NEW m \in Nat, m >= 1, NEW D \in Digits(2 * m), D[2 * m - 1] # 0 \/ D[2 * m] # 0,
         NEW n, NEW s, Shows(s, n, D, m), NEW l \in Nat, l = IF D[2 * m] = 0 THEN 2 * m - 1 ELSE 2 * m
  PROVE  /\ WithoutTrailingZeros(s) \in Digits(l)
         /\ \A i \in 1 .. l : WithoutTrailingZeros(s)[i] = D[i]
<1>1. /\ n \in Nat /\ n >= 2 * m - 1 /\ (n = 2 * m - 1 => D[2 * m] = 0)
      /\ s \in Digits(n)
      /\ \A i \in 1 .. n : s[i] = IF i <= 2 * m THEN D[i] ELSE 0
  BY DEF Shows
<1>2. l \in 1 .. n /\ l <= 2 * m /\ l >= 2 * m - 1 /\ D[l] # 0
  <2>1. CASE D[2 * m] = 0
    <3>1. l = 2 * m - 1
      BY <2>1
    <3> QED BY <1>1, <2>1, <3>1
  <2>2. CASE D[2 * m] # 0
    <3>1. l = 2 * m /\ n # 2 * m - 1
      BY <1>1, <2>2
    <3> QED BY <1>1, <2>2, <3>1
  <2> QED BY <2>1, <2>2
<1>3. l < 2 * m => D[2 * m] = 0
  OBVIOUS
<1>4. s[l] # 0
  BY <1>1, <1>2
<1>5. ASSUME NEW j \in l + 1 .. n PROVE s[j] = 0
  <2>1. j \in 1 .. n
    BY <1>1, <1>2
  <2>2. CASE j <= 2 * m
    <3>1. j = 2 * m /\ l < 2 * m
      BY <1>2, <2>2
    <3> QED BY <1>1, <1>3, <2>1, <3>1
  <2>3. CASE ~(j <= 2 * m)
    BY <1>1, <2>1, <2>3
  <2> QED BY <2>2, <2>3
<1>6. WithoutTrailingZeros(s) = [i \in 1 .. l |-> s[i]]
  BY <1>1, <1>2, <1>4, <1>5, TrailingZeros
<1>7. \A i \in 1 .. l : s[i] = D[i] /\ s[i] \in Digit
  BY <1>1, <1>2 DEF Digits
<1> QED BY <1>6, <1>7 DEF Digits

\* and make the pairs again.
LEMMA ShownPaired ==
  ASSUME NEW m \in Nat, m >= 1, NEW cells \in [1 .. m -> 0 .. 99]
  PROVE  LET D == Figure(cells)
         IN  Paired([i \in 1 .. IF D[2 * m] = 0 THEN 2 * m - 1 ELSE 2 * m |-> D[i]]) = cells
<1> DEFINE D == Figure(cells)
           l == IF D[2 * m] = 0 THEN 2 * m - 1 ELSE 2 * m
           F == [i \in 1 .. l |-> D[i]]
           even == IF Len(F) % 2 = 1 THEN Append(F, 0) ELSE F
<1>1. /\ D \in Digits(2 * m)
      /\ \A i \in 1 .. m : D[2 * i - 1] = cells[i] \div 10 /\ D[2 * i] = cells[i] % 10
  BY FigureFacts
<1> HIDE DEF D
<1>2. l \in Nat /\ l <= 2 * m /\ F \in Digits(l)
  <2>1. l \in Nat /\ l <= 2 * m
    OBVIOUS
  <2>2. \A i \in 1 .. l : i \in 1 .. 2 * m
    BY <2>1
  <2> HIDE DEF l
  <2> QED BY <1>1, <2>1, <2>2 DEF Digits
<1>3. Len(F) = l /\ F \in Seq(Digit)
  <2> HIDE DEF F, l
  <2> QED BY <1>2, IsSequence DEF Digits
<1>4. \A i \in 1 .. l : F[i] = D[i]
  OBVIOUS
<1>5. Len(even) = 2 * m /\ \A i \in 1 .. 2 * m : even[i] = D[i]
  <2>1. CASE D[2 * m] = 0
    <3>1. l = 2 * m - 1 /\ l % 2 = 1
      BY <2>1
    <3>2. even = Append(F, 0)
      BY <1>3, <3>1
    <3> HIDE DEF F, even, l
    <3>3. Len(even) = l + 1 /\ even[l + 1] = 0 /\ \A i \in 1 .. l : even[i] = F[i]
      BY <1>3, <3>2, AppendProperties
    <3>4. ASSUME NEW i \in 1 .. 2 * m PROVE even[i] = D[i]
      <4>1. CASE i = l + 1
        <5>1. i = 2 * m
          BY <3>1, <4>1
        <5> QED BY <2>1, <3>3, <4>1, <5>1
      <4>2. CASE i # l + 1
        <5>1. i \in 1 .. l
          BY <3>1, <4>2
        <5> QED BY <1>4, <3>3, <5>1
      <4> QED BY <4>1, <4>2
    <3> QED BY <3>1, <3>3, <3>4
  <2>2. CASE D[2 * m] # 0
    <3>1. l = 2 * m /\ l % 2 # 1
      BY <2>2
    <3>2. even = F
      BY <1>3, <3>1
    <3> HIDE DEF F, even, l
    <3> QED BY <1>3, <1>4, <3>1, <3>2
  <2> QED BY <2>1, <2>2
<1>6. Paired(F) = [i \in 1 .. Len(even) \div 2 |-> even[2 * i - 1] * 10 + even[2 * i]]
  BY DEF Paired
<1> HIDE DEF F, even, l
<1>7. Len(even) \div 2 = m
  BY <1>5
<1>8. ASSUME NEW i \in 1 .. m PROVE even[2 * i - 1] * 10 + even[2 * i] = cells[i]
  <2>1. 2 * i - 1 \in 1 .. 2 * m /\ 2 * i \in 1 .. 2 * m
    OBVIOUS
  <2>2. even[2 * i - 1] = cells[i] \div 10 /\ even[2 * i] = cells[i] % 10
    BY <1>1, <1>5, <2>1
  <2>3. ASSUME NEW x \in 0 .. 99
        PROVE  \E q, r \in Int : q = x \div 10 /\ r = x % 10 /\ q * 10 + r = x
    <3>1. (x % 10) + (x \div 10) * 10 = x
      OBVIOUS
    <3>2. PICK q \in Int : q = x \div 10
      OBVIOUS
    <3>3. PICK r \in Int : r = x % 10
      OBVIOUS
    <3>4. r + q * 10 = x
      BY <3>1, <3>2, <3>3
    <3>5. q * 10 + r = x
      BY <3>4
    <3> QED BY <3>2, <3>3, <3>5
  <2>4. PICK q, r \in Int : q = cells[i] \div 10 /\ r = cells[i] % 10 /\ q * 10 + r = cells[i]
    BY <2>3
  <2>5. even[2 * i - 1] = q /\ even[2 * i] = r
    BY <2>2, <2>4
  <2> QED BY <2>4, <2>5
<1>9. Paired(F) = cells
  BY <1>6, <1>7, <1>8
<1> QED BY <1>9 DEF F, l, D

\* Reading what shows a NUMBER gives that NUMBER.
LEMMA ShownReads ==
  ASSUME NEW t, NEW e \in Int, NEW m \in 1 .. Room100, NEW cells \in [1 .. m -> 0 .. 99], cells[m] # 0,
         NEW n, Shows(Aligned(t), n, Figure(cells), m), NEW z \in {0, 1},
         LeadingExponent(t) = 2 * e + 1 - z, MinExponent <= 2 * e + 1 - z, 2 * e + 1 - z <= MaxExponent
  PROVE  FromDecimal(t) = Encoded(t.negative, e, cells)
<1> DEFINE D == Figure(cells)
           l == IF D[2 * m] = 0 THEN 2 * m - 1 ELSE 2 * m
           F == [i \in 1 .. l |-> D[i]]
           rounded == Rounded(Aligned(t))
<1>1. m \in Nat /\ m >= 1
  BY RoomFacts
<1>2. /\ D \in Digits(2 * m)
      /\ \A i \in 1 .. m : D[2 * i - 1] = cells[i] \div 10 /\ D[2 * i] = cells[i] % 10
  BY <1>1, FigureFacts
<1>3. D[2 * m - 1] # 0 \/ D[2 * m] # 0
  <2>1. m \in 1 .. m
    BY <1>1
  <2>2. D[2 * m - 1] = cells[m] \div 10 /\ D[2 * m] = cells[m] % 10 /\ cells[m] \in 0 .. 99
    BY <1>2, <2>1
  <2>3. \A x \in 0 .. 99 : x \div 10 = 0 /\ x % 10 = 0 => x = 0
    OBVIOUS
  <2> QED BY <2>2, <2>3
<1>4. PICK k \in Nat : k <= Figures /\ Shows(rounded[1], k, D, m) /\ rounded[2] = 0
  BY <1>2, ShownRounded
<1>5. WithoutTrailingZeros(rounded[1]) = F
  <2> HIDE DEF D, rounded
  <2>1. D \in Digits(2 * m) /\ Shows(rounded[1], k, D, m)
    BY <1>2, <1>4
  <2> HIDE DEF l
  <2>2. /\ WithoutTrailingZeros(rounded[1]) \in Digits(l)
        /\ \A i \in 1 .. l : WithoutTrailingZeros(rounded[1])[i] = D[i]
    <3>1. l = (IF D[2 * m] = 0 THEN 2 * m - 1 ELSE 2 * m) /\ l \in Nat
      BY <1>1 DEF l
    <3> DEFINE s == rounded[1]
    <3>2. Shows(s, k, D, m)
      BY <2>1
    <3> HIDE DEF s
    <3>3. PICK j \in Nat : j = l
      BY <3>1
    <3>4. /\ WithoutTrailingZeros(s) \in Digits(j)
          /\ \A i \in 1 .. j : WithoutTrailingZeros(s)[i] = D[i]
      BY <1>1, <1>3, <2>1, <3>1, <3>2, <3>3, ShownStripped
    <3> QED BY <3>3, <3>4 DEF s
  <2> QED BY <2>2 DEF Digits
<1>6. Paired(F) = cells
  BY <1>1, ShownPaired
<1>7. F # <<>>
  <2>1. l >= 1 /\ l \in Nat
    BY <1>1
  <2>2. DOMAIN F = 1 .. l
    OBVIOUS
  <2> HIDE DEF F, l
  <2>3. DOMAIN F # {}
    <3>1. 1 \in 1 .. l
      BY <2>1
    <3> QED BY <2>2, <3>1
  <2> QED BY <2>3
<1>8. LeadingExponent(t) + rounded[2] = 2 * e + 1 - z
  BY <1>4
<1>9. (2 * e + 1 - z) \div 2 = e
  OBVIOUS
<1> DEFINE exponent == LeadingExponent(t) + rounded[2]
<1>10. FromDecimal(t) =
         IF WithoutTrailingZeros(rounded[1]) = <<>> \/ exponent < MinExponent THEN Zero
         ELSE IF exponent > MaxExponent THEN NumericOverflow
         ELSE Encoded(t.negative, exponent \div 2, Paired(WithoutTrailingZeros(rounded[1])))
  BY DEF FromDecimal
<1> HIDE DEF rounded, F, D, l
<1>11. exponent = 2 * e + 1 - z /\ ~(exponent < MinExponent) /\ ~(exponent > MaxExponent)
  BY <1>8, FiguresAssumption
<1> QED BY <1>5, <1>6, <1>7, <1>9, <1>10, <1>11

\* A last zero is left out.
LEMMA LastZeroDropped ==
  ASSUME NEW k \in Nat, NEW d \in Digits(k), NEW r,
         r = IF d # <<>> /\ Last(d) = 0 THEN Front(d) ELSE d
  PROVE  \E j \in Nat : /\ j <= k /\ j >= k - 1 /\ (j # k => d[k] = 0)
                        /\ r \in Digits(j) /\ \A i \in 1 .. j : r[i] = d[i]
<1>1. Len(d) = k /\ d \in Seq(Digit)
  BY IsSequence DEF Digits
<1>2. CASE d # <<>> /\ Last(d) = 0
  <2>1. k >= 1 /\ d[k] = 0
    <3>1. k # 0
      BY <1>1, <1>2
    <3> QED BY <1>1, <1>2, <3>1 DEF Last
  <2>2. r = SubSeq(d, 1, k - 1)
    BY <1>1, <1>2 DEF Front
  <2>3. PICK j \in Nat : j = k - 1
    BY <2>1
  <2>4. 0 \in Nat /\ j <= k /\ 0 + j <= k /\ 1 \in Nat /\ 1 = 0 + 1 /\ j = 0 + j /\ \A i \in 1 .. j : i + 0 = i
    BY <2>3
  <2>5. SubSeq(d, 1, j) \in Digits(j) /\ \A i \in 1 .. j : SubSeq(d, 1, j)[i] = d[i + 0]
    BY <2>4, PartOfDigits
  <2>6. r \in Digits(j) /\ \A i \in 1 .. j : r[i] = d[i]
    BY <2>2, <2>3, <2>4, <2>5
  <2> QED BY <2>1, <2>3, <2>4, <2>6
<1>3. CASE ~(d # <<>> /\ Last(d) = 0)
  <2>1. r = d
    BY <1>3
  <2> QED BY <2>1
<1> QED BY <1>2, <1>3

\* The zero before digits that start within a pair
LEMMA ZeroBefore ==
  ASSUME NEW k \in Nat, NEW q \in Digits(k)
  PROVE  /\ <<0>> \o q \in Digits(k + 1)
         /\ (<<0>> \o q)[1] = 0
         /\ \A i \in 1 .. k : (<<0>> \o q)[i + 1] = q[i]
<1>1. <<0>> \in Digits(1) /\ <<0>>[1] = 0
  BY DEF Digit, Digits
<1> DEFINE p == <<0>> \o q
<1>2. /\ p \in Digits(1 + k)
      /\ \A i \in 1 .. 1 : p[i] = <<0>>[i]
      /\ \A i \in 1 .. k : p[1 + i] = q[i]
  BY <1>1, JoinedDigits
<1> HIDE DEF p
<1>3. 1 + k = k + 1 /\ \A i \in 1 .. k : 1 + i = i + 1
  OBVIOUS
<1>4. p[1] = 0
  BY <1>1, <1>2
<1>5. p \in Digits(k + 1)
  BY <1>2, <1>3
<1>6. \A i \in 1 .. k : p[i + 1] = q[i]
  BY <1>2, <1>3
<1> QED BY <1>4, <1>5, <1>6 DEF p

\* n is a NUMBER of these digits with this exponent.
Denoted(n, e, m, cells) ==
  m >= 1 /\ cells \in [1 .. m -> 0 .. 99] /\ cells[1] # 0 /\ Cells(n) = cells /\ Exponent100(n) = e

\* What oranumber_to_str prints shows the number: with digits before the point,
LEMMA PrintedWithWhole ==
  ASSUME NEW n, NEW e \in Int, NEW m \in Nat, NEW cells, Denoted(n, e, m, cells), e >= 0,
         NEW t, t.whole = PrintedWhole(n), t.part = PrintedPart(n), t.exponent = 0,
         NEW c \in Nat, c = 2 * (e + 1),
         NEW z \in Nat, z = IF Figure(cells)[1] = 0 THEN 1 ELSE 0
  PROVE  \E k : LeadingExponent(t) = 2 * e + 1 - z /\ Shows(Aligned(t), k, Figure(cells), m)
<1>1. m >= 1 /\ cells \in [1 .. m -> 0 .. 99] /\ cells[1] # 0 /\ Cells(n) = cells /\ Exponent100(n) = e
  BY DEF Denoted
<1> USE <1>1
<1> DEFINE D == Figure(cells)
           all == [i \in 1 .. c |-> IF i <= 2 * m THEN D[i] ELSE 0]
           w == IF all[1] = 0 THEN Tail(all) ELSE all
           p == PrintedPart(n)
<1>2. /\ D \in Digits(2 * m)
      /\ \A i \in 1 .. m : D[2 * i - 1] = cells[i] \div 10 /\ D[2 * i] = cells[i] % 10
  BY FigureFacts
<1>3. (D[1] = 0 /\ z = 1) \/ (D[1] # 0 /\ z = 0)
  OBVIOUS
<1> HIDE DEF D
<1>4. Len(D) = 2 * m /\ Len(cells) = m /\ D \in Seq(Digit)
  BY <1>2, IsSequence DEF Digits
<1>5. D[1] = 0 => D[2] # 0
  <2>1. 1 \in 1 .. m /\ 2 * 1 - 1 = 1 /\ 2 * 1 = 2
    OBVIOUS
  <2>2. D[1] = cells[1] \div 10 /\ D[2] = cells[1] % 10 /\ cells[1] \in 0 .. 99
    BY <1>2, <2>1
  <2>3. \A x \in 0 .. 99 : x \div 10 = 0 /\ x % 10 = 0 => x = 0
    OBVIOUS
  <2> QED BY <2>2, <2>3
<1>6. c \in Nat /\ c >= 2 /\ (z = 0 \/ z = 1)
  BY <1>3
<1>7. all \in Digits(c) /\ all[1] = D[1] /\ all[2] = D[2]
  <2>1. ASSUME NEW i \in 1 .. c PROVE all[i] \in Digit
    <3>1. CASE i <= 2 * m
      <4>1. all[i] = D[i] /\ i \in 1 .. 2 * m
        BY <3>1
      <4> QED BY <1>2, <4>1 DEF Digits
    <3>2. CASE ~(i <= 2 * m)
      BY <3>2 DEF Digit
    <3> QED BY <3>1, <3>2
  <2>2. all = [i \in 1 .. c |-> all[i]]
    OBVIOUS
  <2>3. 1 \in 1 .. c /\ 2 \in 1 .. c /\ 1 <= 2 * m /\ 2 <= 2 * m
    OBVIOUS
  <2>4. all[1] = D[1] /\ all[2] = D[2]
    BY <2>3
  <2> HIDE DEF all
  <2> QED BY <2>1, <2>2, <2>4 DEF Digits
<1>8. PrintedWhole(n) = w
  <2>1. ~(c <= 0)
    BY <1>6
  <2> QED BY <1>4, <2>1 DEF PrintedWhole, D
<1>9. PICK u \in Nat : u = c - z
  <2>1. c - z \in Nat
    BY <1>6
  <2> QED BY <2>1
<1>10. w \in Digits(u) /\ \A i \in 1 .. u : w[i] = all[i + z]
  <2> HIDE DEF all
  <2>1. all \in Seq(Digit) /\ Len(all) = c
    BY <1>6, <1>7, IsSequence DEF Digits
  <2>2. CASE D[1] = 0
    <3>1. w = Tail(all) /\ z = 1
      BY <1>3, <1>7, <2>2
    <3>2. c = u + 1
      BY <1>6, <1>9, <3>1
    <3>3. Tail(all) \in Digits(u) /\ \A i \in 1 .. u : Tail(all)[i] = all[i + 1]
      BY <1>7, <3>2, TailOfDigits
    <3> HIDE DEF w
    <3> QED BY <3>1, <3>3
  <2>3. CASE D[1] # 0
    <3>1. w = all /\ z = 0 /\ u = c /\ \A i \in 1 .. c : i + 0 = i
      BY <1>3, <1>6, <1>7, <1>9, <2>3
    <3> QED BY <1>7, <3>1
  <2> QED BY <2>2, <2>3
<1>11. w[1] # 0 /\ 1 \in 1 .. u
  <2>1. 1 \in 1 .. u
    BY <1>6, <1>9
  <2>2. w[1] = all[1 + z]
    BY <1>10, <2>1
  <2>3. CASE D[1] = 0
    <3>1. z = 1
      BY <1>3, <2>3
    <3> QED BY <1>5, <1>7, <2>1, <2>2, <2>3, <3>1
  <2>4. CASE D[1] # 0
    <3>1. z = 0
      BY <1>3, <2>4
    <3> QED BY <1>7, <2>1, <2>2, <2>4, <3>1
  <2> QED BY <2>3, <2>4
<1>12. PICK j \in Nat : /\ p \in Digits(j)
                        /\ \A i \in 1 .. j : c + i <= 2 * m /\ p[i] = D[c + i]
                        /\ c + j >= 2 * m - 1 /\ (c + j = 2 * m - 1 => D[2 * m] = 0)
  <2> DEFINE d == SubSeq(D, c + 1, 2 * m)
  <2>1. p = IF d # <<>> /\ Last(d) = 0 THEN Front(d) ELSE d
    <3>1. ~(c < 0)
      BY <1>6
    <3> QED BY <1>4, <3>1 DEF PrintedPart, D
  <2>2. PICK k \in Nat : /\ d \in Digits(k) /\ \A i \in 1 .. k : d[i] = D[c + i]
                         /\ \A i \in 1 .. k : c + i <= 2 * m
                         /\ c + k >= 2 * m /\ (k >= 1 => c + k = 2 * m)
    <3>1. CASE c >= 2 * m
      <4>1. d = <<>>
        BY <1>4, <1>6, <3>1, SubSeqEmpty
      <4>2. d \in Digits(0) /\ \A i \in 1 .. 0 : d[i] = D[c + i]
        <5> HIDE DEF d
        <5> QED BY <4>1 DEF Digits
      <4>3. 0 \in Nat /\ c + 0 >= 2 * m /\ ~(0 >= 1) /\ \A i \in 1 .. 0 : c + i <= 2 * m
        BY <3>1
      <4> HIDE DEF d
      <4> QED BY <4>2, <4>3
    <3>2. CASE ~(c >= 2 * m)
      <4>1. PICK k \in Nat : k = 2 * m - c
        BY <1>6, <3>2
      <4>2. PICK b \in Nat : b = 2 * m
        OBVIOUS
      <4>3. PICK a \in Nat : a = c + 1
        OBVIOUS
      <4>4. c + k <= b /\ b = c + k
        BY <4>1, <4>2
      <4>5. D \in Digits(b)
        BY <1>2, <4>2
      <4>6. d = SubSeq(D, a, b)
        BY <4>2, <4>3
      <4> HIDE DEF d
      <4>7. d \in Digits(k)
        BY <4>3, <4>4, <4>5, <4>6, PartOfDigits
      <4>8. \A i \in 1 .. k : d[i] = D[i + c]
        BY <4>3, <4>4, <4>5, <4>6, PartOfDigits
      <4>9. \A i \in 1 .. k : d[i] = D[c + i] /\ c + i <= 2 * m
        <5>1. \A i \in 1 .. k : c + i = i + c /\ c + i <= 2 * m
          BY <4>1
        <5> QED BY <4>8, <5>1
      <4>10. c + k >= 2 * m /\ (k >= 1 => c + k = 2 * m)
        BY <4>1
      <4> QED BY <4>7, <4>9, <4>10
    <3> QED BY <3>1, <3>2
  <2> HIDE DEF d, p
  <2>3. PICK j \in Nat : /\ j <= k /\ j >= k - 1 /\ (j # k => d[k] = 0)
                         /\ p \in Digits(j) /\ \A i \in 1 .. j : p[i] = d[i]
    BY <2>1, <2>2, LastZeroDropped
  <2>4. \A i \in 1 .. j : c + i <= 2 * m /\ p[i] = D[c + i]
    BY <2>2, <2>3
  <2>5. c + j >= 2 * m - 1
    BY <1>6, <2>2, <2>3
  <2>6. ASSUME c + j = 2 * m - 1 PROVE D[2 * m] = 0
    <3>1. j # k /\ k >= 1 /\ c + k = 2 * m /\ k \in 1 .. k
      BY <1>6, <2>2, <2>3, <2>6
    <3> QED BY <2>2, <2>3, <3>1
  <2> QED BY <2>3, <2>4, <2>5, <2>6
<1> HIDE DEF w, all, p
<1>13. ScannedWhole(t) = w
  <2>1. u - 1 + 1 = u /\ \A i \in Int : i + 1 - 1 = i
    BY <1>9
  <2>2. \A k \in 1 .. 1 - 1 : w[k] = 0
    OBVIOUS
  <2>3. WithoutLeadingZeros(w) = [i \in 1 .. u - 1 + 1 |-> w[i + 1 - 1]]
    BY <1>10, <1>11, <2>2, LeadingZeros
  <2>4. w = [i \in 1 .. u |-> w[i]]
    BY <1>10 DEF Digits
  <2> QED BY <1>8, <2>1, <2>3, <2>4 DEF ScannedWhole
<1>14. Len(w) = u /\ w # <<>> /\ w \in Seq(Digit)
  <2>1. Len(w) = u /\ w \in Seq(Digit)
    BY <1>10, IsSequence DEF Digits
  <2> QED BY <1>6, <1>9, <2>1
<1>15. ScannedPart(t) = p /\ DecimalPoint(t) = u
  BY <1>13, <1>14 DEF ScannedPart, DecimalPoint, p
<1>16. LeadingExponent(t) = 2 * e + 1 - z
  <2>1. LeadingExponent(t) = 0 + u - 1
    BY <1>15 DEF LeadingExponent
  <2> QED BY <1>6, <1>9, <2>1
<1> DEFINE q == w \o p
<1>17. /\ q \in Digits(u + j)
       /\ \A i \in 1 .. u : q[i] = w[i]
       /\ \A i \in 1 .. j : q[u + i] = p[i]
  <2>1. w \in Digits(u) /\ p \in Digits(j)
    BY <1>10, <1>12
  <2>2. w \o p \in Digits(u + j)
    BY <2>1, JoinedDigits
  <2>3. \A i \in 1 .. u : q[i] = w[i]
    BY <2>1, JoinedDigits DEF Digits
  <2>4. \A i \in 1 .. j : q[u + i] = p[i]
    BY <2>1, JoinedDigits DEF Digits
  <2> QED BY <2>2, <2>3, <2>4
<1>18. Aligned(t) = IF z = 1 THEN <<0>> \o q ELSE q
  <2>1. LeadingExponent(t) % 2 = 0 <=> z = 1
    BY <1>6, <1>16
  <2> QED BY <1>13, <1>15, <2>1 DEF Aligned
<1> HIDE DEF q
<1>19. /\ Aligned(t) \in Digits(c + j)
       /\ \A i \in 1 .. c : Aligned(t)[i] = all[i]
       /\ \A i \in 1 .. j : Aligned(t)[c + i] = p[i]
  <2>1. CASE D[1] = 0
    <3>1. z = 1 /\ u = c - 1
      BY <1>3, <1>9, <2>1
    <3> DEFINE a == <<0>> \o q
    <3>2. PICK v \in Nat : v = u + j
      OBVIOUS
    <3>3. q \in Digits(v)
      BY <1>17, <3>2
    <3>4. a \in Digits(v + 1) /\ a[1] = 0 /\ \A i \in 1 .. v : a[i + 1] = q[i]
      BY <3>3, ZeroBefore
    <3>5. Aligned(t) = a /\ v + 1 = c + j
      BY <1>18, <3>1, <3>2
    <3> HIDE DEF a
    <3>6. ASSUME NEW i \in 1 .. c PROVE a[i] = all[i]
      <4>1. CASE i = 1
        BY <1>7, <2>1, <3>4, <4>1
      <4>2. CASE i # 1
        <5>1. i - 1 \in 1 .. v /\ i - 1 + 1 = i /\ i - 1 \in 1 .. u
          BY <1>6, <3>1, <3>2, <4>2
        <5>2. a[i - 1 + 1] = q[i - 1] /\ q[i - 1] = w[i - 1] /\ w[i - 1] = all[i - 1 + 1]
          BY <1>10, <1>17, <3>1, <3>4, <5>1
        <5> QED BY <5>1, <5>2
      <4> QED BY <4>1, <4>2
    <3>7. ASSUME NEW i \in 1 .. j PROVE a[c + i] = p[i]
      <4>1. u + i \in 1 .. v /\ u + i + 1 = c + i
        BY <1>6, <3>1, <3>2
      <4>2. a[u + i + 1] = q[u + i] /\ q[u + i] = p[i]
        BY <1>17, <3>4, <4>1
      <4> QED BY <4>1, <4>2
    <3> QED BY <3>4, <3>5, <3>6, <3>7
  <2>2. CASE D[1] # 0
    <3>1. z = 0 /\ u = c /\ \A i \in Int : i + 0 = i
      BY <1>3, <1>9, <2>2
    <3>2. Aligned(t) = q
      BY <1>18, <3>1
    <3> QED BY <1>10, <1>17, <3>1, <3>2
  <2> QED BY <2>1, <2>2
<1> DEFINE A == Aligned(t)
<1> HIDE DEF A
<1>20. Shows(A, c + j, D, m)
  <2>1. c + j \in Nat /\ c + j >= 2 * m - 1 /\ (c + j = 2 * m - 1 => D[2 * m] = 0)
    BY <1>6, <1>12
  <2>2. A \in Digits(c + j)
    BY <1>19 DEF A
  <2>3. ASSUME NEW i \in 1 .. c + j PROVE A[i] = IF i <= 2 * m THEN D[i] ELSE 0
    <3>1. CASE i \in 1 .. c
      BY <1>19, <3>1 DEF A, all
    <3>2. CASE ~(i \in 1 .. c)
      <4>1. i - c \in 1 .. j /\ c + (i - c) = i
        BY <1>6, <3>2
      <4>2. A[c + (i - c)] = p[i - c] /\ c + (i - c) <= 2 * m /\ p[i - c] = D[c + (i - c)]
        BY <1>12, <1>19, <4>1 DEF A
      <4> QED BY <4>1, <4>2
    <3> QED BY <3>1, <3>2
  <2> QED BY <2>1, <2>2, <2>3 DEF Shows
<1> QED BY <1>16, <1>20 DEF A, D

\* and without.
LEMMA PrintedWithoutWhole ==
  ASSUME NEW n, NEW e \in Int, NEW m \in Nat, NEW cells, Denoted(n, e, m, cells), ~(e >= 0),
         NEW t, t.whole = PrintedWhole(n), t.part = PrintedPart(n), t.exponent = 0,
         NEW g \in Nat, g = -(2 * (e + 1)),
         NEW z \in Nat, z = IF Figure(cells)[1] = 0 THEN 1 ELSE 0
  PROVE  \E k : LeadingExponent(t) = 2 * e + 1 - z /\ Shows(Aligned(t), k, Figure(cells), m)
<1>1. m >= 1 /\ cells \in [1 .. m -> 0 .. 99] /\ cells[1] # 0 /\ Cells(n) = cells /\ Exponent100(n) = e
  BY DEF Denoted
<1> USE <1>1
<1> DEFINE D == Figure(cells)
           p == PrintedPart(n)
           q == WithoutLeadingZeros(p)
<1>2. /\ D \in Digits(2 * m)
      /\ \A i \in 1 .. m : D[2 * i - 1] = cells[i] \div 10 /\ D[2 * i] = cells[i] % 10
  BY FigureFacts
<1>3. (D[1] = 0 /\ z = 1) \/ (D[1] # 0 /\ z = 0)
  OBVIOUS
<1> HIDE DEF D, p, q
<1>4. PICK b \in Nat : b = 2 * m
  OBVIOUS
<1>5. Len(D) = b /\ Len(cells) = m /\ D \in Seq(Digit) /\ D \in Digits(b)
  BY <1>2, <1>4, IsSequence DEF Digits
<1>6. D[1] = 0 => D[2] # 0
  <2>1. 1 \in 1 .. m /\ 2 * 1 - 1 = 1 /\ 2 * 1 = 2
    OBVIOUS
  <2>2. D[1] = cells[1] \div 10 /\ D[2] = cells[1] % 10 /\ cells[1] \in 0 .. 99
    BY <1>2, <2>1
  <2>3. \A x \in 0 .. 99 : x \div 10 = 0 /\ x % 10 = 0 => x = 0
    OBVIOUS
  <2> QED BY <2>2, <2>3
<1>7. PrintedWhole(n) = <<0>>
  <2>1. 2 * (e + 1) <= 0
    OBVIOUS
  <2> QED BY <2>1 DEF PrintedWhole
<1>8. ScannedWhole(t) = <<>>
  <2>1. <<0>> \in Digits(1) /\ \A j \in 1 .. 1 : <<0>>[j] = 0
    BY DEF Digits, Digit
  <2> QED BY <1>7, <2>1, OnlyZeros DEF ScannedWhole
<1> DEFINE d == IF 2 * (e + 1) < 0 THEN Zeros(-(2 * (e + 1))) \o Figure(cells)
                ELSE SubSeq(Figure(cells), 2 * (e + 1) + 1, 2 * Len(cells))
<1>9. p = IF d # <<>> /\ Last(d) = 0 THEN Front(d) ELSE d
  BY DEF PrintedPart, p
<1>10. PICK k \in Nat : k = g + b
  OBVIOUS
<1>11. /\ d \in Digits(k)
       /\ \A i \in 1 .. g : d[i] = 0
       /\ \A i \in 1 .. b : d[g + i] = D[i]
  <2>1. CASE g = 0
    <3>1. d = SubSeq(D, 1, b)
      BY <1>4, <1>5, <2>1 DEF D
    <3>2. SubSeq(D, 1, b) = D
      BY <1>5
    <3>3. k = b /\ \A i \in 1 .. b : g + i = i
      BY <1>10, <2>1
    <3> HIDE DEF d
    <3>4. d = D
      BY <3>1, <3>2
    <3>5. d \in Digits(k)
      BY <1>5, <3>3, <3>4
    <3>6. \A i \in 1 .. g : d[i] = 0
      BY <2>1
    <3>7. \A i \in 1 .. b : d[g + i] = D[i]
      BY <3>3, <3>4
    <3> QED BY <3>5, <3>6, <3>7
  <2>2. CASE g # 0
    <3> DEFINE y == Zeros(g)
    <3>1. d = y \o D
      BY <2>2 DEF D
    <3>2. y \in Digits(g) /\ \A i \in 1 .. g : y[i] = 0
      BY DEF Zeros, Digits, Digit
    <3> HIDE DEF y, d
    <3>3. y \o D \in Digits(g + b)
      BY <1>5, <3>2, JoinedDigits
    <3>4. \A i \in 1 .. g : (y \o D)[i] = y[i]
      BY <1>5, <3>2, JoinedDigits DEF Digits
    <3>5. \A i \in 1 .. b : (y \o D)[g + i] = D[i]
      BY <1>5, <3>2, JoinedDigits DEF Digits
    <3> QED BY <1>10, <3>1, <3>2, <3>3, <3>4, <3>5
  <2> QED BY <2>1, <2>2
<1> HIDE DEF d
<1>12. PICK j \in Nat : /\ j <= k /\ j >= k - 1 /\ (j # k => d[k] = 0)
                        /\ p \in Digits(j) /\ \A i \in 1 .. j : p[i] = d[i]
  BY <1>9, <1>11, LastZeroDropped
<1>13. j # k => D[b] = 0
  <2>1. b \in 1 .. b /\ g + b = k
    BY <1>4, <1>10
  <2> QED BY <1>11, <1>12, <2>1
<1>14. PICK f \in Nat : f = g + z + 1
  OBVIOUS
<1>15. f \in 1 .. j /\ p[f] # 0
  <2>1. CASE D[1] = 0
    <3>1. z = 1 /\ f = g + 2
      BY <1>3, <1>14, <2>1
    <3>2. 2 \in 1 .. b
      BY <1>4
    <3>3. d[f] = D[2] /\ D[2] # 0
      BY <1>6, <1>11, <2>1, <3>1, <3>2
    <3>4. f # k \/ j = k
      BY <1>12, <3>3
    <3>5. f \in 1 .. j
      BY <1>4, <1>10, <1>12, <3>1, <3>4
    <3> QED BY <1>12, <3>3, <3>5
  <2>2. CASE D[1] # 0
    <3>1. z = 0 /\ f = g + 1
      BY <1>3, <1>14, <2>2
    <3>2. 1 \in 1 .. b
      BY <1>4
    <3>3. d[f] = D[1] /\ D[1] # 0
      BY <1>11, <2>2, <3>1, <3>2
    <3>4. f \in 1 .. j
      BY <1>4, <1>10, <1>12, <3>1
    <3> QED BY <1>12, <3>3, <3>4
  <2> QED BY <2>1, <2>2
<1>16. ASSUME NEW i \in 1 .. f - 1 PROVE p[i] = 0
  <2>1. i \in 1 .. j
    BY <1>15
  <2>2. p[i] = d[i]
    BY <1>12, <2>1
  <2>3. CASE i <= g
    BY <1>11, <2>2, <2>3
  <2>4. CASE ~(i <= g)
    <3>1. z = 1 /\ i = g + 1 /\ 1 \in 1 .. b
      BY <1>3, <1>4, <1>14, <2>4
    <3>2. d[i] = D[1] /\ D[1] = 0
      BY <1>3, <1>11, <3>1
    <3> QED BY <2>2, <3>2
  <2> QED BY <2>3, <2>4
<1>17. q = [i \in 1 .. j - f + 1 |-> p[i + f - 1]]
  BY <1>12, <1>15, <1>16, LeadingZeros DEF q
<1>18. PICK l \in Nat : l = j - f + 1
  <2>1. j - f + 1 \in Nat
    BY <1>15
  <2> QED BY <2>1
<1>19. q \in Digits(l) /\ \A i \in 1 .. l : q[i] = p[i + f - 1]
  <2>1. q = [i \in 1 .. l |-> p[i + f - 1]]
    BY <1>17, <1>18
  <2>2. \A i \in 1 .. l : i + f - 1 \in 1 .. j
    BY <1>15, <1>18
  <2>3. \A i \in 1 .. j : p[i] \in Digit
    BY <1>12 DEF Digits
  <2>4. \A i \in 1 .. l : p[i + f - 1] \in Digit
    BY <2>2, <2>3
  <2> QED BY <2>1, <2>4 DEF Digits
<1>20. Len(q) = l /\ Len(p) = j /\ q \in Seq(Digit)
  BY <1>12, <1>19, IsSequence DEF Digits
<1>21. ScannedPart(t) = q /\ DecimalPoint(t) = l - j
  BY <1>8, <1>20 DEF ScannedPart, DecimalPoint, p, q
<1>22. LeadingExponent(t) = 2 * e + 1 - z
  <2>1. LeadingExponent(t) = 0 + (l - j) - 1
    BY <1>21 DEF LeadingExponent
  <2> QED BY <1>14, <1>18, <2>1
<1>23. Aligned(t) = IF z = 1 THEN <<0>> \o q ELSE q
  <2>1. LeadingExponent(t) % 2 = 0 <=> z = 1
    BY <1>3, <1>22
  <2>2. <<>> \o q = q
    BY <1>20, ConcatEmptySeq
  <2> QED BY <1>8, <1>21, <2>1, <2>2 DEF Aligned
<1>24. PICK v \in Nat : v = l + z
  OBVIOUS
<1>25. v = j - g /\ (v = b \/ (v = b - 1 /\ D[b] = 0))
  BY <1>10, <1>12, <1>13, <1>14, <1>18, <1>24
<1>26. ASSUME NEW i \in 1 .. l PROVE q[i] = D[i + z]
  <2>1. i + f - 1 \in 1 .. j /\ i + f - 1 = g + (i + z) /\ i + z \in 1 .. b
    BY <1>14, <1>15, <1>18, <1>24, <1>25
  <2>2. q[i] = p[i + f - 1] /\ p[i + f - 1] = d[i + f - 1] /\ d[g + (i + z)] = D[i + z]
    BY <1>11, <1>12, <1>19, <2>1
  <2> QED BY <2>1, <2>2
<1>27. Aligned(t) \in Digits(v) /\ \A i \in 1 .. v : Aligned(t)[i] = D[i]
  <2>1. CASE D[1] = 0
    <3>1. z = 1 /\ v = l + 1
      BY <1>3, <1>24, <2>1
    <3> DEFINE a == <<0>> \o q
    <3>2. a \in Digits(l + 1) /\ a[1] = 0 /\ \A i \in 1 .. l : a[i + 1] = q[i]
      BY <1>19, ZeroBefore
    <3>3. Aligned(t) = a
      BY <1>23, <3>1
    <3> HIDE DEF a
    <3>4. ASSUME NEW i \in 1 .. v PROVE a[i] = D[i]
      <4>1. CASE i = 1
        BY <2>1, <3>2, <4>1
      <4>2. CASE i # 1
        <5>1. i - 1 \in 1 .. l /\ i - 1 + 1 = i
          BY <3>1, <4>2
        <5>2. a[i - 1 + 1] = q[i - 1] /\ q[i - 1] = D[i - 1 + 1]
          BY <1>26, <3>1, <3>2, <5>1
        <5> QED BY <5>1, <5>2
      <4> QED BY <4>1, <4>2
    <3> QED BY <3>1, <3>2, <3>3, <3>4
  <2>2. CASE D[1] # 0
    <3>1. z = 0 /\ v = l /\ \A i \in 1 .. l : i + 0 = i
      BY <1>3, <1>24, <2>2
    <3>2. Aligned(t) = q
      BY <1>23, <3>1
    <3> QED BY <1>19, <1>26, <3>1, <3>2
  <2> QED BY <2>1, <2>2
<1> DEFINE A == Aligned(t)
<1> HIDE DEF A
<1>28. Shows(A, v, D, m)
  <2>1. v >= 2 * m - 1 /\ v <= 2 * m /\ (v = 2 * m - 1 => D[2 * m] = 0)
    BY <1>4, <1>25
  <2>2. A \in Digits(v)
    BY <1>27 DEF A
  <2>3. \A i \in 1 .. v : A[i] = IF i <= 2 * m THEN D[i] ELSE 0
    BY <1>27, <2>1 DEF A
  <2> QED BY <2>1, <2>2, <2>3 DEF Shows
<1> QED BY <1>22, <1>28 DEF A, D

\* What is left behind leading zeros starts with another digit.
LEMMA LeadingKept ==
  ASSUME NEW n \in Nat, NEW s \in Digits(n), WithoutLeadingZeros(s) # <<>>
  PROVE  \E k \in Nat : k >= 1 /\ WithoutLeadingZeros(s) \in Digits(k) /\ WithoutLeadingZeros(s)[1] # 0
<1>1. ~(\A j \in 1 .. n : s[j] = 0)
  BY OnlyZeros
<1>2. PICK f \in 1 .. n : s[f] # 0 /\ \A j \in 1 .. f - 1 : s[j] = 0
  BY <1>1, FirstDigit
<1>3. WithoutLeadingZeros(s) = [i \in 1 .. n - f + 1 |-> s[i + f - 1]]
  BY <1>2, LeadingZeros
<1>4. PICK k \in Nat : k = n - f + 1
  <2>1. n - f + 1 \in Nat
    OBVIOUS
  <2> QED BY <2>1
<1>5. \A i \in 1 .. k : i + f - 1 \in 1 .. n
  BY <1>4
<1>6. \A i \in 1 .. n : s[i] \in Digit
  BY DEF Digits
<1>7. \A i \in 1 .. k : s[i + f - 1] \in Digit
  BY <1>5, <1>6
<1>8. k >= 1 /\ 1 \in 1 .. k /\ 1 + f - 1 = f
  BY <1>4
<1> DEFINE w == [i \in 1 .. k |-> s[i + f - 1]]
<1>9. WithoutLeadingZeros(s) = w
  BY <1>3, <1>4
<1>10. w \in Digits(k) /\ w[1] # 0
  BY <1>2, <1>7, <1>8 DEF Digits
<1> HIDE DEF w
<1> QED BY <1>8, <1>9, <1>10

\* The digits that are converted are all zeros, or start with the first pair.
LEMMA AlignedShape ==
  ASSUME NEW t, t.whole \in Seq(0 .. 9), t.part \in Seq(0 .. 9), t.exponent \in Int
  PROVE  /\ LeadingExponent(t) \in Int
         /\ \E n \in Nat :
              /\ Aligned(t) \in Digits(n)
              /\ \/ \A i \in 1 .. n : Aligned(t)[i] = 0
                 \/ LeadingExponent(t) % 2 = 1 /\ n >= 1 /\ Aligned(t)[1] # 0
                 \/ /\ LeadingExponent(t) % 2 = 0 /\ n >= 2
                    /\ Aligned(t)[1] = 0 /\ Aligned(t)[2] # 0
<1> DEFINE w == ScannedWhole(t)
           p == ScannedPart(t)
           q == w \o p
<1>1. PICK a \in Nat : a = Len(t.whole) /\ t.whole \in Digits(a)
  BY DEF Digits, Digit
<1>2. PICK b \in Nat : b = Len(t.part) /\ t.part \in Digits(b)
  BY DEF Digits, Digit
<1>3. PICK k \in Nat : w \in Digits(k) /\ (k >= 1 => w[1] # 0) /\ (k = 0 <=> w = <<>>)
  <2>1. CASE w = <<>>
    <3>1. w \in Digits(0)
      BY <2>1 DEF Digits
    <3> QED BY <2>1, <3>1
  <2>2. CASE w # <<>>
    <3>1. PICK k \in Nat : k >= 1 /\ w \in Digits(k) /\ w[1] # 0
      BY <1>1, <2>2, LeadingKept DEF ScannedWhole
    <3> QED BY <2>2, <3>1
  <2> QED BY <2>1, <2>2
<1>4. PICK l \in Nat : p \in Digits(l) /\ (k = 0 /\ l >= 1 => p[1] # 0)
  <2>1. CASE w = <<>>
    <3>1. p = WithoutLeadingZeros(t.part)
      BY <2>1 DEF ScannedPart
    <3>2. CASE p = <<>>
      <4>1. p \in Digits(0)
        BY <3>2 DEF Digits
      <4> QED BY <4>1
    <3>3. CASE p # <<>>
      <4>1. PICK l \in Nat : l >= 1 /\ p \in Digits(l) /\ p[1] # 0
        BY <1>2, <3>1, <3>3, LeadingKept
      <4> QED BY <4>1
    <3> QED BY <3>2, <3>3
  <2>2. CASE w # <<>>
    <3>1. p = t.part /\ k # 0
      BY <1>3, <2>2 DEF ScannedPart
    <3> QED BY <1>2, <3>1
  <2> QED BY <2>1, <2>2
<1> HIDE DEF w, p, q
<1>5. LeadingExponent(t) \in Int
  <2>1. Len(w) = k /\ Len(p) = l
    BY <1>3, <1>4, IsSequence DEF Digits
  <2>2. DecimalPoint(t) = IF w = <<>> THEN l - b ELSE k
    BY <1>2, <2>1 DEF DecimalPoint, w, p
  <2>3. DecimalPoint(t) \in Int
    BY <2>2
  <2> QED BY <2>3 DEF LeadingExponent
<1>6. PICK c \in Nat : c = k + l
  OBVIOUS
<1>7. q \in Digits(c) /\ (c >= 1 => q[1] # 0)
  <2>1. q \in Digits(k + l)
    BY <1>3, <1>4, JoinedDigits DEF q
  <2>2. \A i \in 1 .. k : q[i] = w[i]
    BY <1>3, <1>4, JoinedDigits DEF q
  <2>3. \A i \in 1 .. l : q[k + i] = p[i]
    BY <1>3, <1>4, JoinedDigits DEF q
  <2>4. CASE k = 0
    <3>1. c >= 1 => 1 \in 1 .. l /\ k + 1 = 1
      BY <1>6, <2>4
    <3> QED BY <1>4, <1>6, <2>1, <2>3, <2>4, <3>1
  <2>5. CASE k # 0
    <3>1. 1 \in 1 .. k
      BY <2>5
    <3> QED BY <1>3, <1>6, <2>1, <2>2, <3>1
  <2> QED BY <2>4, <2>5
<1>8. Aligned(t) = IF LeadingExponent(t) % 2 = 0 THEN <<0>> \o q ELSE q
  BY DEF Aligned, q, w, p
<1>9. CASE LeadingExponent(t) % 2 = 0
  <2> DEFINE d == <<0>> \o q
  <2>1. d \in Digits(c + 1) /\ d[1] = 0 /\ \A i \in 1 .. c : d[i + 1] = q[i]
    BY <1>7, ZeroBefore
  <2>2. Aligned(t) = d
    BY <1>8, <1>9
  <2> HIDE DEF d
  <2>3. CASE c = 0
    <3>1. \A i \in 1 .. c + 1 : d[i] = 0
      BY <2>1, <2>3
    <3> QED BY <1>5, <2>1, <2>2, <3>1
  <2>4. CASE c # 0
    <3>1. c + 1 >= 2 /\ 1 \in 1 .. c /\ 1 + 1 = 2
      BY <2>4
    <3>2. d[2] # 0
      BY <1>7, <2>1, <3>1
    <3> QED BY <1>5, <1>9, <2>1, <2>2, <3>1, <3>2
  <2> QED BY <2>3, <2>4
<1>10. CASE LeadingExponent(t) % 2 # 0
  <2>1. LeadingExponent(t) % 2 = 1
    BY <1>5, <1>10
  <2>2. Aligned(t) = q
    BY <1>8, <1>10
  <2>3. CASE c = 0
    BY <1>5, <1>7, <2>2, <2>3
  <2>4. CASE c # 0
    BY <1>5, <1>7, <2>1, <2>2, <2>4
  <2> QED BY <2>3, <2>4
<1> QED BY <1>9, <1>10

\* Rounding leaves the digits as they are, carries into a new first pair, or
\* carries up to the last digit that is no 9.
LEMMA RoundedShape ==
  ASSUME NEW n \in Nat, NEW s \in Digits(n)
  PROVE  \E k \in Nat :
           /\ k <= Figures /\ Rounded(s)[1] \in Digits(k)
           /\ \/ /\ Rounded(s)[2] = 0 /\ (k = n \/ k = Figures) /\ k <= n
                 /\ \A i \in 1 .. k : Rounded(s)[1][i] = s[i]
              \/ Rounded(s)[2] = 1 /\ n >= 1 /\ s[1] = 9 /\ k = 2 /\ Rounded(s)[1] = <<0, 1>>
              \/ /\ Rounded(s)[2] = 0 /\ k = Figures /\ k < n /\ s[k + 1] # 0
                 /\ \E last \in 1 .. k :
                      /\ \A i \in 1 .. last - 1 : Rounded(s)[1][i] = s[i]
                      /\ Rounded(s)[1][last] = s[last] + 1
<1>1. Len(s) = n /\ \A i \in 1 .. n : s[i] \in Digit
  BY IsSequence DEF Digits
<1>2. Figures \in Nat /\ Figures >= 2
  BY RoomFacts
<1> DEFINE kept == SubSeq(s, 1, Figures)
           notNine == {i \in DOMAIN kept : kept[i] # 9}
           last == CHOOSE i \in notNine : \A j \in notNine : j <= i
           up == [i \in DOMAIN kept |-> IF i < last THEN kept[i]
                                        ELSE IF i = last THEN kept[i] + 1 ELSE 0]
<1>3. CASE n <= Figures
  <2>1. Rounded(s) = <<s, 0>>
    BY <1>1, <1>3 DEF Rounded
  <2>2. Rounded(s)[1] = s /\ Rounded(s)[2] = 0
    BY <2>1
  <2> QED BY <1>3, <2>2
<1>4. CASE ~(n <= Figures)
  <2>1. Figures < n
    BY <1>2, <1>4
  <2>2. kept \in Digits(Figures) /\ \A i \in 1 .. Figures : kept[i] = s[i]
    <3>1. kept \in Digits(Figures)
      BY <1>2, <2>1, PartOfDigits
    <3>2. \A i \in 1 .. Figures : kept[i] = s[i + 0]
      BY <1>2, <2>1, PartOfDigits
    <3>3. \A i \in 1 .. Figures : i + 0 = i
      BY <1>2
    <3> HIDE DEF kept
    <3> QED BY <3>1, <3>2, <3>3
  <2>3. DOMAIN kept = 1 .. Figures
    <3> HIDE DEF kept
    <3> QED BY <2>2 DEF Digits
  <2>4. Rounded(s) = IF s[Figures + 1] < 5 THEN <<kept, 0>>
                     ELSE IF notNine = {} THEN <<<<0, 1>>, 1>> ELSE <<up, 0>>
    <3>1. ~(Len(s) <= Figures)
      BY <1>1, <1>4
    <3> QED BY <3>1, Zenon DEF Rounded
  <2>5. CASE s[Figures + 1] < 5
    <3>1. Rounded(s) = <<kept, 0>>
      BY <2>5, <2>4
    <3> HIDE DEF kept
    <3>2. Rounded(s)[1] = kept /\ Rounded(s)[2] = 0
      BY <3>1
    <3> QED BY <1>2, <2>1, <2>2, <3>2
  <2>6. CASE ~(s[Figures + 1] < 5) /\ notNine = {}
    <3>1. Rounded(s) = <<<<0, 1>>, 1>>
      BY <2>6, <2>4
    <3>2. Rounded(s)[1] = <<0, 1>> /\ Rounded(s)[2] = 1
      BY <3>1
    <3>3. <<0, 1>> \in Digits(2)
      BY DEF Digits, Digit
    <3>4. s[1] = 9
      <4>1. 1 \in 1 .. Figures
        BY <1>2
      <4>2. kept[1] = 9
        BY <2>3, <2>6, <4>1
      <4> HIDE DEF kept
      <4> QED BY <2>2, <4>1, <4>2
    <3> QED BY <1>2, <2>1, <3>2, <3>3, <3>4
  <2>7. CASE ~(s[Figures + 1] < 5) /\ notNine # {}
    <3>1. Rounded(s) = <<up, 0>>
      BY <2>7, <2>4
    <3>2. notNine \subseteq 1 .. Figures
      BY <2>3
    <3>3. \A i \in notNine : kept[i] # 9
      OBVIOUS
    <3>4. s[Figures + 1] # 0
      BY <2>7
    <3> HIDE DEF kept, notNine
    <3>5. PICK m \in notNine : \A j \in notNine : j <= m
      <4> DEFINE T == {Figures - i : i \in notNine}
      <4>1. T \subseteq Nat /\ T # {}
        <5>1. \A i \in notNine : i \in Nat /\ Figures - i \in Nat
          BY <1>2, <3>2
        <5> QED BY <2>7, <5>1
      <4>2. PICK x \in T : \A y \in T : x <= y
        <5> HIDE DEF T
        <5> QED BY <4>1, LeastNumber
      <4>3. PICK m \in notNine : x = Figures - m
        OBVIOUS
      <4>4. ASSUME NEW j \in notNine PROVE j <= m
        <5>1. x <= Figures - j
          BY <4>2
        <5> QED BY <1>2, <3>2, <4>3, <5>1
      <4> QED BY <4>4
    <3>6. last \in notNine
      BY <3>5
    <3>7. PICK l \in 1 .. Figures : l = last /\ kept[l] # 9
      BY <3>2, <3>3, <3>6
    <3>8. up = [i \in 1 .. Figures |-> IF i < l THEN kept[i] ELSE IF i = l THEN kept[i] + 1 ELSE 0]
      BY <2>3, <3>7
    <3> HIDE DEF up
    <3>9. (\A i \in 1 .. l - 1 : up[i] = kept[i]) /\ up[l] = kept[l] + 1
      <4>1. \A i \in 1 .. l - 1 : i \in 1 .. Figures /\ i < l
        BY <1>2
      <4> QED BY <3>8, <4>1
    <3>10. up \in Digits(Figures)
      <4>1. ASSUME NEW i \in 1 .. Figures PROVE up[i] \in Digit
        <5>1. kept[i] \in Digit
          BY <2>2 DEF Digits
        <5>2. CASE i < l
          BY <3>8, <5>1, <5>2
        <5>3. CASE i = l
          <6>1. up[i] = kept[i] + 1 /\ kept[i] # 9
            BY <3>7, <3>8, <5>3
          <6>2. \A x \in Digit : x # 9 => x + 1 \in Digit
            BY DEF Digit
          <6> QED BY <5>1, <6>1, <6>2
        <5>4. CASE ~(i < l) /\ i # l
          <6>1. up[i] = 0
            BY <3>8, <5>4
          <6> QED BY <6>1 DEF Digit
        <5> QED BY <5>2, <5>3, <5>4
      <4>2. up = [i \in 1 .. Figures |-> up[i]]
        BY <3>8
      <4> QED BY <4>1, <4>2 DEF Digits
    <3>11. Rounded(s)[1] = up /\ Rounded(s)[2] = 0
      BY <3>1
    <3>12. /\ \A i \in 1 .. l - 1 : up[i] = s[i]
           /\ up[l] = s[l] + 1
      <4>1. \A i \in 1 .. l - 1 : i \in 1 .. Figures
        BY <1>2
      <4> QED BY <2>2, <3>9, <4>1
    <3>13. \E x \in 1 .. Figures : /\ \A i \in 1 .. x - 1 : Rounded(s)[1][i] = s[i]
                                  /\ Rounded(s)[1][x] = s[x] + 1
      BY <3>11, <3>12
    <3> QED BY <1>2, <2>1, <3>4, <3>10, <3>11, <3>13
  <2> QED BY <2>5, <2>6, <2>7
<1> QED BY <1>3, <1>4

\* So its first pair is no 00, and starts with 0 only at an even exponent.
LEMMA RoundedFirst ==
  ASSUME NEW t, t.whole \in Seq(0 .. 9), t.part \in Seq(0 .. 9), t.exponent \in Int,
         NEW r, r = Rounded(Aligned(t))
  PROVE  /\ LeadingExponent(t) + r[2] \in Int
         /\ \E k \in Nat :
              /\ k <= Figures /\ r[1] \in Digits(k)
              /\ \/ \A i \in 1 .. k : r[1][i] = 0
                 \/ k >= 1 /\ r[1][1] # 0
                 \/ /\ k >= 2 /\ r[1][1] = 0 /\ r[1][2] # 0
                    /\ (LeadingExponent(t) + r[2]) % 2 = 0
<1> DEFINE s == Aligned(t)
           v == LeadingExponent(t)
<1> HIDE DEF s, v
<1>1. v \in Int
  BY AlignedShape DEF v
<1>2. PICK n \in Nat :
        /\ s \in Digits(n)
        /\ \/ \A i \in 1 .. n : s[i] = 0
           \/ v % 2 = 1 /\ n >= 1 /\ s[1] # 0
           \/ v % 2 = 0 /\ n >= 2 /\ s[1] = 0 /\ s[2] # 0
  BY AlignedShape DEF s, v
<1>3. Figures \in Nat /\ Figures >= 2 /\ \A i \in 1 .. n : s[i] \in Digit
  BY <1>2, RoomFacts DEF Digits
<1>4. PICK k \in Nat :
        /\ k <= Figures /\ r[1] \in Digits(k)
        /\ \/ r[2] = 0 /\ (k = n \/ k = Figures) /\ k <= n /\ \A i \in 1 .. k : r[1][i] = s[i]
           \/ r[2] = 1 /\ n >= 1 /\ s[1] = 9 /\ k = 2 /\ r[1] = <<0, 1>>
           \/ /\ r[2] = 0 /\ k = Figures /\ k < n /\ s[k + 1] # 0
              /\ \E last \in 1 .. k : /\ \A i \in 1 .. last - 1 : r[1][i] = s[i]
                                      /\ r[1][last] = s[last] + 1
  BY <1>2, RoundedShape DEF s
<1>5. v + r[2] \in Int
  BY <1>1, <1>4
<1>6. CASE r[2] = 0 /\ (k = n \/ k = Figures) /\ k <= n /\ \A i \in 1 .. k : r[1][i] = s[i]
  <2>1. CASE \A i \in 1 .. n : s[i] = 0
    <3>1. \A i \in 1 .. k : i \in 1 .. n
      BY <1>6
    <3>2. \A i \in 1 .. k : r[1][i] = 0
      BY <1>6, <2>1, <3>1
    <3> QED BY <1>4, <1>5, <3>2 DEF v
  <2>2. CASE n >= 1 /\ s[1] # 0
    <3>1. k >= 1 /\ 1 \in 1 .. k
      BY <1>3, <1>6, <2>2
    <3> QED BY <1>4, <1>5, <1>6, <2>2, <3>1 DEF v
  <2>3. CASE v % 2 = 0 /\ n >= 2 /\ s[1] = 0 /\ s[2] # 0
    <3>1. k >= 2 /\ 1 \in 1 .. k /\ 2 \in 1 .. k /\ v + r[2] = v
      BY <1>1, <1>3, <1>6, <2>3
    <3> QED BY <1>4, <1>5, <1>6, <2>3, <3>1 DEF v
  <2> QED BY <1>2, <2>1, <2>2, <2>3
<1>7. CASE r[2] = 1 /\ n >= 1 /\ s[1] = 9 /\ k = 2 /\ r[1] = <<0, 1>>
  <2>1. v % 2 = 1
    <3>1. 1 \in 1 .. n /\ s[1] # 0
      BY <1>7
    <3> QED BY <1>2, <3>1
  <2>2. (v + 1) % 2 = 0
    BY <1>1, <2>1
  <2>3. k >= 2 /\ r[1][1] = 0 /\ r[1][2] # 0 /\ v + r[2] = v + 1
    BY <1>7
  <2> QED BY <1>4, <1>5, <2>2, <2>3 DEF v
<1>8. CASE /\ r[2] = 0 /\ k = Figures /\ k < n /\ s[k + 1] # 0
           /\ \E last \in 1 .. k : /\ \A i \in 1 .. last - 1 : r[1][i] = s[i]
                                   /\ r[1][last] = s[last] + 1
  <2>1. PICK last \in 1 .. k : (\A i \in 1 .. last - 1 : r[1][i] = s[i]) /\ r[1][last] = s[last] + 1
    BY <1>8
  <2>2. k >= 2 /\ 1 \in 1 .. n /\ 2 \in 1 .. n /\ k + 1 \in 1 .. n /\ last \in 1 .. n
    BY <1>3, <1>8
  <2>3. r[1][last] # 0
    <3>1. \A x \in Digit : x + 1 # 0
      BY DEF Digit
    <3> QED BY <1>3, <2>1, <2>2, <3>1
  <2>4. ~(\A i \in 1 .. n : s[i] = 0)
    BY <1>8, <2>2
  <2>5. CASE last = 1
    BY <1>4, <1>5, <2>2, <2>3, <2>5 DEF v
  <2>6. CASE last # 1
    <3>1. 1 \in 1 .. last - 1
      BY <2>6
    <3>2. r[1][1] = s[1]
      BY <2>1, <3>1
    <3>3. CASE s[1] # 0
      BY <1>4, <1>5, <2>2, <3>2, <3>3 DEF v
    <3>4. CASE s[1] = 0
      <4>1. v % 2 = 0 /\ s[2] # 0
        BY <1>2, <2>4, <3>4
      <4>2. r[1][2] # 0
        <5>1. CASE last = 2
          BY <2>3, <5>1
        <5>2. CASE last # 2
          <6>1. 2 \in 1 .. last - 1
            BY <2>6, <5>2
          <6> QED BY <2>1, <4>1, <6>1
        <5> QED BY <5>1, <5>2
      <4>3. v + r[2] = v
        BY <1>1, <1>8
      <4> QED BY <1>4, <1>5, <2>2, <3>2, <3>4, <4>1, <4>2, <4>3 DEF v
    <3> QED BY <3>3, <3>4
  <2> QED BY <2>5, <2>6
<1> QED BY <1>4, <1>6, <1>7, <1>8

\* The pairs of digits that end with another one than 0
LEMMA PairedShape ==
  ASSUME NEW l \in Nat, l >= 1, NEW s \in Digits(l), s[l] # 0
  PROVE  \E m \in Nat : /\ m >= 1 /\ 2 * m <= l + 1
                        /\ Paired(s) \in [1 .. m -> 0 .. 99] /\ Paired(s)[m] # 0
                        /\ Paired(s)[1] < 10 <=> s[1] = 0
                        /\ l >= 2 /\ s[2] # 0 => Paired(s)[1] # 0
                        /\ s[1] # 0 => Paired(s)[1] # 0
<1> DEFINE even == IF Len(s) % 2 = 1 THEN Append(s, 0) ELSE s
<1>1. Len(s) = l /\ s \in Seq(Digit) /\ \A i \in 1 .. l : s[i] \in Digit
  BY IsSequence DEF Digits
<1>2. PICK m \in Nat : /\ Len(even) = 2 * m /\ (2 * m = l \/ 2 * m = l + 1)
                       /\ \A i \in 1 .. 2 * m : even[i] \in Digit
                       /\ \A i \in 1 .. l : even[i] = s[i]
  <2>1. CASE l % 2 = 1
    <3>1. even = Append(s, 0)
      BY <1>1, <2>1
    <3> HIDE DEF even
    <3>2. Len(even) = l + 1 /\ even[l + 1] = 0 /\ \A i \in 1 .. l : even[i] = s[i]
      BY <1>1, <3>1, AppendProperties
    <3>3. PICK m \in Nat : 2 * m = l + 1
      <4>1. (l + 1) \div 2 \in Nat /\ 2 * ((l + 1) \div 2) = l + 1
        BY <2>1
      <4> QED BY <4>1
    <3>4. ASSUME NEW i \in 1 .. 2 * m PROVE even[i] \in Digit
      <4>1. CASE i = l + 1
        BY <3>2, <4>1 DEF Digit
      <4>2. CASE i # l + 1
        <5>1. i \in 1 .. l
          BY <3>3, <4>2
        <5> QED BY <1>1, <3>2, <5>1
      <4> QED BY <4>1, <4>2
    <3> QED BY <3>2, <3>3, <3>4
  <2>2. CASE l % 2 # 1
    <3>1. even = s
      BY <1>1, <2>2
    <3> HIDE DEF even
    <3>2. PICK m \in Nat : 2 * m = l
      <4>1. l \div 2 \in Nat /\ 2 * (l \div 2) = l
        BY <2>2
      <4> QED BY <4>1
    <3> QED BY <1>1, <3>1, <3>2
  <2> QED BY <2>1, <2>2
<1>3. Paired(s) = [i \in 1 .. Len(even) \div 2 |-> even[2 * i - 1] * 10 + even[2 * i]]
  BY DEF Paired
<1> HIDE DEF even
<1>4. m >= 1 /\ Len(even) \div 2 = m
  BY <1>2
<1> DEFINE c == [i \in 1 .. m |-> even[2 * i - 1] * 10 + even[2 * i]]
<1>5. Paired(s) = c
  BY <1>3, <1>4
<1>6. \A x, y \in Digit : /\ x * 10 + y \in 0 .. 99
                          /\ x * 10 + y < 10 <=> x = 0
                          /\ x * 10 + y = 0 => x = 0 /\ y = 0
  BY DEF Digit
<1>7. ASSUME NEW i \in 1 .. m
      PROVE  /\ c[i] \in 0 .. 99
             /\ c[i] < 10 <=> even[2 * i - 1] = 0
             /\ c[i] = 0 => even[2 * i - 1] = 0 /\ even[2 * i] = 0
  <2>1. 2 * i - 1 \in 1 .. 2 * m /\ 2 * i \in 1 .. 2 * m
    OBVIOUS
  <2>2. even[2 * i - 1] \in Digit /\ even[2 * i] \in Digit
    BY <1>2, <2>1
  <2> DEFINE x == even[2 * i - 1]
             y == even[2 * i]
  <2>3. c[i] = x * 10 + y
    OBVIOUS
  <2>4. x \in Digit /\ y \in Digit
    BY <2>2
  <2> HIDE DEF x, y, c
  <2>5. c[i] \in 0 .. 99 /\ (c[i] < 10 <=> x = 0) /\ (c[i] = 0 => x = 0 /\ y = 0)
    BY <1>6, <2>3, <2>4
  <2> QED BY <2>5 DEF x, y
<1>8. c \in [1 .. m -> 0 .. 99]
  <2>1. c = [i \in 1 .. m |-> c[i]]
    OBVIOUS
  <2> HIDE DEF c
  <2> QED BY <1>7, <2>1
<1> HIDE DEF c
<1>9. c[m] # 0
  <2>1. m \in 1 .. m /\ l \in 1 .. l
    BY <1>4
  <2>2. even[l] # 0 /\ (l = 2 * m \/ l = 2 * m - 1)
    BY <1>2, <2>1
  <2> QED BY <1>7, <2>1, <2>2
<1>10. 1 \in 1 .. m /\ 1 \in 1 .. l /\ 2 * 1 - 1 = 1 /\ 2 * 1 = 2
  BY <1>4
<1>11. (c[1] < 10 <=> even[1] = 0) /\ (c[1] = 0 => even[1] = 0 /\ even[2] = 0)
  BY <1>7, <1>10
<1>12. even[1] = s[1] /\ (l >= 2 => even[2] = s[2])
  BY <1>2, <1>10
<1> QED BY <1>2, <1>4, <1>5, <1>8, <1>9, <1>11, <1>12

\* A NUMBER that is neither zero nor infinite: its first and its last digit are
\* no zeros, and its first figure has an exponent within the limits.
IsEncoded(n) ==
  \E negative \in BOOLEAN, e \in Int, m \in 1 .. Room100 : \E cells \in [1 .. m -> 0 .. 99], z \in {0, 1} :
    /\ n = Encoded(negative, e, cells)
    /\ cells[1] # 0 /\ cells[m] # 0
    /\ z = IF cells[1] < 10 THEN 1 ELSE 0
    /\ MinExponent <= 2 * e + 1 - z /\ 2 * e + 1 - z <= MaxExponent

\* oranumber_from_str makes such NUMBERs.
LEMMA ConvertedShape ==
  ASSUME NEW t, t.negative \in BOOLEAN, t.whole \in Seq(0 .. 9), t.part \in Seq(0 .. 9), t.exponent \in Int
  PROVE  FromDecimal(t) = Zero \/ FromDecimal(t) = NumericOverflow \/ IsEncoded(FromDecimal(t))
<1> DEFINE r == Rounded(Aligned(t))
           x == LeadingExponent(t) + r[2]
           f == WithoutTrailingZeros(r[1])
<1>1. FromDecimal(t) = IF f = <<>> \/ x < MinExponent THEN Zero
                       ELSE IF x > MaxExponent THEN NumericOverflow
                       ELSE Encoded(t.negative, x \div 2, Paired(f))
  BY DEF FromDecimal
<1>2. /\ x \in Int
      /\ \E k \in Nat :
           /\ k <= Figures /\ r[1] \in Digits(k)
           /\ \/ \A i \in 1 .. k : r[1][i] = 0
              \/ k >= 1 /\ r[1][1] # 0
              \/ k >= 2 /\ r[1][1] = 0 /\ r[1][2] # 0 /\ x % 2 = 0
  BY RoundedFirst
<1> HIDE DEF r, x, f
<1>3. PICK k \in Nat :
        /\ k <= Figures /\ r[1] \in Digits(k)
        /\ \/ \A i \in 1 .. k : r[1][i] = 0
           \/ k >= 1 /\ r[1][1] # 0
           \/ k >= 2 /\ r[1][1] = 0 /\ r[1][2] # 0 /\ x % 2 = 0
  BY <1>2
<1> SUFFICES ASSUME f # <<>>, x >= MinExponent, x <= MaxExponent
             PROVE  IsEncoded(Encoded(t.negative, x \div 2, Paired(f)))
  BY <1>1, <1>2, FiguresAssumption
<1>4. ~(\A i \in 1 .. k : r[1][i] = 0)
  BY <1>3, OnlyTrailingZeros DEF f
<1>5. PICK l \in 1 .. k : r[1][l] # 0 /\ \A j \in l + 1 .. k : r[1][j] = 0
  BY <1>3, <1>4, LastDigit
<1>6. f = [i \in 1 .. l |-> r[1][i]]
  BY <1>3, <1>5, TrailingZeros DEF f
<1>7. f \in Digits(l) /\ \A i \in 1 .. l : f[i] = r[1][i]
  <2>1. \A i \in 1 .. l : i \in 1 .. k
    OBVIOUS
  <2>2. \A i \in 1 .. k : r[1][i] \in Digit
    BY <1>3 DEF Digits
  <2> QED BY <1>6, <2>1, <2>2 DEF Digits
<1>8. l \in Nat /\ l >= 1 /\ f[l] # 0 /\ f[1] = r[1][1] /\ (l >= 2 => f[2] = r[1][2])
  <2>1. l \in Nat /\ l >= 1 /\ 1 \in 1 .. l /\ l \in 1 .. l /\ (l >= 2 => 2 \in 1 .. l)
    OBVIOUS
  <2> QED BY <1>5, <1>7, <2>1
<1>9. f[1] # 0 \/ (f[1] = 0 /\ l >= 2 /\ f[2] # 0 /\ x % 2 = 0)
  <2>1. CASE r[1][1] # 0
    BY <1>8, <2>1
  <2>2. CASE r[1][1] = 0
    <3>1. k >= 2 /\ r[1][2] # 0 /\ x % 2 = 0
      BY <1>3, <1>4, <2>2
    <3>2. l # 1
      BY <1>5, <2>2
    <3>3. l >= 2
      BY <1>8, <3>2
    <3> QED BY <1>8, <2>2, <3>1, <3>3
  <2> QED BY <2>1, <2>2
<1>10. PICK m \in Nat : /\ m >= 1 /\ 2 * m <= l + 1
                        /\ Paired(f) \in [1 .. m -> 0 .. 99] /\ Paired(f)[m] # 0
                        /\ Paired(f)[1] < 10 <=> f[1] = 0
                        /\ l >= 2 /\ f[2] # 0 => Paired(f)[1] # 0
                        /\ f[1] # 0 => Paired(f)[1] # 0
  BY <1>7, <1>8, PairedShape
<1> DEFINE cells == Paired(f)
<1>11. cells \in [1 .. m -> 0 .. 99] /\ cells[1] # 0 /\ cells[m] # 0 /\ (cells[1] < 10 <=> f[1] = 0)
  BY <1>9, <1>10
<1> HIDE DEF cells
<1>12. m \in 1 .. Room100
  BY <1>3, <1>10, RoomFacts
<1>13. PICK e \in Int : e = x \div 2
  BY <1>2
<1>14. PICK z \in {0, 1} : z = IF cells[1] < 10 THEN 1 ELSE 0
  OBVIOUS
<1>15. MinExponent <= 2 * e + 1 - z /\ 2 * e + 1 - z <= MaxExponent
  <2>1. MinExponent \in Int /\ MaxExponent \in Int /\ MaxExponent % 2 = 1
    BY FiguresAssumption
  <2>2. CASE f[1] # 0
    <3>1. z = 0
      BY <1>11, <1>14, <2>2
    <3>2. 2 * e = x \/ 2 * e + 1 = x
      BY <1>2, <1>13
    <3>3. CASE 2 * e + 1 = x
      BY <2>1, <3>1, <3>3
    <3>4. CASE 2 * e = x
      <4>1. 2 * e # MaxExponent
        BY <2>1
      <4> QED BY <2>1, <3>1, <3>4, <4>1
    <3> QED BY <3>2, <3>3, <3>4
  <2>3. CASE f[1] = 0
    <3>1. z = 1
      BY <1>11, <1>14, <2>3
    <3>2. x % 2 = 0
      BY <1>9, <2>3
    <3>3. 2 * e = x
      BY <1>2, <1>13, <3>2
    <3> QED BY <2>1, <3>1, <3>3
  <2> QED BY <2>2, <2>3
<1>16. Encoded(t.negative, x \div 2, Paired(f)) = Encoded(t.negative, e, cells)
  BY <1>13 DEF cells
<1> DEFINE n == Encoded(t.negative, x \div 2, Paired(f))
<1> HIDE DEF n
<1>17. /\ n = Encoded(t.negative, e, cells)
       /\ cells[1] # 0 /\ cells[m] # 0
       /\ z = IF cells[1] < 10 THEN 1 ELSE 0
       /\ MinExponent <= 2 * e + 1 - z /\ 2 * e + 1 - z <= MaxExponent
  BY <1>11, <1>14, <1>15, <1>16 DEF n
<1>18. \E c \in [1 .. m -> 0 .. 99], y \in {0, 1} :
         /\ n = Encoded(t.negative, e, c)
         /\ c[1] # 0 /\ c[m] # 0
         /\ y = IF c[1] < 10 THEN 1 ELSE 0
         /\ MinExponent <= 2 * e + 1 - y /\ 2 * e + 1 - y <= MaxExponent
  BY <1>11, <1>17
<1> QED BY <1>12, <1>18 DEF IsEncoded, n

\* What is printed of such a NUMBER is read as that NUMBER.
LEMMA EncodedReads ==
  ASSUME NEW n, IsEncoded(n)
  PROVE  /\ FromText(ToText(n)) = n
         /\ n \notin {NotConverted, InvalidNumber, NumericOverflow, Zero, Infinity, MinusInfinity}
         /\ n \in Seq(Int) /\ Len(n) <= 1 + Room100
<1>1. PICK negative \in BOOLEAN, e \in Int, m \in 1 .. Room100 : \E cells \in [1 .. m -> 0 .. 99], z \in {0, 1} :
        /\ n = Encoded(negative, e, cells)
        /\ cells[1] # 0 /\ cells[m] # 0
        /\ z = IF cells[1] < 10 THEN 1 ELSE 0
        /\ MinExponent <= 2 * e + 1 - z /\ 2 * e + 1 - z <= MaxExponent
  BY DEF IsEncoded
<1>2. PICK cells \in [1 .. m -> 0 .. 99], z \in {0, 1} :
        /\ n = Encoded(negative, e, cells)
        /\ cells[1] # 0 /\ cells[m] # 0
        /\ z = IF cells[1] < 10 THEN 1 ELSE 0
        /\ MinExponent <= 2 * e + 1 - z /\ 2 * e + 1 - z <= MaxExponent
  BY <1>1
<1>3. e >= -65
  BY <1>2, FiguresAssumption
<1>4. m \in Nat /\ m >= 1
  BY RoomFacts
<1>5. /\ IsNegative(n) = negative /\ Exponent100(n) = e /\ Cells(n) = cells
      /\ n \notin {NotConverted, InvalidNumber, NumericOverflow, Zero, Infinity, MinusInfinity}
      /\ n \in Seq(Int) /\ Len(n) <= 1 + Room100
  BY <1>2, <1>3, EncodedFacts
<1> DEFINE t == ToText(n)
<1>6. t = [kind |-> "decimal", negative |-> IsNegative(n), whole |-> PrintedWhole(n),
           part |-> PrintedPart(n), exponent |-> 0]
  BY <1>5 DEF ToText
<1>7. /\ t.kind = "decimal" /\ t.negative = negative /\ t.whole = PrintedWhole(n)
      /\ t.part = PrintedPart(n) /\ t.exponent = 0
  <2> HIDE DEF t
  <2> QED BY <1>5, <1>6
<1> HIDE DEF t
<1>8. z \in Nat /\ z = IF Figure(cells)[1] = 0 THEN 1 ELSE 0
  <2>1. 1 \in 1 .. m /\ 2 * 1 - 1 = 1
    BY <1>4
  <2>2. Figure(cells)[1] = cells[1] \div 10 /\ cells[1] \in 0 .. 99
    BY <1>4, <2>1, FigureFacts
  <2>3. \A x \in 0 .. 99 : x \div 10 = 0 <=> x < 10
    OBVIOUS
  <2> QED BY <1>2, <2>2, <2>3
<1>9. \E k : LeadingExponent(t) = 2 * e + 1 - z /\ Shows(Aligned(t), k, Figure(cells), m)
  <2>1. Denoted(n, e, m, cells)
    BY <1>2, <1>4, <1>5 DEF Denoted
  <2>2. CASE e >= 0
    <3>1. PICK c \in Nat : c = 2 * (e + 1)
      <4>1. 2 * (e + 1) \in Nat
        BY <2>2
      <4> QED BY <4>1
    <3> QED BY <1>4, <1>7, <1>8, <2>2, <2>1, <3>1, PrintedWithWhole
  <2>3. CASE ~(e >= 0)
    <3>1. PICK g \in Nat : g = -(2 * (e + 1))
      <4>1. -(2 * (e + 1)) \in Nat
        BY <2>3
      <4> QED BY <4>1
    <3> QED BY <1>4, <1>7, <1>8, <2>3, <2>1, <3>1, PrintedWithoutWhole
  <2> QED BY <2>2, <2>3
<1>10. PICK k : LeadingExponent(t) = 2 * e + 1 - z /\ Shows(Aligned(t), k, Figure(cells), m)
  BY <1>9
<1>11. FromDecimal(t) = Encoded(t.negative, e, cells)
  BY <1>2, <1>10, ShownReads
<1>12. FromText(t) = FromDecimal(t)
  BY <1>7 DEF FromText
<1> QED BY <1>2, <1>5, <1>7, <1>11, <1>12 DEF t

\* as are zero and the infinite ones,
LEMMA SpecialReads ==
  ASSUME NEW n \in {Zero, Infinity, MinusInfinity}
  PROVE  FromText(ToText(n)) = n
<1>1. CASE n = Infinity
  <2>1. ToText(n) = [kind |-> "infinity", negative |-> FALSE]
    BY <1>1 DEF ToText
  <2> QED BY <1>1, <2>1 DEF FromText
<1>2. CASE n = MinusInfinity
  <2>1. n # Infinity
    BY <1>2 DEF Infinity, MinusInfinity
  <2>2. ToText(n) = [kind |-> "infinity", negative |-> TRUE]
    BY <1>2, <2>1 DEF ToText
  <2> QED BY <1>2, <2>2 DEF FromText
<1>3. CASE n = Zero
  <2> DEFINE t == ToText(n)
  <2>1. n # Infinity /\ n # MinusInfinity
    BY <1>3 DEF Infinity, MinusInfinity, Zero
  <2>2. t = [kind |-> "decimal", negative |-> FALSE, whole |-> <<0>>, part |-> <<>>, exponent |-> 0]
    BY <1>3, <2>1 DEF ToText
  <2>3. t.kind = "decimal" /\ t.whole = <<0>> /\ t.part = <<>> /\ t.exponent = 0
    <3> HIDE DEF t
    <3> QED BY <2>2
  <2> HIDE DEF t
  <2>4. ScannedWhole(t) = <<>>
    <3>1. <<0>> \in Digits(1) /\ \A j \in 1 .. 1 : <<0>>[j] = 0
      BY DEF Digits, Digit
    <3> QED BY <2>3, <3>1, OnlyZeros DEF ScannedWhole
  <2>5. <<>> \in Digits(0) /\ \A j \in 1 .. 0 : <<>>[j] = 0
    BY DEF Digits
  <2>6. ScannedPart(t) = <<>>
    <3>1. WithoutLeadingZeros(<<>>) = <<>>
      BY <2>5, OnlyZeros
    <3> QED BY <2>3, <2>4, <3>1 DEF ScannedPart
  <2>7. LeadingExponent(t) = -1
    BY <2>3, <2>4, <2>6 DEF LeadingExponent, DecimalPoint
  <2>8. Aligned(t) = <<>>
    <3>1. ~((-1) % 2 = 0)
      OBVIOUS
    <3>2. <<>> \o <<>> = <<>>
      OBVIOUS
    <3> QED BY <2>4, <2>6, <2>7, <3>1, <3>2 DEF Aligned
  <2>9. Rounded(<<>>) = <<<<>>, 0>>
    <3>1. Len(<<>>) <= Figures
      BY RoomFacts
    <3> QED BY <3>1 DEF Rounded
  <2>10. WithoutTrailingZeros(<<>>) = <<>>
    BY <2>5, OnlyTrailingZeros
  <2>11. WithoutTrailingZeros(Rounded(Aligned(t))[1]) = <<>>
    BY <2>8, <2>9, <2>10
  <2>12. FromDecimal(t) = Zero
    BY <2>11 DEF FromDecimal
  <2>13. FromText(t) = FromDecimal(t)
    BY <2>3 DEF FromText
  <2> QED BY <1>3, <2>12, <2>13 DEF t
<1> QED BY <1>1, <1>2, <1>3

\* and loading what was dumped gives the same bytes.
LEMMA MarshalledLoads ==
  ASSUME NEW n \in Seq(Int), Len(n) <= 1 + Room100
  PROVE  Unmarshal(Marshalled(n)) = n
<1> DEFINE s == Marshalled(n)
<1>1. PICK l \in Nat : l = Len(n) /\ \A i \in 1 .. l : n[i] \in Int
  OBVIOUS
<1>2. s \in Seq(Int) /\ Len(s) = l + 1 /\ s[1] = l /\ \A i \in 1 .. l : s[i + 1] = n[i]
  <2>1. s = <<l>> \o n
    BY <1>1 DEF Marshalled
  <2>2. n \in [1 .. l -> Int]
    BY <1>1
  <2> HIDE DEF s
  <2> QED BY <2>1, <2>2, Joined
<1>3. ~(s = <<>> \/ Len(s) # s[1] + 1 \/ Len(s) > 2 + Figures \div 2)
  <2>1. s # <<>>
    BY <1>2
  <2>2. Len(s) <= 2 + Figures \div 2
    BY <1>1, <1>2, RoomFacts DEF Room100
  <2> QED BY <1>2, <2>1, <2>2, RoomFacts DEF Room100
<1>4. Unmarshal(s) = Tail(s)
  BY <1>3 DEF Unmarshal
<1>5. Tail(s) = n
  <2>1. s # <<>>
    BY <1>2
  <2>2. /\ Tail(s) \in Seq(Int) /\ Len(Tail(s)) = l
        /\ \A i \in 1 .. l : Tail(s)[i] = n[i]
    BY <1>2, <2>1, HeadTailProperties
  <2> DEFINE w == Tail(s)
  <2>3. w \in Seq(Int) /\ Len(w) = Len(n) /\ \A i \in 1 .. Len(w) : w[i] = n[i]
    BY <1>1, <2>2
  <2> HIDE DEF w
  <2>4. w = n
    BY <2>3, SeqEqual
  <2> QED BY <2>4 DEF w
<1> QED BY <1>4, <1>5 DEF s

-------------------------------------------------------------------------------
(***************************************************************************)
(* The specification: numbers come from texts, and stay.                   *)
(***************************************************************************)
NumberTextSpec == NumberTextInit(Texts) /\ [][NumberTextNext]_numberTextVars

\* Before the conversion there is a text of the program; behind it an error, or
\* a NUMBER that the scanner makes.
NumberTextInv ==
  /\ number = NotConverted => text \in Texts
  /\ \/ number \in {NotConverted, InvalidNumber, NumericOverflow, Zero, Infinity, MinusInfinity}
     \/ IsEncoded(number)

LEMMA InvReads == NumberTextInv => RoundTrip
<1> SUFFICES ASSUME NumberTextInv, number \notin {NotConverted, InvalidNumber, NumericOverflow}
             PROVE  FromText(ToText(number)) = number /\ Unmarshal(Marshalled(number)) = number
  BY DEF RoundTrip
<1>1. CASE IsEncoded(number)
  BY <1>1, EncodedReads, MarshalledLoads
<1>2. CASE number \in {Zero, Infinity, MinusInfinity}
  <2>1. Zero \in Seq(Int) /\ Infinity \in Seq(Int) /\ MinusInfinity \in Seq(Int)
    BY DEF Zero, Infinity, MinusInfinity
  <2>2. Len(Zero) = 1 /\ Len(Infinity) = 2 /\ Len(MinusInfinity) = 1
    BY DEF Zero, Infinity, MinusInfinity
  <2>3. \A n \in {Zero, Infinity, MinusInfinity} : n \in Seq(Int) /\ Len(n) <= 1 + Room100
    <3>1. PICK r \in Nat : r = Room100 /\ r >= 1
      BY RoomFacts
    <3>2. 1 <= 1 + Room100 /\ 2 <= 1 + Room100
      BY <3>1
    <3>3. Len(Zero) <= 1 + Room100 /\ Len(Infinity) <= 1 + Room100 /\ Len(MinusInfinity) <= 1 + Room100
      BY <2>2, <3>2, Zenon
    <3> QED BY <2>1, <3>3, Zenon
  <2> QED BY <1>2, <2>3, SpecialReads, MarshalledLoads
<1> QED BY <1>1, <1>2 DEF NumberTextInv

LEMMA NumberTextStep == NumberTextInv /\ [NumberTextNext]_numberTextVars => NumberTextInv'
<1> SUFFICES ASSUME NumberTextInv, [NumberTextNext]_numberTextVars
             PROVE  NumberTextInv'
  OBVIOUS
<1>1. CASE UNCHANGED numberTextVars
  BY <1>1 DEF numberTextVars, NumberTextInv
<1>2. CASE Read
  <2>1. text \in Texts /\ number' = FromText(text)
    BY <1>2 DEF Read, NumberTextInv
  <2>2. CASE text.kind = "infinity"
    <3>1. number' \in {Infinity, MinusInfinity}
      BY <2>1, <2>2 DEF FromText
    <3> QED BY <3>1 DEF NumberTextInv, NotConverted, Infinity, MinusInfinity
  <2>3. CASE text.kind = "malformed"
    <3>1. number' = InvalidNumber
      BY <2>1, <2>3 DEF FromText
    <3> QED BY <3>1 DEF NumberTextInv, NotConverted, InvalidNumber
  <2>4. CASE text.kind # "infinity" /\ text.kind # "malformed"
    <3>1. PICK d \in Decimals : text = [kind |-> "decimal", negative |-> d.negative, whole |-> d.whole,
                                        part |-> d.part, exponent |-> d.exponent]
      BY <2>1, <2>4 DEF Texts
    <3>2. /\ text.negative = d.negative /\ text.whole = d.whole
          /\ text.part = d.part /\ text.exponent = d.exponent
      BY <3>1
    <3>3. number' = FromDecimal(text)
      BY <2>1, <2>4 DEF FromText
    <3>4. number' = Zero \/ number' = NumericOverflow \/ IsEncoded(number')
      BY <3>2, <3>3, ConvertedShape, DecimalsAssumption
    <3>5. number' # NotConverted
      <4>1. Zero # NotConverted /\ NumericOverflow # NotConverted
        BY DEF Zero, NumericOverflow, NotConverted
      <4>2. IsEncoded(number') => number' # NotConverted
        BY EncodedReads
      <4> QED BY <3>4, <4>1, <4>2
    <3> QED BY <3>4, <3>5 DEF NumberTextInv
  <2> QED BY <2>2, <2>3, <2>4
<1>3. CASE Write
  BY <1>3 DEF Write, NumberTextInv
<1>4. CASE MarshalAndLoad
  <2>1. number' = number
    BY <1>4, InvReads DEF MarshalAndLoad, RoundTrip
  <2> QED BY <1>4, <2>1 DEF MarshalAndLoad, NumberTextInv
<1> QED BY <1>1, <1>2, <1>3, <1>4 DEF NumberTextNext

(***************************************************************************)
(* Whatever text a NUMBER was read from, its printed text is read as the   *)
(* same bytes, so that numbers that print alike are equal and have the     *)
(* same hash; and what Marshal dumped is loaded as the same bytes.         *)
(***************************************************************************)
THEOREM PrintedReadsSame == NumberTextSpec => []RoundTrip
<1>1. NumberTextInit(Texts) => NumberTextInv
  BY DEF NumberTextInit, NumberTextInv
<1> QED BY <1>1, NumberTextStep, InvReads, PTL DEF NumberTextSpec
===============================================================================
