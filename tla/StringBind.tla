------------------------------- MODULE StringBind -------------------------------
(***************************************************************************)
(* Bind variables of strings and RAWs (bind.c, bindtype.rb): what length   *)
(* is asked for, how large the buffer is made, and what may be stored.     *)
(*                                                                         *)
(* A word is a string that has, in OCI8.encoding, a number of characters   *)
(* and of bytes; a buffer has a length of Header bytes in front of those.  *)
(* The elements of an array are alike: there is one here.                  *)
(***************************************************************************)
EXTENDS Integers

CONSTANTS
  Words,          \* records [text, chars, bytes]
  EmptyWord,
  NlsRatios,      \* bytes that a character may have: oci8_nls_ratio
  Lengths,        \* lengths that a program asks for
  NoLength,
  DefaultLength,  \* minimum_bind_length
  Header,         \* sizeof(sb4)
  NilWord, UnknownWord

ASSUME WordAssumption ==
  /\ EmptyWord \in Words /\ EmptyWord.bytes = 0 /\ EmptyWord.chars = 0
  /\ \A w \in Words : w.chars \in Nat /\ w.bytes \in Nat /\ w.chars <= w.bytes
  /\ {NilWord, UnknownWord} \cap Words = {} /\ NilWord # UnknownWord
  /\ NlsRatios \subseteq Nat \ {0} /\ Header \in Nat \ {0}
  /\ Lengths \subseteq Nat /\ NoLength \notin Nat /\ DefaultLength \in Nat

VARIABLES
  wordVar,        \* sizes of the variable, or <<>>
  wordNull,       \* its indicator
  wordBuffer,     \* the word in its buffer
  wordHeld        \* what it must hold, or UnknownWord

stringVars == <<wordVar, wordNull, wordBuffer, wordHeld>>

\* String.create and RAW.create: the length is that of the first value, in
\* characters or in bytes, if the program gives none.
LengthFor(semantics, length, v) ==
  CASE length # NoLength -> length
    [] length = NoLength /\ v = NilWord -> DefaultLength
    [] OTHER -> IF semantics = "char" THEN v.chars ELSE v.bytes

\* Mutant: a character is one byte.
ByteLengthOfChars(semantics, length, ratio) == length

ByteLength(semantics, length, ratio) ==
  IF semantics = "char" THEN length * ratio ELSE length

\* OCI converts by way of UTF-16, which needs two bytes for a character.
Room(semantics, length, ratio) ==
  LET bytes == ByteLength(semantics, length, ratio)
      room == IF semantics = "char" /\ ratio = 1 THEN bytes * 2 ELSE bytes
  IN  IF room = 0 THEN 1 ELSE room

\* bind_string_init, for both types
StringSizes(semantics, length, ratio) ==
  LET value == Room(semantics, length, ratio) + Header
  IN  [semantics |-> semantics, length |-> length, ratio |-> ratio,
       bytelen |-> ByteLength(semantics, length, ratio),
       charlen |-> IF semantics = "char" THEN length ELSE 0,
       valueSz |-> value,
       allocSz |-> ((value + Header - 1) \div Header) * Header]

InCharset(v, ratio) == v.bytes <= v.chars * ratio

\* bind_string_set and bind_raw_set
AcceptsWord(sizes, v) == v.bytes <= sizes.bytelen

StringInit ==
  wordVar = <<>> /\ wordNull = TRUE /\ wordBuffer = EmptyWord /\ wordHeld = NilWord

\* oci8_bind_initialize; a first value that is too long raises.
CreateString(semantics, length, ratio, v) ==
  LET sizes == StringSizes(semantics, LengthFor(semantics, length, v), ratio)
  IN  /\ wordVar = <<>>
      /\ v # NilWord => InCharset(v, ratio) /\ AcceptsWord(sizes, v)
      /\ wordVar' = sizes
      /\ wordNull' = (v = NilWord)
      /\ wordBuffer' = IF v = NilWord THEN EmptyWord ELSE v
      /\ wordHeld' = v

\* oci8_bind_set.  The indicator is set before the word is refused: what the
\* variable then holds is known only if it was not NULL.
AssignWord(v) ==
  /\ wordVar # <<>> /\ InCharset(v, wordVar.ratio)
  /\ wordNull' = FALSE
  /\ IF AcceptsWord(wordVar, v)
     THEN wordBuffer' = v /\ wordHeld' = v
     ELSE /\ UNCHANGED wordBuffer
          /\ wordHeld' = IF wordNull THEN UnknownWord ELSE wordHeld
  /\ UNCHANGED wordVar

AssignNil ==
  /\ wordVar # <<>>
  /\ wordNull' = TRUE /\ wordHeld' = NilWord
  /\ UNCHANGED <<wordVar, wordBuffer>>

\* OCI stores a word of a row, or of an OUT parameter, that fits (bind_string_
\* post_bind_hook tells it the number of characters).
Deliver(v) ==
  /\ wordVar # <<>> /\ InCharset(v, wordVar.ratio)
  /\ v.bytes <= wordVar.valueSz - Header
  /\ wordVar.charlen # 0 => v.chars <= wordVar.charlen
  /\ wordNull' = FALSE /\ wordBuffer' = v /\ wordHeld' = v
  /\ UNCHANGED wordVar

DeliverNull == AssignNil

StringNext ==
  \/ \E semantics \in {"byte", "char"}, length \in Lengths \union {NoLength},
        ratio \in NlsRatios, v \in Words \union {NilWord} : CreateString(semantics, length, ratio, v)
  \/ \E v \in Words : AssignWord(v) \/ Deliver(v)
  \/ AssignNil \/ DeliverNull

StringSpec == StringInit /\ [][StringNext]_stringVars

-----------------------------------------------------------------------------
\* bind_string_get, or nil
WordRead == IF wordNull THEN NilWord ELSE wordBuffer

\* v is not longer than what the program, or the first value, asked for.
WithinLength(v) ==
  (IF wordVar.semantics = "char" THEN v.chars ELSE v.bytes) <= wordVar.length

\* A string variable takes every word of the length that was asked for, in either
\* semantics and whatever the width of its characters; what it takes does not
\* reach beyond its buffer, nor that of an element the next one; and it gives
\* back what was last stored, refused assignments in between included.
StringKept ==
  wordVar # <<>> =>
    /\ wordHeld # UnknownWord => WordRead = wordHeld
    /\ \A v \in Words : InCharset(v, wordVar.ratio) =>
         /\ WithinLength(v) => AcceptsWord(wordVar, v)
         /\ AcceptsWord(wordVar, v) => Header + v.bytes <= wordVar.valueSz
    /\ wordVar.valueSz <= wordVar.allocSz /\ wordVar.allocSz % Header = 0
===============================================================================
