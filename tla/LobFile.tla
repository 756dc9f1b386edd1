-------------------------------- MODULE LobFile --------------------------------
(***************************************************************************)
(* What an OCI8::LOB promises: a file of characters (CLOB, NCLOB) or bytes *)
(* (BLOB, BFILE) with a position.  A write or truncate that raises has     *)
(* done its work or nothing; a read that raises may have moved the         *)
(* position forward.                                                       *)
(*                                                                         *)
(* An answer is a pair or a single: <<"text", t>>, <<"count", n>>,         *)
(* <<"nil">>, <<"self">>, <<"raised">>, ...                                *)
(***************************************************************************)
EXTENDS Integers, Sequences

CONSTANTS Texts,      \* the contents of a new file, and what may be written
          Sizes,      \* the amounts that may be read, or truncated to
          Targets,    \* how far to seek
          Modulus,    \* positions are below it, and it is taken off when they go beyond
          Pad         \* what fills the gap when text is written behind the end

VARIABLES content, position,
          answer     \* what the last call has returned

fileVars == <<content, position, answer>>

Init ==
  /\ content \in Texts /\ position = 0 /\ answer = <<"none">>

\* the text between the positions p and q, as far as there is one
Between(p, q) == SubSeq(content, p + 1, IF q < Len(content) THEN q ELSE Len(content))

\* content with text written at position p
Overwritten(p, text) ==
  [i \in 1 .. (IF Len(content) < p + Len(text) THEN p + Len(text) ELSE Len(content)) |->
     IF i \in p + 1 .. p + Len(text) THEN text[i - p]
     ELSE IF i <= Len(content) THEN content[i] ELSE Pad]

\* read(n): nil at the end of the file
Read(n) ==
  LET text == Between(position, position + n)
  IN  /\ position' = position + Len(text)
      /\ answer' = IF text = <<>> THEN <<"nil">> ELSE <<"text", text>>
      /\ UNCHANGED content

\* read: "" for an empty file, nil at the end of another
ReadAll ==
  LET text == Between(position, Len(content))
  IN  /\ position' = position + Len(text)
      /\ answer' = IF text = <<>> /\ position # 0 THEN <<"nil">> ELSE <<"text", text>>
      /\ UNCHANGED content

ReadRaises ==
  /\ position' \in {position} \union position .. Len(content)
  /\ answer' = <<"raised">>
  /\ UNCHANGED content

Write(text) ==
  /\ content' = IF text = <<>> THEN content ELSE Overwritten(position, text)
  /\ position' = position + Len(text)
  /\ answer' = <<"count", Len(text)>>

WriteRaises(text) ==
  /\ content' = Overwritten(position, text)
  /\ answer' = <<"raised">>
  /\ UNCHANGED position

Truncate(n) ==
  /\ n <= Len(content) /\ content' = SubSeq(content, 1, n)
  /\ answer' \in {<<"self">>, <<"raised">>}
  /\ UNCHANGED position

\* where seek counts from: IO::SEEK_SET, IO::SEEK_CUR, IO::SEEK_END
Start == [set |-> 0, cur |-> position, end |-> Len(content)]

\* Below the start of the file there are the largest positions.
Seek(amount, whence) ==
  /\ Start[whence] + amount \in -(Modulus \div 2) .. Modulus - 1
  /\ position' = (Start[whence] + amount) % Modulus
  /\ answer' = <<"self">>
  /\ UNCHANGED content

Rewind ==
  /\ position' = 0
  /\ answer' = <<"self">>
  /\ UNCHANGED content

\* eof? as oci8_lob_eof_p has it: everywhere but behind the end
Eof ==
  /\ answer' = IF position > Len(content) THEN <<"not end">> ELSE <<"end">>
  /\ UNCHANGED <<content, position>>

Size ==
  /\ answer' = <<"count", Len(content)>>
  /\ UNCHANGED <<content, position>>

\* a call that raises before it has done anything
Fails ==
  /\ answer' = <<"raised">>
  /\ UNCHANGED <<content, position>>

Next ==
  \/ \E n \in Sizes : Read(n) \/ Truncate(n)
  \/ ReadAll \/ ReadRaises
  \/ \E text \in Texts : Write(text) \/ WriteRaises(text)
  \/ \E amount \in Targets, whence \in DOMAIN Start : Seek(amount, whence)
  \/ Rewind \/ Eof \/ Size \/ Fails

Spec == Init /\ [][Next]_fileVars
===============================================================================
