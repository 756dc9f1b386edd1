---------------------------------- MODULE Lob ----------------------------------
(***************************************************************************)
(* An OCI8::CLOB or OCI8::BLOB: read, write, seek, truncate, eof? of       *)
(* lob.c, for one thread.  A read is a sequence of calls of OCILobRead2,   *)
(* one for each piece; between them lob->pos is still the old position     *)
(* and the local variable pos goes along.  Without a size it asks for      *)
(* UB4MAXVAL characters or bytes, again and again.                         *)
(*                                                                         *)
(* The server counts characters in a CLOB.  OCI returns the amount of a    *)
(* piece in characters and in bytes; a character takes 1 to MaxWidth.      *)
(***************************************************************************)
EXTENDS Integers, Sequences

CONSTANTS Letter, Pad,
          Texts,     \* the contents of a new LOB, and arguments of write
          Sizes,     \* arguments of read and truncate; 0 is not asked of read
          Targets,   \* the amounts of seek
          MaxWidth,
          MaxAmount, \* UB4MAXVAL
          MaxLen,    \* the length the server allows
          Modulus    \* 2^64: a position is a ub8

ASSUME LobAssumption ==
  /\ MaxWidth \in Nat \ {0} /\ MaxAmount \in Nat \ {0}
  /\ Modulus \in Nat /\ MaxLen \in 0 .. Modulus - 1
  /\ Sizes \subseteq Nat /\ Targets \subseteq Int
  /\ Pad \in Letter /\ Texts \subseteq Seq(Letter)
  /\ \A text \in Texts : Len(text) <= MaxLen

VARIABLES
  isClob,    \* lob->lobtype = OCI_TEMP_CLOB
  content,   \* on the server
  pos,       \* lob->pos
  call,      \* the read in progress (on), or Idle
  answer     \* see LobFile

lobVars == <<isClob, content, pos, call, answer>>

Nil == -1
Position == 0 .. Modulus - 1
Call == [on : BOOLEAN, asked : (Sizes \ {0}) \union {Nil}, from : Position,
         pos : Position, at : Position, end : Position, got : Seq(Letter)]
Idle == [on |-> FALSE, asked |-> Nil, from |-> 0, pos |-> 0, at |-> 0, end |-> 0, got |-> <<>>]

LobInit ==
  /\ isClob \in BOOLEAN /\ content \in Texts
  /\ pos = 0 /\ call = Idle /\ answer = <<"none">>

File == INSTANCE LobFile WITH
          position <- IF call.on THEN call.from ELSE pos

Lower(m, n) == IF m <= n THEN m ELSE n

\* the bytes of k characters of a CLOB, or of k bytes
Bytes(k) == IF isClob THEN k .. MaxWidth * k ELSE {k}

\* Mutant: positions always count bytes.
AdvanceBytes(k, bytes) == bytes

\* what a piece of k characters or bytes adds to a position
Advance(k, bytes) == IF isClob THEN k ELSE bytes

\* OCI takes positions from 1, and p + 1 is computed as a ub8
OffsetOK(p) == (p + 1) % Modulus # 0

Return(a) == answer' = a
Raise == Return(<<"raised">>)

-------------------------------------------------------------------------------
(***************************************************************************)
(* read                                                                    *)
(***************************************************************************)

Amount(asked) == IF asked = Nil THEN MaxAmount ELSE asked

\* A first piece is asked for at p: "at" is OCI's place, "end" where this
\* request ends.
Request(asked, from, p, got) ==
  [on |-> TRUE, asked |-> asked, from |-> from, pos |-> p, at |-> p,
   end |-> Lower(p + Amount(asked), IF p < Len(content) THEN Len(content) ELSE p),
   got |-> got]

ReadStart(asked) ==
  /\ ~call.on
  /\ call' = Request(asked, pos, pos, <<>>)
  /\ UNCHANGED <<isClob, content, pos, answer>>

\* After the last piece of a request.
EndOfRequest(c) ==
  /\ pos' = c.pos
  /\ IF c.asked = Nil /\ c.pos - pos = MaxAmount
     THEN call' = Request(c.asked, c.from, c.pos, c.got) /\ UNCHANGED answer
     ELSE /\ call' = Idle
          /\ Return(IF c.got # <<>> THEN <<"text", c.got>>
                    ELSE IF c.asked = Nil /\ c.pos = 0 THEN <<"text", <<>>>> ELSE <<"nil">>)

\* the read after a piece of k characters or bytes
Moved(k, bytes) ==
  [on |-> TRUE, asked |-> call.asked, from |-> call.from,
   pos |-> (call.pos + Advance(k, bytes)) % Modulus,
   at |-> call.at + k, end |-> call.end,
   got |-> call.got \o SubSeq(content, call.at + 1, call.at + k)]

\* OCI_NEED_DATA for all pieces but the last.
ReadPiece ==
  /\ call.on /\ OffsetOK(call.pos)
  /\ \E k \in 1 .. call.end - call.at : \E bytes \in Bytes(k) :
       IF call.at + k < call.end
       THEN call' = Moved(k, bytes) /\ UNCHANGED <<pos, answer>>
       ELSE EndOfRequest(Moved(k, bytes))
  /\ UNCHANGED <<isClob, content>>

\* byte_amt = 0
ReadNothing ==
  /\ call.on /\ OffsetOK(call.pos)
  /\ call.at = call.end
  /\ EndOfRequest(call)
  /\ UNCHANGED <<isClob, content>>

\* OCI answers with an error, or an exception of another thread strikes
ReadRaises ==
  /\ call.on
  /\ call' = Idle /\ Raise
  /\ UNCHANGED <<isClob, content, pos>>

-------------------------------------------------------------------------------
(***************************************************************************)
(* write and the others, which are one call of OCI or none                 *)
(***************************************************************************)

Stored(text) ==
  [i \in 1 .. (IF Len(content) < pos + Len(text) THEN pos + Len(text) ELSE Len(content)) |->
     IF i \in pos + 1 .. pos + Len(text) THEN text[i - pos]
     ELSE IF i <= Len(content) THEN content[i] ELSE Pad]

\* the server takes text at the position
Fits(text) == OffsetOK(pos) /\ pos + Len(text) <= MaxLen

Write(text) ==
  /\ ~call.on
  /\ text # <<>> => Fits(text)
  /\ content' = IF text = <<>> THEN content ELSE Stored(text)
  /\ \E bytes \in Bytes(Len(text)) :
       /\ pos' = (pos + Advance(Len(text), bytes)) % Modulus
       /\ Return(<<"count", Advance(Len(text), bytes)>>)
  /\ UNCHANGED <<isClob, call>>

\* The server refuses, or an exception strikes before or after its work.
WriteRaises(text) ==
  /\ ~call.on /\ text # <<>>
  /\ \/ UNCHANGED content
     \/ Fits(text) /\ content' = Stored(text)
  /\ Raise
  /\ UNCHANGED <<isClob, pos, call>>

\* IO::SEEK_SET, IO::SEEK_CUR and IO::SEEK_END; the length is asked for
Base == [set |-> 0, cur |-> pos, end |-> Len(content)]

\* NUM2ULL takes a negative number, down to -2^63, for a large one, and
\* refuses what does not fit.
Seek(amount, whence) ==
  LET position == Base[whence] + amount
  IN  /\ ~call.on
      /\ IF position \in -(Modulus \div 2) .. Modulus - 1
         THEN pos' = position % Modulus /\ Return(<<"self">>)
         ELSE UNCHANGED pos /\ Raise
      /\ UNCHANGED <<isClob, content, call>>

Rewind ==
  /\ ~call.on
  /\ pos' = 0 /\ Return(<<"self">>)
  /\ UNCHANGED <<isClob, content, call>>

Truncate(n) ==
  /\ ~call.on
  /\ IF n <= Len(content)
     THEN content' = SubSeq(content, 1, n) /\ (Return(<<"self">>) \/ Raise)
     ELSE UNCHANGED content /\ Raise
  /\ UNCHANGED <<isClob, pos, call>>

Eof ==
  /\ ~call.on
  /\ Return(IF Len(content) < pos THEN <<"not end">> ELSE <<"end">>)
  /\ UNCHANGED <<isClob, content, pos, call>>

Size ==
  /\ ~call.on
  /\ Return(<<"count", Len(content)>>)
  /\ UNCHANGED <<isClob, content, pos, call>>

\* eof?, size, truncate and seek from the end raise when their call fails
LookRaises ==
  /\ ~call.on /\ Raise
  /\ UNCHANGED <<isClob, content, pos, call>>

-------------------------------------------------------------------------------
LobNext ==
  \/ \E asked \in (Sizes \ {0}) \union {Nil} : ReadStart(asked)
  \/ ReadPiece \/ ReadNothing \/ ReadRaises
  \/ \E text \in Texts : Write(text) \/ WriteRaises(text)
  \/ \E amount \in Targets, whence \in DOMAIN Base : Seek(amount, whence)
  \/ \E n \in Sizes : Truncate(n)
  \/ Rewind \/ Eof \/ Size \/ LookRaises

(***************************************************************************)
(* Properties.                                                             *)
(***************************************************************************)

LobTypeOK ==
  /\ isClob \in BOOLEAN
  /\ content \in Seq(Letter) /\ Len(content) <= MaxLen
  /\ pos \in Position /\ call \in Call

\* A LOB is a file with a position: however OCI cuts a read into pieces, and
\* whatever the width of the characters, read returns the text from the
\* position on, the position moves by what was read or written or to where
\* seek was asked to go, and a read without a size returns the rest although
\* each request is for UB4MAXVAL.  What eof? promises is EofAtEnd
\* (oci8_lob_read, oci8_lob_write, oci8_lob_seek).
ImplementsLobFile == File!Spec

\* "Returns true if the current offset is at end of lob" (lob.c:492): where
\* eof? says so there is nothing more to read.
EofAtEnd == (~call.on /\ answer = <<"end">>) => pos >= Len(content)
===============================================================================
