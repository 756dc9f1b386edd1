------------------------------ MODULE LongBuffer ------------------------------
(***************************************************************************)
(* A bind variable of LONG or LONG RAW type (chunk_buf_t of bind.c).  Its  *)
(* text lies in a list of chunks that is never shortened, only the         *)
(* pointer tail says how much of it is in use.  OCI asks for the text      *)
(* piece by piece and delivers it so; a second pointer, inpos, says what   *)
(* comes next.  A pointer to the next field of chunk n is the number n; 0  *)
(* is &cb->head.                                                           *)
(*                                                                         *)
(* OCI may give up the statement between two pieces.  It asks for all      *)
(* pieces also when the indicator says NULL.                               *)
(***************************************************************************)
EXTENDS Naturals, Sequences, SequencesExt

CONSTANTS InitialChunk, MaxChunk,  \* initial_chunk_size, max_chunk_size
          Letter,    \* texts differ by their letter and their length
          MaxBytes,  \* bound: length of a text
          NullText, Unknown

\* OCI8::BindType::Base.initial_chunk_size= and max_chunk_size= refuse 0.
ASSUME ChunkAssumption ==
  InitialChunk \in Nat \ {0} /\ MaxChunk \in Nat \ {0} /\ MaxBytes \in Nat

VARIABLES
  chunks,     \* of each chunk alloc_len and the bytes in use
  tail, inpos,
  isNull,     \* the indicator
  pieces,     \* what OCI has got of the text so far, while it asks for it
  sending,
  held,       \* the text that the variable must hold, or Unknown after a failure
  delivered,  \* the text that the last execution has sent, while nothing follows it
  torn        \* OCI has given up between two pieces it asked for

listVars == <<chunks, tail, isNull>>
sendVars == <<inpos, pieces, sending, torn>>
longVars == <<listVars, sendVars, held, delivered>>

TextOf(l, n) == [i \in 1 .. n |-> <<l, i>>]
Texts == {TextOf(l, n) : l \in Letter, n \in 0 .. MaxBytes}

LongInit ==
  /\ chunks = <<>> /\ tail = 0 /\ inpos = 0 /\ isNull = TRUE
  /\ pieces = <<>> /\ sending = FALSE
  /\ held = NullText /\ delivered = Unknown /\ torn = FALSE

Smaller(m, n) == IF m <= n THEN m ELSE n

-------------------------------------------------------------------------------
(***************************************************************************)
(* The list.  next_chunk takes the next chunk of the list or appends one.  *)
(***************************************************************************)

\* alloc_len of chunk k, which exists or would be made
AllocLen[k \in 1 .. Len(chunks) + MaxBytes + 1] ==
  IF k <= Len(chunks) THEN chunks[k].alloc
  ELSE IF k = 1 THEN InitialChunk
  ELSE Smaller(AllocLen[k - 1] * 2, MaxChunk)

\* bytes in front of chunk k
Start[k \in 1 .. Len(chunks) + MaxBytes + 1] ==
  IF k = 1 THEN 0 ELSE Start[k - 1] + AllocLen[k - 1]

\* the first k chunks filled with text
ChunksWith(text, k) ==
  [i \in 1 .. (IF k > Len(chunks) THEN k ELSE Len(chunks)) |->
     IF i > k THEN chunks[i]
     ELSE [alloc |-> AllocLen[i],
           used  |-> SubSeq(text, Start[i] + 1, Smaller(Start[i] + AllocLen[i], Len(text)))]]

\* the number of chunks that a text needs; an empty one needs one, too
Needed(text) ==
  CHOOSE k \in 1 .. MaxBytes + 1 :
    /\ Len(text) <= Start[k] + AllocLen[k]
    /\ k > 1 => Len(text) > Start[k]

Write(text, k) ==
  /\ chunks' = ChunksWith(text, k) /\ tail' = k

\* bind_long_get, or nil
Content ==
  IF isNull THEN NullText
  ELSE FlattenSeq([i \in 1 .. tail |-> chunks[i].used])

-------------------------------------------------------------------------------
(***************************************************************************)
(* The program.                                                            *)
(***************************************************************************)

Set(text) ==
  /\ ~sending
  /\ Write(text, Needed(text)) /\ isNull' = FALSE
  /\ held' = text /\ delivered' = Unknown
  /\ UNCHANGED sendVars

\* the value is no string: the indicator is already changed
SetRaises ==
  /\ ~sending
  /\ isNull' = FALSE
  /\ held' = Unknown /\ delivered' = Unknown
  /\ UNCHANGED <<chunks, tail, sendVars>>

SetNull ==
  /\ ~sending
  /\ isNull' = TRUE
  /\ held' = NullText /\ delivered' = Unknown
  /\ UNCHANGED <<chunks, tail, sendVars>>

-------------------------------------------------------------------------------
(***************************************************************************)
(* OCI.                                                                    *)
(***************************************************************************)

StartSending ==
  /\ ~sending
  /\ sending' = TRUE /\ pieces' = <<>> /\ delivered' = Unknown
  /\ UNCHANGED <<listVars, inpos, held, torn>>

\* in_bind_callback
PieceCode ==
  IF tail <= 1 THEN "one"
  ELSE IF inpos = 0 THEN "first"
  ELSE IF inpos + 1 # tail THEN "next" ELSE "last"

PieceText == IF tail = 0 THEN <<>> ELSE chunks[inpos + 1].used

InposKept == IF PieceCode = "one" THEN inpos ELSE inpos + 1  \* mutant
InposAfter ==
  CASE PieceCode = "one" -> inpos
    [] PieceCode \in {"first", "next"} -> inpos + 1
    [] PieceCode = "last" -> 0

\* with inpos behind the last chunk the callback would read through NULL
PieceExists == tail = 0 \/ inpos < Len(chunks)

Sent == Append(pieces, [code |-> PieceCode, text |-> PieceText])

SendPiece ==
  /\ sending /\ PieceExists
  /\ inpos' = InposAfter
  /\ IF PieceCode \in {"one", "last"}
     THEN /\ sending' = FALSE /\ pieces' = <<>>
          /\ delivered' = IF isNull THEN NullText
                          ELSE FlattenSeq([i \in 1 .. Len(Sent) |-> Sent[i].text])
     ELSE pieces' = Sent /\ UNCHANGED <<sending, delivered>>
  /\ UNCHANGED <<listVars, held, torn>>

\* the execution fails, or is cancelled, before the text is complete
SendAborts ==
  /\ sending
  /\ sending' = FALSE /\ pieces' = <<>>
  /\ torn' = (torn \/ pieces # <<>>)
  /\ UNCHANGED <<listVars, inpos, held, delivered>>

\* define_callback or out_bind_callback until OCI has delivered a text
Receive(text) ==
  /\ ~sending
  /\ Write(text, Needed(text)) /\ isNull' = FALSE
  /\ held' = text /\ delivered' = Unknown
  /\ UNCHANGED sendVars

\* NULL is delivered: OCI has asked for one chunk
ReceiveNull ==
  /\ ~sending
  /\ Write(<<>>, 1) /\ isNull' = TRUE
  /\ held' = NullText /\ delivered' = Unknown
  /\ UNCHANGED sendVars

\* OCI fails when it has filled k chunks
ReceiveAborts(text, k) ==
  /\ ~sending /\ k < Needed(text)
  /\ Write(text, k)
  /\ isNull' \in BOOLEAN /\ held' = Unknown /\ delivered' = Unknown
  /\ UNCHANGED sendVars

LongNext ==
  \/ \E text \in Texts : Set(text) \/ Receive(text)
  \/ SetRaises \/ SetNull \/ ReceiveNull
  \/ StartSending \/ SendPiece \/ SendAborts
  \/ \E text \in Texts, k \in 1 .. MaxBytes : ReceiveAborts(text, k)

-------------------------------------------------------------------------------
(***************************************************************************)
(* Properties.                                                             *)
(***************************************************************************)

\* A program reads from the variable what was last set or delivered, although the
\* chunks still hold bytes of longer texts before.
HoldsLastText == held # Unknown => Content = held

\* OCI is never led past the end of the list, and gets what the variable holds; as
\* long as no execution was given up between two pieces.
SendsUnlessTorn ==
  ~torn => /\ sending => PieceExists
           /\ delivered # Unknown /\ held # Unknown => delivered = held

\* Both: what the program reads, and what the server gets, is the last text.
LongTextKept == HoldsLastText /\ SendsUnlessTorn
===============================================================================
