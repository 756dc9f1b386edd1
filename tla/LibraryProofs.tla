----------------------------- MODULE LibraryProofs -----------------------------
(***************************************************************************)
(* For any amounts, widths and texts, a LOB is the file with a position    *)
(* that LobFile describes, and a BFILE knows which file is open.           *)
(***************************************************************************)
EXTENDS Library, SequenceTheorems, TLAPS

(***************************************************************************)
(* The inductive invariant of Lob.  During a read, pos is where the        *)
(* current request has begun and call.pos where it has come to.            *)
(***************************************************************************)

\* p has not passed the end of the text because of the read c.
InText(c, p) == p <= Len(content) \/ p = c.from

\* OCI's place and the local variable agree, and lie in the request.
PlaceOK(c) ==
  /\ c.at = c.pos
  /\ c.from <= pos /\ pos <= c.pos /\ c.pos <= c.end
  /\ c.end = Lower(pos + Amount(c.asked), IF pos < Len(content) THEN Len(content) ELSE pos)
  /\ InText(c, pos) /\ InText(c, c.pos)
  /\ c.asked # Nil => pos = c.from

\* What was read is the text from the old position on.
GotOK(c) == c.got = SubSeq(content, c.from + 1, c.pos)

Progress(c) == PlaceOK(c) /\ GotOK(c)

LobInv == LobTypeOK /\ (call.on => Progress(call))

-------------------------------------------------------------------------------

\* A request asks for at least one unit.
LEMMA AmountPositive == \A n \in (Sizes \ {0}) \union {Nil} : Amount(n) \in Nat \ {0}
BY LobAssumption DEF Amount, Nil

\* The record of a request has the type of a call.
LEMMA CallRecord ==
  ASSUME NEW asked \in (Sizes \ {0}) \union {Nil}, NEW from \in Position,
         NEW p \in Position, NEW e \in Position, NEW got \in Seq(Letter)
  PROVE  [on |-> TRUE, asked |-> asked, from |-> from, pos |-> p, at |-> p,
          end |-> e, got |-> got] \in Call
BY DEF Call

\* A request that begins at the position.
LEMMA RequestProgress ==
  ASSUME LobTypeOK,
         NEW asked \in (Sizes \ {0}) \union {Nil}, NEW from \in Position,
         NEW p \in Position, NEW got \in Seq(Letter),
         from <= p, p <= Len(content) \/ p = from,
         asked # Nil => p = from,
         got = SubSeq(content, from + 1, p),
         pos' = p, UNCHANGED content, call' = Request(asked, from, p, got)
  PROVE  call' \in Call /\ call'.on /\ call'.from = from /\ Progress(call)'
<1> DEFINE e == Lower(p + Amount(asked), IF p < Len(content) THEN Len(content) ELSE p)
<1>1. Amount(asked) \in Nat \ {0} BY AmountPositive
<1>2. p \in Nat /\ Len(content) \in Nat /\ Len(content) < Modulus /\ p < Modulus /\ Modulus \in Nat
  BY LobAssumption DEF LobTypeOK, Position
<1>3. e \in Position /\ p <= e
  BY <1>1, <1>2 DEF Lower, Position
<1>4. call' = [on |-> TRUE, asked |-> asked, from |-> from, pos |-> p, at |-> p,
               end |-> e, got |-> got]
  BY DEF Request
<1>5. PlaceOK(call)'
  BY <1>3, <1>4 DEF PlaceOK, InText, Lower, Position
<1>6. GotOK(call)'
  BY <1>4 DEF GotOK
<1> HIDE DEF e
<1>7. call' \in Call
  <2>1. e \in Position BY <1>3
  <2>2. [on |-> TRUE, asked |-> asked, from |-> from, pos |-> p, at |-> p,
         end |-> e, got |-> got] \in Call
    BY <2>1, CallRecord
  <2> QED BY <1>4, <2>2
<1> QED BY <1>4, <1>5, <1>6, <1>7 DEF Progress

\* A LOB that has just been opened satisfies the invariant.
LEMMA LobInitInv == LobInit => LobInv
<1> SUFFICES ASSUME LobInit PROVE LobInv OBVIOUS
<1>1. 0 \in Position BY LobAssumption DEF Position
<1>2. Idle \in Call /\ ~Idle.on BY <1>1 DEF Idle, Call
<1>3. content \in Seq(Letter) /\ Len(content) <= MaxLen BY LobAssumption DEF LobInit
<1> QED BY <1>1, <1>2, <1>3 DEF LobInit, LobInv, LobTypeOK

\* The record of no call is a call.
LEMMA IdleInv == LobTypeOK => Idle \in Call /\ ~Idle.on
BY LobAssumption DEF Idle, Call, Position

\* LOB#read begins at the position.
LEMMA ReadStartInv ==
  ASSUME LobInv, NEW asked \in (Sizes \ {0}) \union {Nil}, ReadStart(asked)
  PROVE  LobInv' /\ UNCHANGED File!fileVars
<1>1. pos \in Position /\ content \in Seq(Letter) /\ LobTypeOK BY DEF LobInv, LobTypeOK
<1>2. SubSeq(content, pos + 1, pos) = <<>>
  BY <1>1, LobAssumption, SubSeqEmpty DEF Position
<1>3. call' = Request(asked, pos, pos, <<>>) /\ UNCHANGED <<isClob, content, pos, answer>> /\ ~call.on
  BY DEF ReadStart
<1>4. pos <= pos /\ <<>> \in Seq(Letter) BY <1>1, LobAssumption DEF Position
<1>5. call' \in Call /\ call'.on /\ call'.from = pos /\ Progress(call)'
  BY <1>1, <1>2, <1>3, <1>4, RequestProgress
<1>6. LobTypeOK' BY <1>3, <1>5 DEF LobInv, LobTypeOK
<1> QED BY <1>3, <1>5, <1>6 DEF LobInv, File!fileVars

\* The length of a text between two positions of which the second is not
\* behind the end.
LEMMA TextRead ==
  ASSUME NEW s \in Seq(Letter), NEW p \in Nat, NEW q \in Nat, p <= q, q <= Len(s) \/ q = p
  PROVE  /\ SubSeq(s, p + 1, q) \in Seq(Letter)
         /\ Len(SubSeq(s, p + 1, q)) = q - p
         /\ SubSeq(s, p + 1, q) = <<>> <=> q = p
<1>1. CASE q = p
  <2>1. SubSeq(s, p + 1, q) = <<>> BY <1>1, SubSeqEmpty
  <2> QED BY <1>1, <2>1
<1>2. CASE q # p
  <2>1. \A i \in p + 1 .. q : s[i] \in Letter BY <1>2
  <2>2. /\ SubSeq(s, p + 1, q) \in Seq(Letter)
        /\ Len(SubSeq(s, p + 1, q)) = IF p + 1 <= q THEN q - (p + 1) + 1 ELSE 0
    BY <2>1, SubSeqProperties
  <2>3. Len(SubSeq(s, p + 1, q)) = q - p /\ q - p # 0 BY <1>2, <2>2
  <2> QED BY <1>2, <2>2, <2>3
<1> QED BY <1>1, <1>2

\* The last piece of a request begins another one or ends the read.
LEMMA EndOfRequestInv ==
  ASSUME LobTypeOK, NEW c \in Call, c.on, Progress(c), c.pos = c.end,
         EndOfRequest(c), UNCHANGED <<isClob, content>>
  PROVE  /\ LobInv'
         /\ \/ call'.on /\ call'.from = c.from /\ UNCHANGED answer
            \/ /\ ~call'.on /\ (c.asked = Nil => c.pos - pos # MaxAmount)
               /\ answer' = IF c.got # <<>> THEN <<"text", c.got>>
                            ELSE IF c.asked = Nil /\ c.pos = 0 THEN <<"text", <<>>>> ELSE <<"nil">>
<1>1. /\ c.asked \in (Sizes \ {0}) \union {Nil} /\ c.from \in Position
      /\ c.pos \in Position /\ c.got \in Seq(Letter)
  BY DEF Call
<1>2. pos' = c.pos BY DEF EndOfRequest
<1>3. CASE c.asked = Nil /\ c.pos - pos = MaxAmount
  <2>1. call' = Request(c.asked, c.from, c.pos, c.got) /\ UNCHANGED answer
    BY <1>3 DEF EndOfRequest
  <2>2. c.got = SubSeq(content, c.from + 1, c.pos)
    BY DEF Progress, GotOK
  <2>3. c.from <= c.pos
    BY <1>1, LobAssumption DEF Progress, PlaceOK, Position, LobTypeOK
  <2>4. c.pos <= Len(content) \/ c.pos = c.from
    BY DEF Progress, PlaceOK, InText
  <2>5. call' \in Call /\ call'.on /\ call'.from = c.from /\ Progress(call)'
    BY <1>1, <1>2, <1>3, <2>1, <2>2, <2>3, <2>4, RequestProgress
  <2> QED BY <1>1, <1>2, <2>1, <2>5 DEF LobInv, LobTypeOK
<1>4. CASE ~(c.asked = Nil /\ c.pos - pos = MaxAmount)
  <2>1. /\ call' = Idle
        /\ answer' = IF c.got # <<>> THEN <<"text", c.got>>
                     ELSE IF c.asked = Nil /\ c.pos = 0 THEN <<"text", <<>>>> ELSE <<"nil">>
    BY <1>4 DEF EndOfRequest, Return
  <2> QED BY <1>1, <1>2, <1>4, <2>1, IdleInv DEF LobInv, LobTypeOK
<1> QED BY <1>3, <1>4

\* What a read has got when its last request is over is what File!Read or
\* File!ReadAll return.
LEMMA ReadDone ==
  ASSUME LobTypeOK, NEW c \in Call, Progress(c), c.pos = c.end,
         c.asked = Nil => c.pos - pos # MaxAmount,
         call.on, c.from = call.from, ~call'.on, pos' = c.pos, UNCHANGED content,
         answer' = IF c.got # <<>> THEN <<"text", c.got>>
                   ELSE IF c.asked = Nil /\ c.pos = 0 THEN <<"text", <<>>>> ELSE <<"nil">>
  PROVE  File!Next
<1> DEFINE from == c.from
           to == IF c.asked # Nil /\ from + c.asked < Len(content) THEN from + c.asked
                 ELSE Len(content)
           text == SubSeq(content, from + 1, to)
<1>1. /\ content \in Seq(Letter) /\ Len(content) \in Nat
      /\ pos \in Nat /\ from \in Nat /\ c.pos \in Nat /\ c.end \in Nat
  BY LobAssumption DEF LobTypeOK, Position, Call
<1>asked. c.asked # Nil => c.asked \in Sizes /\ c.asked \in Nat
  BY LobAssumption DEF Call
<1>2. from <= c.pos /\ (c.pos <= Len(content) \/ c.pos = from)
  BY <1>1 DEF Progress, PlaceOK, InText
<1>3. c.got \in Seq(Letter) /\ Len(c.got) = c.pos - from /\ (c.got = <<>> <=> c.pos = from)
  <2> DEFINE q == c.pos
  <2>1. c.got = SubSeq(content, from + 1, q) BY DEF Progress, GotOK
  <2>2. /\ content \in Seq(Letter) /\ from \in Nat /\ q \in Nat
        /\ from <= q /\ (q <= Len(content) \/ q = from)
    BY <1>1, <1>2
  <2> HIDE DEF from, q
  <2>3. /\ SubSeq(content, from + 1, q) \in Seq(Letter)
        /\ Len(SubSeq(content, from + 1, q)) = q - from
        /\ SubSeq(content, from + 1, q) = <<>> <=> q = from
    BY <2>2, TextRead
  <2> QED BY <2>1, <2>3 DEF q
<1>4. text = c.got
  <2>1. CASE from < Len(content)
    <3>1. c.asked # Nil => c.pos = Lower(from + c.asked, Len(content))
      BY <1>asked, <1>1, <2>1 DEF Progress, PlaceOK, Amount
    <3>2. c.asked = Nil => c.pos = Len(content)
      BY <1>asked, <1>1, <1>2, <2>1, LobAssumption DEF Progress, PlaceOK, Amount, Lower, InText
    <3>3. to = c.pos
      BY <1>asked, <1>1, <2>1, <3>1, <3>2, LobAssumption DEF Lower, Nil
    <3> QED BY <3>3 DEF Progress, GotOK
  <2>2. CASE ~(from < Len(content))
    <3>1. c.pos = from BY <1>1, <1>2, <2>2
    <3>2. to = Len(content)
      BY <1>asked, <1>1, <2>2, LobAssumption DEF Nil
    <3>3. text = <<>> BY <1>1, <2>2, <3>2, SubSeqEmpty
    <3> QED BY <1>3, <3>1, <3>3
  <2> QED BY <2>1, <2>2
<1> HIDE DEF from, to, text
<1>5. c.pos = from + Len(text)
  <2>1. Len(text) = c.pos - from BY <1>3, <1>4
  <2> QED BY <1>1, <2>1
<1>6. (text = <<>> /\ from = 0) <=> (text = <<>> /\ c.pos = 0) BY <1>1, <1>3, <1>4
<1>7. CASE c.asked # Nil
  <2>1. c.asked \in Sizes /\ text = File!Between(from, from + c.asked)
    BY <1>1, <1>asked, <1>7 DEF File!Between, from, to, text
  <2>2. File!Read(c.asked)
    BY <1>4, <1>5, <1>7, <2>1 DEF File!Read, from
  <2> QED BY <2>1, <2>2 DEF File!Next
<1>8. CASE c.asked = Nil
  <2>1. text = File!Between(from, Len(content))
    BY <1>1, <1>8 DEF File!Between, from, to, text
  <2>2. File!ReadAll
    BY <1>4, <1>5, <1>6, <1>8, <2>1 DEF File!ReadAll, from
  <2> QED BY <2>2 DEF File!Next
<1> QED BY <1>7, <1>8

\* Both together.
LEMMA RequestDone ==
  ASSUME LobTypeOK, NEW c \in Call, c.on, Progress(c), c.pos = c.end,
         call.on, c.from = call.from, EndOfRequest(c), UNCHANGED <<isClob, content>>
  PROVE  LobInv' /\ (File!Next \/ UNCHANGED File!fileVars)
<1>1. pos' = c.pos BY DEF EndOfRequest
<1>2. LobInv' BY EndOfRequestInv
<1>3. CASE call'.on /\ call'.from = c.from /\ UNCHANGED answer
  BY <1>2, <1>3 DEF File!fileVars
<1>4. CASE /\ ~call'.on /\ (c.asked = Nil => c.pos - pos # MaxAmount)
           /\ answer' = IF c.got # <<>> THEN <<"text", c.got>>
                        ELSE IF c.asked = Nil /\ c.pos = 0 THEN <<"text", <<>>>> ELSE <<"nil">>
  BY <1>1, <1>2, <1>4, ReadDone
<1> QED BY <1>3, <1>4, EndOfRequestInv

\* A piece is the next part of the text.
LEMMA MovedProgress ==
  ASSUME LobInv, call.on, NEW k \in 1 .. call.end - call.at, NEW bytes \in Bytes(k)
  PROVE  LET c == Moved(k, bytes)
         IN  /\ c \in Call /\ c.on /\ Progress(c)
             /\ c.from = call.from /\ c.pos = call.at + k /\ c.end = call.end
<1> DEFINE p == call.pos
           from == call.from
<1>1. /\ content \in Seq(Letter) /\ Len(content) \in Nat /\ Len(content) < Modulus /\ Modulus \in Nat
      /\ pos \in Nat /\ from \in Nat /\ p \in Nat /\ call.end \in Nat /\ call.end < Modulus
      /\ call.asked \in (Sizes \ {0}) \union {Nil} /\ from \in Position /\ call.end \in Position
  BY LobAssumption DEF LobInv, LobTypeOK, Position, Call
<1>2. PlaceOK(call) /\ GotOK(call) BY DEF LobInv, Progress
<1>3. k \in Nat /\ k >= 1 /\ p + k <= call.end /\ call.at = p
  BY <1>1, <1>2 DEF PlaceOK
<1>4. Advance(k, bytes) = k BY DEF Advance, Bytes
<1>5. (p + Advance(k, bytes)) % Modulus = p + k
  <2>1. \A n \in Nat : n < Modulus => n % Modulus = n BY <1>1
  <2>2. p + k \in Nat /\ p + k < Modulus BY <1>1, <1>3
  <2> QED BY <1>4, <2>1, <2>2
<1>6. p + k <= Len(content)
  BY <1>1, <1>2, <1>3 DEF PlaceOK, Lower
<1>7. from <= p /\ pos <= p BY <1>1, <1>2 DEF PlaceOK
<1>8. call.got \o SubSeq(content, p + 1, p + k) = SubSeq(content, from + 1, p + k)
  <2>1. SubSeq(content, from + 1, p) \o SubSeq(content, p + 1, p + k) = SubSeq(content, from + 1, p + k)
    <3>1. from + 1 \in 1 .. Len(content) + 1 /\ p \in (from + 1) - 1 .. Len(content)
          /\ p + k \in p .. Len(content)
      BY <1>1, <1>3, <1>6, <1>7
    <3> HIDE DEF from, p
    <3> QED BY <1>1, <3>1, ConcatAdjacentSubSeq
  <2> QED BY <1>2, <2>1 DEF GotOK
<1>9. SubSeq(content, from + 1, p + k) \in Seq(Letter)
  BY <1>1, <1>3, <1>6, <1>7, TextRead
<1>10. p + k \in Position BY <1>1, <1>3 DEF Position
<1> DEFINE g == SubSeq(content, from + 1, p + k)
           c == [on |-> TRUE, asked |-> call.asked, from |-> from, pos |-> p + k, at |-> p + k,
                 end |-> call.end, got |-> g]
<1>11. Moved(k, bytes) = c
  BY <1>3, <1>5, <1>8 DEF Moved
<1>12. /\ c.asked = call.asked /\ c.from = from /\ c.pos = p + k /\ c.at = p + k
       /\ c.end = call.end /\ c.got = g /\ c.on
  OBVIOUS
<1>13. c \in Call
  <2> HIDE DEF g, from
  <2> QED BY <1>1, <1>9, <1>10 DEF Call, g
<1> HIDE DEF c
<1>14. PlaceOK(c)
  BY <1>1, <1>2, <1>3, <1>6, <1>7, <1>12 DEF PlaceOK, InText
<1>15. GotOK(c) BY <1>12 DEF GotOK
<1> QED BY <1>3, <1>11, <1>12, <1>13, <1>14, <1>15 DEF Progress

\* A piece of a read moves the position by what it delivers.
LEMMA ReadPieceInv ==
  ASSUME LobInv, ReadPiece
  PROVE  LobInv' /\ (File!Next \/ UNCHANGED File!fileVars)
<1>0. PICK k \in 1 .. call.end - call.at : \E bytes \in Bytes(k) :
        IF call.at + k < call.end
        THEN call' = Moved(k, bytes) /\ UNCHANGED <<pos, answer>>
        ELSE EndOfRequest(Moved(k, bytes))
  BY DEF ReadPiece
<1>1. PICK bytes \in Bytes(k) :
        IF call.at + k < call.end
        THEN call' = Moved(k, bytes) /\ UNCHANGED <<pos, answer>>
        ELSE EndOfRequest(Moved(k, bytes))
  BY <1>0
<1>2. call.on /\ UNCHANGED <<isClob, content>> /\ LobTypeOK BY DEF ReadPiece, LobInv
<1> DEFINE c == Moved(k, bytes)
<1>3. /\ c \in Call /\ c.on /\ Progress(c)
      /\ c.from = call.from /\ c.pos = call.at + k /\ c.end = call.end
  BY <1>2, MovedProgress
<1> HIDE DEF c
<1>4. CASE call.at + k < call.end
  <2>1. call' = c /\ UNCHANGED <<pos, answer>> BY <1>1, <1>4 DEF c
  <2>2. LobTypeOK' BY <1>2, <1>3, <2>1 DEF LobTypeOK
  <2>3. Progress(call)' BY <1>2, <1>3, <2>1 DEF Progress, PlaceOK, GotOK, InText
  <2>4. UNCHANGED File!fileVars BY <1>2, <1>3, <2>1 DEF File!fileVars
  <2> QED BY <2>2, <2>3, <2>4 DEF LobInv
<1>5. CASE ~(call.at + k < call.end)
  <2>1. EndOfRequest(c) BY <1>1, <1>5 DEF c
  <2>2. c.pos = c.end
    <3>1. call.at \in Nat /\ call.end \in Nat
      BY LobAssumption DEF LobInv, LobTypeOK, Call, Position
    <3> QED BY <1>3, <1>5, <3>1
  <2> QED BY <1>2, <1>3, <2>1, <2>2, RequestDone
<1> QED BY <1>4, <1>5

\* A request whose end is reached is followed by the next one or by the result.
LEMMA ReadNothingInv ==
  ASSUME LobInv, ReadNothing
  PROVE  LobInv' /\ (File!Next \/ UNCHANGED File!fileVars)
<1>1. /\ call.on /\ call.at = call.end /\ EndOfRequest(call)
      /\ UNCHANGED <<isClob, content>> /\ LobTypeOK /\ call \in Call /\ Progress(call)
  BY DEF ReadNothing, LobInv, LobTypeOK
<1>2. call.pos = call.end BY <1>1 DEF Progress, PlaceOK
<1> QED BY <1>1, <1>2, RequestDone

\* A read that raises leaves the position inside the text.
LEMMA ReadRaisesInv ==
  ASSUME LobInv, ReadRaises
  PROVE  LobInv' /\ File!Next
<1>1. call' = Idle /\ UNCHANGED <<isClob, content, pos>> /\ answer' = <<"raised">> /\ call.on
  BY DEF ReadRaises, Raise, Return
<1>2. LobInv' BY <1>1, IdleInv DEF LobInv, LobTypeOK
<1>3. pos \in {call.from} \union call.from .. Len(content)
  <2>1. pos \in Nat /\ call.from \in Nat /\ Len(content) \in Nat
    BY LobAssumption DEF LobInv, LobTypeOK, Call, Position
  <2> QED BY <1>1, <2>1 DEF LobInv, Progress, PlaceOK, InText
<1>4. File!ReadRaises BY <1>1, <1>2, <1>3, IdleInv DEF File!ReadRaises, LobInv
<1> QED BY <1>2, <1>4 DEF File!Next

-------------------------------------------------------------------------------

\* What the server has after a write.
LEMMA StoredText ==
  ASSUME LobTypeOK, NEW text \in Texts, Fits(text)
  PROVE  /\ Stored(text) \in Seq(Letter) /\ Len(Stored(text)) <= MaxLen
         /\ Stored(text) = File!Overwritten(pos, text)
<1> DEFINE n == IF Len(content) < pos + Len(text) THEN pos + Len(text) ELSE Len(content)
<1>1. /\ text \in Seq(Letter) /\ content \in Seq(Letter) /\ pos \in Nat
      /\ Len(content) \in Nat /\ Len(text) \in Nat /\ n \in Nat /\ n <= MaxLen
  BY LobAssumption DEF LobTypeOK, Position, Fits
<1>2. ASSUME NEW i \in 1 .. n
      PROVE  (IF i \in pos + 1 .. pos + Len(text) THEN text[i - pos]
              ELSE IF i <= Len(content) THEN content[i] ELSE Pad) \in Letter
  <2>1. CASE i \in pos + 1 .. pos + Len(text)
    <3>1. i - pos \in 1 .. Len(text) BY <1>1, <2>1
    <3> QED BY <1>1, <2>1, <3>1
  <2>2. CASE i \notin pos + 1 .. pos + Len(text)
    BY <1>1, <2>2, LobAssumption
  <2> QED BY <2>1, <2>2
<1>3. Stored(text) \in [1 .. n -> Letter] BY <1>2 DEF Stored
<1> HIDE DEF n
<1>4. Stored(text) \in Seq(Letter) /\ Len(Stored(text)) = n BY <1>1, <1>3
<1>5. Stored(text) = File!Overwritten(pos, text) BY DEF Stored, File!Overwritten
<1> QED BY <1>1, <1>4, <1>5

\* LOB#write moves the position behind what it has written.
LEMMA WriteInv ==
  ASSUME LobInv, NEW text \in Texts, Write(text)
  PROVE  LobInv' /\ File!Next
<1>1. /\ ~call.on /\ UNCHANGED <<isClob, call>> /\ LobTypeOK
      /\ pos \in Nat /\ pos < Modulus /\ Modulus \in Nat /\ MaxLen \in Nat /\ MaxLen < Modulus
      /\ Len(text) \in Nat /\ (text = <<>> <=> Len(text) = 0)
  <2>1. text \in Seq(Letter) BY LobAssumption
  <2> QED BY <2>1, LobAssumption DEF Write, LobInv, LobTypeOK, Position
<1>2. PICK bytes \in Bytes(Len(text)) :
        /\ pos' = (pos + Advance(Len(text), bytes)) % Modulus
        /\ answer' = <<"count", Advance(Len(text), bytes)>>
  BY DEF Write, Return
<1>3. Advance(Len(text), bytes) = Len(text) BY DEF Advance, Bytes
<1>4. pos + Len(text) < Modulus
  <2>1. CASE text = <<>> BY <1>1, <2>1
  <2>2. CASE text # <<>> BY <1>1, <2>2 DEF Write, Fits
  <2> QED BY <2>1, <2>2
<1>5. pos' = pos + Len(text) /\ answer' = <<"count", Len(text)>>
  <2>1. \A n \in Nat : n < Modulus => n % Modulus = n BY <1>1
  <2>2. (pos + Len(text)) % Modulus = pos + Len(text) BY <1>1, <1>4, <2>1
  <2> QED BY <1>2, <1>3, <2>2
<1>6. content' = IF text = <<>> THEN content ELSE File!Overwritten(pos, text)
  BY <1>1, StoredText DEF Write
<1>7. content' \in Seq(Letter) /\ Len(content') <= MaxLen
  BY <1>1, StoredText DEF Write, LobTypeOK
<1>8. pos' \in Position BY <1>1, <1>4, <1>5 DEF Position
<1>9. LobInv' BY <1>1, <1>7, <1>8 DEF LobInv, LobTypeOK
<1>10. File!Write(text) BY <1>1, <1>5, <1>6 DEF File!Write
<1> QED BY <1>9, <1>10 DEF File!Next

\* A write that raises keeps the invariant.
LEMMA WriteRaisesInv ==
  ASSUME LobInv, NEW text \in Texts, WriteRaises(text)
  PROVE  LobInv' /\ File!Next
<1>1. /\ ~call.on /\ UNCHANGED <<isClob, pos, call>> /\ LobTypeOK /\ answer' = <<"raised">>
  BY DEF WriteRaises, LobInv, Raise, Return
<1>2. CASE UNCHANGED content
  <2>1. LobInv' BY <1>1, <1>2 DEF LobInv, LobTypeOK
  <2>2. File!Fails BY <1>1, <1>2 DEF File!Fails
  <2> QED BY <2>1, <2>2 DEF File!Next
<1>3. CASE Fits(text) /\ content' = Stored(text)
  <2>1. LobInv' BY <1>1, <1>3, StoredText DEF LobInv, LobTypeOK
  <2>2. File!WriteRaises(text) BY <1>1, <1>3, StoredText DEF File!WriteRaises
  <2> QED BY <2>1, <2>2 DEF File!Next
<1> QED BY <1>2, <1>3 DEF WriteRaises

\* LOB#seek is a seek of the file to the same place.
LEMMA SeekInv ==
  ASSUME LobInv, NEW amount \in Targets, NEW whence \in DOMAIN Base, Seek(amount, whence)
  PROVE  LobInv' /\ File!Next
<1> DEFINE p == Base[whence] + amount
<1>1. /\ ~call.on /\ UNCHANGED <<isClob, content, call>> /\ LobTypeOK
      /\ amount \in Int /\ pos \in Nat /\ Len(content) \in Nat /\ Modulus \in Nat \ {0}
  BY LobAssumption DEF Seek, LobInv, LobTypeOK, Position
<1>2. whence \in DOMAIN File!Start /\ File!Start[whence] = Base[whence]
  BY <1>1 DEF Base, File!Start
<1>3. IF p \in -(Modulus \div 2) .. Modulus - 1
      THEN pos' = p % Modulus /\ answer' = <<"self">>
      ELSE UNCHANGED pos /\ answer' = <<"raised">>
  BY DEF Seek, Return, Raise
<1>4. p \in Int BY <1>1 DEF Base
<1>5. CASE p \in -(Modulus \div 2) .. Modulus - 1
  <2>1. \A n \in Int : n % Modulus \in 0 .. Modulus - 1 BY <1>1
  <2>2. pos' \in Position BY <1>3, <1>4, <1>5, <2>1 DEF Position
  <2>3. LobInv' BY <1>1, <2>2 DEF LobInv, LobTypeOK
  <2>4. File!Seek(amount, whence) BY <1>1, <1>2, <1>3, <1>5 DEF File!Seek
  <2> QED BY <1>2, <2>3, <2>4 DEF File!Next
<1>6. CASE p \notin -(Modulus \div 2) .. Modulus - 1
  <2>1. UNCHANGED pos /\ answer' = <<"raised">> BY <1>3, <1>6
  <2>2. LobInv' BY <1>1, <2>1 DEF LobInv, LobTypeOK
  <2>3. File!Fails BY <1>1, <2>1 DEF File!Fails
  <2> QED BY <2>2, <2>3 DEF File!Next
<1> QED BY <1>5, <1>6

\* LOB#rewind goes to the beginning of the file.
LEMMA RewindInv ==
  ASSUME LobInv, Rewind
  PROVE  LobInv' /\ File!Next
<1>1. ~call.on /\ UNCHANGED <<isClob, content, call>> /\ pos' = 0 /\ answer' = <<"self">>
  BY DEF Rewind, Return
<1>2. 0 \in Position BY LobAssumption DEF Position
<1>3. LobInv' BY <1>1, <1>2 DEF LobInv, LobTypeOK
<1>4. File!Rewind BY <1>1 DEF File!Rewind
<1> QED BY <1>3, <1>4 DEF File!Next

\* LOB#truncate cuts or pads the text as the file does.
LEMMA TruncateInv ==
  ASSUME LobInv, NEW n \in Sizes, Truncate(n)
  PROVE  LobInv' /\ File!Next
<1>1. /\ ~call.on /\ UNCHANGED <<isClob, pos, call>> /\ LobTypeOK
      /\ content \in Seq(Letter) /\ n \in Nat /\ Len(content) \in Nat
      /\ Len(content) <= MaxLen /\ MaxLen \in Nat
  BY LobAssumption DEF Truncate, LobInv, LobTypeOK
<1>2. CASE n <= Len(content)
  <2>1. content' = SubSeq(content, 1, n) /\ answer' \in {<<"self">>, <<"raised">>}
    BY <1>2 DEF Truncate, Return, Raise
  <2>2. SubSeq(content, 0 + 1, n) \in Seq(Letter) /\ Len(SubSeq(content, 0 + 1, n)) = n - 0
    BY <1>1, <1>2, TextRead
  <2>3. content' \in Seq(Letter) /\ Len(content') <= MaxLen BY <1>1, <1>2, <2>1, <2>2
  <2>4. LobInv' BY <1>1, <2>3 DEF LobInv, LobTypeOK
  <2>5. File!Truncate(n) BY <1>1, <1>2, <2>1 DEF File!Truncate
  <2> QED BY <2>4, <2>5 DEF File!Next
<1>3. CASE ~(n <= Len(content))
  <2>1. UNCHANGED content /\ answer' = <<"raised">> BY <1>3 DEF Truncate, Raise, Return
  <2>2. LobInv' BY <1>1, <2>1 DEF LobInv, LobTypeOK
  <2>3. File!Fails BY <1>1, <2>1 DEF File!Fails
  <2> QED BY <2>2, <2>3 DEF File!Next
<1> QED BY <1>2, <1>3

\* The calls that only look change nothing in the file.
LEMMA LookInv ==
  ASSUME LobInv, Eof \/ Size \/ LookRaises
  PROVE  LobInv' /\ File!Next
<1>1. ~call.on /\ UNCHANGED <<isClob, content, pos, call>>
  BY DEF Eof, Size, LookRaises
<1>2. LobInv' BY <1>1 DEF LobInv, LobTypeOK, Progress, PlaceOK, GotOK, InText
<1>3. CASE Eof
  <2>1. pos \in Nat /\ Len(content) \in Nat
    BY LobAssumption DEF LobInv, LobTypeOK, Position
  <2> QED BY <1>1, <1>2, <1>3, <2>1 DEF Eof, Return, File!Eof, File!Next
<1>4. CASE Size BY <1>1, <1>2, <1>4 DEF Size, Return, File!Size, File!Next
<1>5. CASE LookRaises BY <1>1, <1>2, <1>5 DEF LookRaises, Raise, Return, File!Fails, File!Next
<1> QED BY <1>3, <1>4, <1>5

-------------------------------------------------------------------------------

\* Every step of a LOB keeps the invariant.
LEMMA LobNextInv ==
  LobInv /\ [LobNext]_lobVars => LobInv' /\ [File!Next]_File!fileVars
<1> SUFFICES ASSUME LobInv, [LobNext]_lobVars
             PROVE  LobInv' /\ (File!Next \/ UNCHANGED File!fileVars)
  OBVIOUS
<1>1. CASE \E asked \in (Sizes \ {0}) \union {Nil} : ReadStart(asked)
  BY <1>1, ReadStartInv
<1>2. CASE ReadPiece BY <1>2, ReadPieceInv
<1>3. CASE ReadNothing BY <1>3, ReadNothingInv
<1>4. CASE ReadRaises BY <1>4, ReadRaisesInv
<1>5. CASE \E text \in Texts : Write(text) \/ WriteRaises(text)
  BY <1>5, WriteInv, WriteRaisesInv
<1>6. CASE \E amount \in Targets, whence \in DOMAIN Base : Seek(amount, whence)
  BY <1>6, SeekInv
<1>7. CASE \E n \in Sizes : Truncate(n) BY <1>7, TruncateInv
<1>8. CASE Rewind BY <1>8, RewindInv
<1>9. CASE Eof \/ Size \/ LookRaises BY <1>9, LookInv
<1>10. CASE UNCHANGED lobVars
  BY <1>10 DEF lobVars, LobInv, LobTypeOK, Progress, PlaceOK, GotOK, InText, File!fileVars
<1> QED
  BY <1>1, <1>2, <1>3, <1>4, <1>5, <1>6, <1>7, <1>8, <1>9, <1>10 DEF LobNext

\* In the composed library a LOB does what LobNext says.
LEMMA SpecLob == LibrarySpec => LobInit /\ [][LobNext]_lobVars
<1>1. LibraryInit => LobInit BY DEF LibraryInit
<1>2. [LibraryNext]_libraryVars => [LobNext]_lobVars BY DEF LibraryNext, libraryVars
<1> QED BY <1>1, <1>2, PTL DEF LibrarySpec

\* For any texts, widths of characters, sizes of pieces and UB4MAXVAL, and
\* with errors and exceptions anywhere: read returns the text from the
\* position on, and all of it without a size; the position moves by what was
\* read or written, or to where seek was asked to go.
THEOREM LobIsFile == LibrarySpec => ImplementsLobFile
<1>1. LobInit => File!Init
  BY LobInitInv, IdleInv DEF LobInit, Idle, File!Init
<1>2. QED
  BY <1>1, LobInitInv, LobNextInv, SpecLob, PTL DEF ImplementsLobFile, File!Spec

-------------------------------------------------------------------------------
(***************************************************************************)
(* The inductive invariant of Bfile.                                       *)
(***************************************************************************)

\* open_bfile is called for closed files only, and nothing else happens to
\* the object meanwhile.
OpeningClosed == \A f \in opening : ~isOpen[f]

BfileInv == BfileTypeOK /\ OpeningClosed /\ OpenFileIsNamed /\ CachedNamesTrue

\* BFILEs start closed and without names.
LEMMA BfileInitInv == BfileInit => BfileInv
BY BfileAssumption, Zenon
DEF BfileInit, BfileInv, BfileTypeOK, OpeningClosed, OpenFileIsNamed, CachedNamesTrue, Locator

\* Opening a BFILE, in either attempt, keeps the invariant.
LEMMA OpenStepInv ==
  ASSUME BfileInv, NEW f \in BFILE, ReadFile(f) \/ Attempt(f) \/ OpenRaises(f)
  PROVE  BfileInv'
<1> USE DEF BfileInv, BfileTypeOK, OpeningClosed, OpenFileIsNamed, CachedNamesTrue, names
<1>1. CASE ReadFile(f) BY <1>1 DEF ReadFile, Ready
<1>2. CASE OpenRefused(f)
  <2>1. isOpen' = isOpen /\ served' = served
    BY <1>2 DEF OpenRefused, ClosedImplicitly
  <2>2. attempt' \in {0, 1} BY <1>2 DEF OpenRefused
  <2> QED BY <1>2, <2>1, <2>2 DEF OpenRefused
<1>3. CASE OpenDone(f) BY <1>3 DEF OpenDone
<1>4. CASE OpenAgain(f) BY <1>4 DEF OpenAgain
<1>5. CASE OpenRaises(f) BY <1>5 DEF OpenRaises
<1> QED BY <1>1, <1>2, <1>3, <1>4, <1>5 DEF Attempt

\* Filling the cache of the names from the locator makes it true.
LEMMA CachedInv ==
  ASSUME BfileInv, NEW f \in BFILE, NEW ivar, Cached(f, ivar)
  PROVE  /\ dirAlias' \in [BFILE -> DirAlias \union {NoName}]
         /\ filename' \in [BFILE -> Filename \union {NoName}]
         /\ \A g \in exists : /\ dirAlias'[g] \in {NoName, locator[g][1]}
                             /\ filename'[g] \in {NoName, locator[g][2]}
<1> USE DEF BfileInv, BfileTypeOK, CachedNamesTrue
<1>1. locator[f][1] \in DirAlias /\ locator[f][2] \in Filename
  BY DEF Locator
<1>2. CASE ivar[f] # NoName
  BY <1>2 DEF Cached
<1>3. CASE ivar[f] = NoName
  <2>1. /\ dirAlias' = [dirAlias EXCEPT ![f] = locator[f][1]]
        /\ filename' = [filename EXCEPT ![f] = locator[f][2]]
    BY <1>3 DEF Cached
  <2> QED BY <1>1, <2>1
<1> QED BY <1>2, <1>3

\* The close before a change of name leaves the BFILE closed.
LEMMA CloseFirstInv ==
  ASSUME BfileInv, NEW f \in BFILE, CloseFirst(f), f \in exists
  PROVE  /\ isOpen' = [isOpen EXCEPT ![f] = FALSE] /\ isOpen' \in [BFILE -> BOOLEAN]
         /\ served' \in [BFILE -> Locator \union {NoName}]
         /\ f \notin givenUp => served'[f] = NoName
         /\ \A g \in BFILE \ {f} : served'[g] = served[g]
BY DEF CloseFirst, BfileInv, BfileTypeOK, OpenFileIsNamed

\* The directory and file name of a BFILE, cached or asked for, are names.
LEMMA NameInv ==
  ASSUME BfileInv, NEW f \in exists
  PROVE  NameOf(f, filename, 2) \in Filename /\ NameOf(f, dirAlias, 1) \in DirAlias
BY DEF NameOf, BfileInv, BfileTypeOK, Locator

\* Another name: the old file is closed.
LEMMA RenameInv ==
  ASSUME BfileInv, NEW f \in BFILE, Ready(f), CloseFirst(f),
         NEW d \in DirAlias, NEW n \in Filename,
         locator' = [locator EXCEPT ![f] = <<d, n>>],
         dirAlias' = [dirAlias EXCEPT ![f] = d], filename' = [filename EXCEPT ![f] = n],
         UNCHANGED <<exists, opening, attempt, givenUp>>
  PROVE  BfileInv'
<1> USE DEF BfileInv
<1>1. f \in exists /\ f \notin opening BY DEF Ready
<1>2. BfileTypeOK' BY <1>1, CloseFirstInv DEF BfileTypeOK, Locator
<1>3. OpeningClosed' BY <1>1, CloseFirstInv DEF OpeningClosed, BfileTypeOK
<1>4. OpenFileIsNamed' BY <1>1, CloseFirstInv DEF OpenFileIsNamed, BfileTypeOK
<1>5. CachedNamesTrue' BY <1>1 DEF CachedNamesTrue, BfileTypeOK
<1> QED BY <1>2, <1>3, <1>4, <1>5

\* The setters of the names keep the invariant.
LEMMA NameStepInv ==
  ASSUME BfileInv, NEW f \in BFILE,
         \/ GetDirAlias(f) \/ GetFilename(f)
         \/ \E name \in DirAlias : SetDirAlias(f, name)
         \/ \E name \in Filename : SetFilename(f, name)
         \/ \E ivar \in {dirAlias, filename} : CloseRaises(f, ivar) \/ SetNameRaises(f, ivar)
         \/ Free(f)
  PROVE  BfileInv'
<1> USE DEF BfileInv
<1>1. CASE GetDirAlias(f) \/ GetFilename(f)
  BY <1>1, CachedInv
  DEF GetDirAlias, GetFilename, BfileTypeOK, OpeningClosed, OpenFileIsNamed, CachedNamesTrue
<1>2. CASE \E name \in DirAlias : SetDirAlias(f, name)
  BY <1>2, NameInv, RenameInv DEF SetDirAlias, Ready
<1>3. CASE \E name \in Filename : SetFilename(f, name)
  BY <1>3, NameInv, RenameInv DEF SetFilename, Ready
<1>4. ASSUME NEW ivar, CloseRaises(f, ivar) PROVE BfileInv'
  BY <1>4, CachedInv
  DEF CloseRaises, BfileTypeOK, OpeningClosed, OpenFileIsNamed, CachedNamesTrue
<1>5. ASSUME NEW ivar, SetNameRaises(f, ivar) PROVE BfileInv'
  <2>1. /\ f \in exists /\ f \notin opening /\ Cached(f, ivar) /\ CloseFirst(f)
        /\ UNCHANGED <<exists, locator, opening, attempt, givenUp>>
    BY <1>5 DEF SetNameRaises, Ready
  <2>2. BfileTypeOK' BY <2>1, CachedInv, CloseFirstInv DEF BfileTypeOK
  <2>3. OpeningClosed' BY <2>1, CloseFirstInv DEF OpeningClosed, BfileTypeOK
  <2>4. OpenFileIsNamed' BY <2>1, CloseFirstInv DEF OpenFileIsNamed, BfileTypeOK
  <2>5. CachedNamesTrue' BY <2>1, CachedInv DEF CachedNamesTrue
  <2> QED BY <2>2, <2>3, <2>4, <2>5
<1>6. CASE Free(f)
  BY <1>6 DEF Free, Ready, names, BfileTypeOK, OpeningClosed, OpenFileIsNamed, CachedNamesTrue
<1> QED BY <1>1, <1>2, <1>3, <1>4, <1>5, <1>6

\* Every step of the BFILEs keeps the invariant.
LEMMA BfileNextInv == BfileInv /\ [BfileNext]_bfileVars => BfileInv'
<1>1. BfileInv /\ BfileNext => BfileInv'
  BY OpenStepInv, NameStepInv, Zenon DEF BfileNext
<1>2. BfileInv /\ UNCHANGED bfileVars => BfileInv'
  BY DEF bfileVars, names, BfileInv, BfileTypeOK, OpeningClosed, OpenFileIsNamed, CachedNamesTrue
<1> QED BY <1>1, <1>2

\* The invariant of the BFILEs holds in the composed library.
LEMMA BfileInvAlways == LibrarySpec => []BfileInv
<1>1. LibraryInit => BfileInit BY DEF LibraryInit
<1>2. [LibraryNext]_libraryVars => [BfileNext]_bfileVars BY DEF LibraryNext, libraryVars
<1> QED BY <1>1, <1>2, BfileInitInv, BfileNextInv, PTL DEF LibrarySpec

\* For any number of BFILEs and any limit of open files, no BFILE reads another file
\* than the one it names, unless an exception has cut its open or close, and the
\* cached names are those of the locator.
THEOREM FilesAlwaysAsNamed == LibrarySpec => []FilesAsNamed
<1>1. BfileInv => FilesAsNamed BY DEF BfileInv, FilesAsNamed
<1> QED BY <1>1, BfileInvAlways, PTL

PartOK == part \in {"lob", "bfile"}

\* Positions stay unsigned 64 bit numbers, and the rest keeps its type.
THEOREM LibraryTypes == LibrarySpec => []LibraryTypeOK
<1>1. LibraryInit => PartOK BY DEF LibraryInit, PartOK
<1>2. PartOK /\ [LibraryNext]_libraryVars => PartOK' BY DEF LibraryNext, libraryVars, PartOK
<1>3. PartOK /\ LobInv /\ BfileInv => LibraryTypeOK BY DEF LibraryTypeOK, PartOK, LobInv, BfileInv
<1>4. LibrarySpec => []PartOK BY <1>1, <1>2, PTL DEF LibrarySpec
<1>5. LibrarySpec => []LobInv BY LobInitInv, LobNextInv, SpecLob, PTL
<1> QED BY <1>3, <1>4, <1>5, BfileInvAlways, PTL
===============================================================================
