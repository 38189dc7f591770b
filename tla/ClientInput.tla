---------------------------- MODULE ClientInput ----------------------------
(***************************************************************************)
(* The server's side of one socket client (internal/ptyproxy/server.go):   *)
(* the byte stream from the client mixes keyboard bytes with RESIZE, SCROLL*)
(* and IMAGE frames.  clientReader gets it in arbitrary chunks, appends    *)
(* each to c.in and runs parseClientInput until it has to wait for more.   *)
(* Frames move the view the client has on the screen, as claude's output   *)
(* does.                                                                   *)
(*                                                                         *)
(* What writes into the stream is another module's (SocketClient); it also *)
(* records in asked what every item asks for.  The parser only sees bytes, *)
(* with the lengths and encodings of the code.                             *)
(*                                                                         *)
(* Two things make it lose step with what was written, and astray marks    *)
(* both: a read that ends between the two bytes of a magic, and a picture  *)
(* whose length is not that of its payload, if what is left over, or       *)
(* missing, can be taken for (a part of) a frame.                          *)
(***************************************************************************)
EXTENDS Integers, Sequences, SequencesExt, ScrollRenderer

CONSTANTS
  MaxImage,     \* maxImageBytes
  HistMax,      \* histMax
  ScreenRows,   \* rows of the VT model
  SocketBuf     \* bound: bytes the socket holds

ASSUME ClientInputAssumption ==
  /\ {MaxImage, HistMax, ScreenRows, SocketBuf} \subseteq Nat \ {0}
  /\ HistMax + ScreenRows <= 32767

VARIABLES
  wire,      \* bytes in the socket
  buf,       \* client.in
  parsing,   \* inside parseClientInput
  asked,     \* history: what the items on their way ask for
  astray,    \* history: the parser is not in step with the items
  hist,      \* lines in the history of the VT model
  rows,      \* client.rows
  view       \* client.sr

viewVars == <<hist, rows, view>>
connVars == <<wire, buf, parsing, asked, astray, viewVars>>

Magic     == {255, 254, 253}   \* the second bytes; the first is 255
ResizeLen == 6
ScrollLen == 4
ImageHead == 7

U16(n)  == <<(n % 65536) \div 256, n % 256>>
Word(b) == b[1] * 256 + b[2]
Int16(b) == IF Word(b) >= 32768 THEN Word(b) - 65536 ELSE Word(b)

\* An item: keys, or a frame.  The length in an IMAGE frame may be a lie.
Bytes(it) ==
  CASE it.kind = "keys"   -> it.data
    [] it.kind = "resize" -> <<255, 255>> \o U16(it.rows) \o U16(80)
    [] it.kind = "scroll" -> <<255, 254>> \o U16(it.dy)
    [] it.kind = "image"  -> <<255, 253>> \o U16(it.len \div 65536) \o U16(it.len)
                               \o <<1>> \o it.data

\* The payload of an IMAGE frame that is taken with it, and what is left over:
\* of a frame with an invalid length only the header is taken.
Taken(it)   == IF it.len \in 1 .. MaxImage THEN it.len ELSE 0
Surplus(it) == SubSeq(it.data, Taken(it) + 1, Len(it.data))

Forwards(d) == [i \in DOMAIN d |-> <<"forward", d[i]>>]

\* The picture takes bytes of what is written next, or what is left over of it
\* has bytes of a magic.
Misleads(it) ==
  it.kind = "image" /\ (Len(it.data) < Taken(it) \/ Surplus(it) \notin Seq(0 .. 252))

\* What it asks for: of a picture, what is left over is typed.  What comes of one
\* that misleads is not said.
Effects(it) ==
  CASE it.kind = "keys"   -> Forwards(it.data)
    [] it.kind = "resize" -> << <<"resize", it.rows>> >>
    [] it.kind = "scroll" -> << <<"scroll", it.dy>> >>
    [] it.kind = "image" /\ ~Misleads(it) ->
         (IF Taken(it) = 0 THEN <<>> ELSE << <<"image", SubSeq(it.data, 1, Taken(it))>> >>)
           \o Forwards(Surplus(it))
    [] OTHER -> <<>>

\* One write of a client (connW.mu keeps it whole).  typed: it stands for
\* something the user did.
Send(it, typed) ==
  /\ Len(wire \o Bytes(it)) <= SocketBuf
  /\ wire' = wire \o Bytes(it) /\ astray' = (astray \/ Misleads(it))
  /\ asked' = asked \o [i \in DOMAIN Effects(it) |-> [do |-> Effects(it)[i], typed |-> typed]]

\* conn.Read.
Read(n) ==
  /\ ~parsing /\ n \in 1 .. Len(wire)
  /\ buf' = buf \o SubSeq(wire, 1, n) /\ wire' = SubSeq(wire, n + 1, Len(wire))
  /\ parsing' = TRUE
  /\ UNCHANGED <<asked, astray, viewVars>>

-----------------------------------------------------------------------------
Head2(m) == Len(buf) >= 2 /\ buf[1] = 255 /\ buf[2] = m
HasMagic == \E m \in Magic : Head2(m)

\* One turn of the parser's loop takes bytes off the buffer and does something;
\* or it returns, to be called again after the next read.
Take(n, es)  == [len |-> n, do |-> es, return |-> FALSE]
Await        == [len |-> 0, do |-> <<>>, return |-> TRUE]

Resize == IF Len(buf) < ResizeLen THEN Await
          ELSE Take(ResizeLen, << <<"resize", Word(SubSeq(buf, 3, 4))>> >>)

\* Mutant of ScrollFrame: dy is taken for an unsigned number.
ScrollUnsigned == IF Len(buf) < ScrollLen THEN Await
                  ELSE Take(ScrollLen, << <<"scroll", Word(SubSeq(buf, 3, 4))>> >>)

ScrollFrame == IF Len(buf) < ScrollLen THEN Await
               ELSE Take(ScrollLen, << <<"scroll", Int16(SubSeq(buf, 3, 4))>> >>)

\* The payload goes to handleImagePaste; of a frame with an invalid length only
\* the header is skipped.  (high comes first, for the tools' sake: a length has
\* 32 bits.)
Image ==
  LET high == Word(SubSeq(buf, 3, 4))
      n    == high * 65536 + Word(SubSeq(buf, 5, 6)) IN
  IF Len(buf) < ImageHead THEN Await
  ELSE IF high > MaxImage \div 65536 \/ n \notin 1 .. MaxImage THEN Take(ImageHead, <<>>)
  ELSE IF Len(buf) < ImageHead + n THEN Await
  ELSE Take(ImageHead + n, << <<"image", SubSeq(buf, ImageHead + 1, ImageHead + n)>> >>)

\* Bytes before the next magic.
Cuts == {i \in 1 .. Len(buf) - 1 : buf[i] = 255 /\ buf[i + 1] \in Magic}
Cut  == IF Cuts = {} THEN Len(buf) ELSE Min(Cuts) - 1

Forwarded(n) == Forwards(SubSeq(buf, 1, n))

\* Mutant of Forward: everything is forwarded, up to the end of the read.
ForwardAll == [Take(Len(buf), Forwarded(Len(buf))) EXCEPT !.return = TRUE]

\* Mutant of Forward: the last byte is kept back, as if a magic could follow.
ForwardHoldsBack == LET n == IF Cut = 0 THEN 0 ELSE Cut - 1 IN
                    [Take(n, Forwarded(n)) EXCEPT !.return = TRUE]

\* The leading bytes that are no magic are written to the master.
Forward == [Take(Cut, Forwarded(Cut)) EXCEPT !.return = Len(buf) - Cut < 2]

Turn == CASE Head2(255) -> Resize
          [] Head2(254) -> ScrollFrame
          [] Head2(253) -> Image
          [] OTHER      -> Forward

\* All there is is forwarded, and the last of it is the first byte of a magic
\* whose second is not read yet.
HalfMagic ==
  /\ buf # <<>> /\ buf[Len(buf)] = 255 /\ ~HasMagic /\ Cut = Len(buf)
  /\ wire # <<>> /\ wire[1] \in Magic

\* Frames are rendered for the client at once.
Moved(e) == IF e[1] = "scroll" THEN Scroll(view, e[2]) ELSE view
Show(es) ==
  IF es # <<>> /\ es[1][1] \in {"resize", "scroll"}
    THEN /\ rows' = IF es[1][1] = "resize" THEN es[1][2] ELSE rows
         /\ view' = Rendered(Moved(es[1]), hist + ScreenRows, rows')
    ELSE UNCHANGED <<rows, view>>

Parse ==
  /\ parsing
  /\ buf' = SubSeq(buf, Turn.len + 1, Len(buf))
  /\ asked' = SubSeq(asked, Len(Turn.do) + 1, Len(asked))
  /\ Show(Turn.do) /\ parsing' = ~Turn.return /\ astray' = (astray \/ HalfMagic)
  /\ UNCHANGED <<wire, hist>>

-----------------------------------------------------------------------------
\* claude's output scrolls a line out, or erases the history (ED 3), and is
\* rendered for the client.
Output ==
  /\ hist' \in {IF hist = HistMax THEN hist ELSE hist + 1, 0}
  /\ view' = Rendered(view, hist' + ScreenRows, rows)
  /\ UNCHANGED <<wire, buf, parsing, asked, astray, rows>>

-----------------------------------------------------------------------------
\* Between two reads the carry-over is empty or starts with a magic: nothing
\* else ever waits.
ParseTypeOK ==
  /\ wire \in Seq(0 .. 255) /\ buf \in Seq(0 .. 255) /\ {parsing, astray} \subseteq BOOLEAN
  /\ ~parsing /\ buf # <<>> => HasMagic
  /\ hist \in 0 .. HistMax /\ rows \in Nat /\ view \in View
=============================================================================
