---------------------------- MODULE InputProofs ----------------------------
(***************************************************************************)
(* Proofs about the way of input to claude: SocketClient with its          *)
(* ClientInput, from the keyboard to the parser of the server, and PtyFlow,*)
(* from there to the pty.                                                  *)
(*                                                                         *)
(* The argument for SocketClient.  Bytes, and what they ask for, are a     *)
(* stream of keys and whole frames: Spoken, the least relation closed under*)
(* one more of them, so that what holds of every stream follows from its   *)
(* definition.  Whatever clients write is such a stream; a turn of the     *)
(* parser takes whole keys and frames off it; and a read, wherever it ends,*)
(* leaves whole ones and the beginning of at most one frame (Streaming).   *)
(*                                                                         *)
(* So asked is what the server will do, in that order.  That every key     *)
(* typed finds the live view (Ahead) and that the server will have the     *)
(* height of the terminal (Sized) are then facts about the last scroll and *)
(* the last resize on their way (Latest), and about what the client has    *)
(* still to write (ThenLive).                                              *)
(*                                                                         *)
(* All this holds while the parser is in step (InStep).  Two things end    *)
(* it, and astray records both: a picture that misleads, and a read that   *)
(* ends inside a magic; of the turn that forwards half a magic the bytes   *)
(* before it are still what was asked for (HalfAsked).                     *)
(***************************************************************************)
EXTENDS SocketClient, PtyFlow, SequenceTheorems, WellFoundedInduction, TLAPS

-----------------------------------------------------------------------------
(***************************************************************************)
(* What a client can say: keys and whole frames, in any order.             *)
(***************************************************************************)
Byte == 0 .. 255

\* What the server does for a client.
Effect == {"forward", "resize", "scroll", "image"} \X (Int \cup Seq(Byte))

IsKey(b, x) == \E c \in 0 .. 252 : b = <<c>> /\ x = << <<"forward", c>> >>

Claimed(b) == (b[3] * 256 + b[4]) * 65536 + (b[5] * 256 + b[6])

\* A frame and what it asks for, byte by byte.
IsFrame(b, x) ==
  /\ Len(b) >= 2 /\ b[1] = 255
  /\ \/ b[2] = 255 /\ Len(b) = 6 /\ x = << <<"resize", b[3] * 256 + b[4]>> >>
     \/ b[2] = 254 /\ Len(b) = 4 /\ x = << <<"scroll", Int16(<<b[3], b[4]>>)>> >>
     \/ /\ b[2] = 253 /\ Len(b) >= 7
        /\ IF Claimed(b) \in 1 .. MaxImage
             THEN Len(b) = 7 + Claimed(b) /\ x = << <<"image", SubSeq(b, 8, Len(b))>> >>
             ELSE Len(b) = 7 /\ x = <<>>

Atom(b, x) == b \in Seq(Byte) /\ x \in Seq(Effect) /\ (IsKey(b, x) \/ IsFrame(b, x))

\* Bytes and what they ask for: the least relation that has the empty stream
\* and is closed under one more key or frame.
Pairs == Seq(Byte) \X Seq(Effect)
Closed(P) ==
  /\ << <<>>, <<>> >> \in P
  /\ \A s \in Seq(Byte), e \in Seq(Effect), b \in Seq(Byte), x \in Seq(Effect) :
       <<s, e>> \in P /\ Atom(b, x) => <<s \o b, e \o x>> \in P
Spoken(s, e) ==
  s \in Seq(Byte) /\ e \in Seq(Effect) /\ \A P \in SUBSET Pairs : Closed(P) => <<s, e>> \in P

LEMMA SpokenEmpty == Spoken(<<>>, <<>>)
  BY DEF Spoken, Closed

LEMMA NoPair == << <<>>, <<>> >> \in Pairs
<1>1. <<>> \in Seq(Byte) /\ <<>> \in Seq(Effect)
  OBVIOUS
<1> QED BY <1>1 DEF Pairs

LEMMA Regroup ==
  /\ \A b1, b2, b3 \in Seq(Byte) : (b1 \o b2) \o b3 = b1 \o (b2 \o b3)
  /\ \A x1, x2, x3 \in Seq(Effect) : (x1 \o x2) \o x3 = x1 \o (x2 \o x3)
<1>1. \A b1, b2, b3 \in Seq(Byte) : (b1 \o b2) \o b3 = b1 \o (b2 \o b3)
  BY ConcatAssociative
<1>2. \A x1, x2, x3 \in Seq(Effect) : (x1 \o x2) \o x3 = x1 \o (x2 \o x3)
  BY ConcatAssociative
<1> QED BY <1>1, <1>2

Grouped(x1, x2, x3) == (x1 \o x2) \o x3 = x1 \o (x2 \o x3)

LEMMA RegroupThree ==
  /\ \A b1, b2, b3 \in Seq(Byte) : Grouped(b1, b2, b3)
  /\ \A x1, x2, x3 \in Seq(Effect) : Grouped(x1, x2, x3)
  BY Regroup, Zenon DEF Grouped

FourGroup(b1, b2, b3, b4) == b1 \o (b2 \o (b3 \o b4)) = ((b1 \o b2) \o b3) \o b4

LEMMA RegroupFour ==
  ASSUME NEW b1 \in Seq(Byte), NEW b2 \in Seq(Byte), NEW b3 \in Seq(Byte), NEW b4 \in Seq(Byte)
  PROVE  FourGroup(b1, b2, b3, b4)
<1>0. b1 \in Seq(Byte) /\ b2 \in Seq(Byte) /\ b3 \in Seq(Byte) /\ b4 \in Seq(Byte)
  OBVIOUS
<1>1. b3 \o b4 \in Seq(Byte) /\ b1 \o b2 \in Seq(Byte)
  OBVIOUS
<1>2. (b1 \o b2) \o (b3 \o b4) = b1 \o (b2 \o (b3 \o b4))
  BY ONLY <1>0, <1>1, Regroup, Zenon
<1>3. ((b1 \o b2) \o b3) \o b4 = (b1 \o b2) \o (b3 \o b4)
  BY ONLY <1>0, <1>1, Regroup, Zenon
<1> QED BY <1>2, <1>3 DEF FourGroup

LEMMA SpokenThen ==
  ASSUME NEW s, NEW e, Spoken(s, e), NEW b, NEW x, Atom(b, x)
  PROVE  Spoken(s \o b, e \o x)
<1>1. s \in Seq(Byte) /\ e \in Seq(Effect) /\ b \in Seq(Byte) /\ x \in Seq(Effect)
  BY DEF Spoken, Atom
<1>2. s \o b \in Seq(Byte) /\ e \o x \in Seq(Effect)
  BY <1>1
<1>3. ASSUME NEW P \in SUBSET Pairs, Closed(P) PROVE <<s \o b, e \o x>> \in P
  <2>1. <<s, e>> \in P
    BY <1>3 DEF Spoken
  <2> QED BY <1>1, <1>3, <2>1 DEF Closed
<1> QED BY <1>2, <1>3 DEF Spoken

\* One key or frame at the front; nothing asks for nothing.
Fronted(s, e) ==
  \/ s = <<>> /\ e = <<>>
  \/ \E b \in Seq(Byte), r \in Seq(Byte), x \in Seq(Effect), g \in Seq(Effect) :
       Atom(b, x) /\ s = b \o r /\ e = x \o g /\ Spoken(r, g)

LEMMA SpokenFront ==
  ASSUME NEW s, NEW e, Spoken(s, e)
  PROVE  Fronted(s, e)
<1> DEFINE P == {p \in Pairs : Fronted(p[1], p[2])}
<1>1. << <<>>, <<>> >> \in P
  BY NoPair DEF Fronted
<1>2. ASSUME NEW t \in Seq(Byte), NEW f \in Seq(Effect), NEW c \in Seq(Byte), NEW y \in Seq(Effect),
             <<t, f>> \in P, Atom(c, y)
      PROVE  <<t \o c, f \o y>> \in P
  <2>1. t \o c \in Seq(Byte) /\ f \o y \in Seq(Effect)
    OBVIOUS
  <2>2. CASE t = <<>> /\ f = <<>>
    <3>1. t \o c = c \o <<>> /\ f \o y = y \o <<>>
      BY <2>2, ConcatEmptySeq
    <3>2. <<>> \in Seq(Byte) /\ <<>> \in Seq(Effect)
      OBVIOUS
    <3>3. Fronted(t \o c, f \o y)
      BY <1>2, <3>1, <3>2, SpokenEmpty DEF Fronted
    <3> QED BY <2>1, <3>3 DEF Pairs
  <2>3. ASSUME NEW b \in Seq(Byte), NEW r \in Seq(Byte), NEW x \in Seq(Effect), NEW g \in Seq(Effect),
               Atom(b, x), t = b \o r, f = x \o g, Spoken(r, g)
        PROVE  <<t \o c, f \o y>> \in P
    <3>0. /\ b \in Seq(Byte) /\ r \in Seq(Byte) /\ c \in Seq(Byte)
          /\ x \in Seq(Effect) /\ g \in Seq(Effect) /\ y \in Seq(Effect)
      BY <1>2, <2>3
    <3>1. (b \o r) \o c = b \o (r \o c)
      <4>1. Grouped(b, r, c)
        BY ONLY <3>0, RegroupThree
      <4> QED BY ONLY <4>1 DEF Grouped
    <3>4. (x \o g) \o y = x \o (g \o y)
      <4>1. Grouped(x, g, y)
        BY ONLY <3>0, RegroupThree
      <4> QED BY ONLY <4>1 DEF Grouped
    <3>2. Spoken(r \o c, g \o y) /\ r \o c \in Seq(Byte) /\ g \o y \in Seq(Effect)
      BY <1>2, <2>3, SpokenThen
    <3>3. Fronted(t \o c, f \o y)
      BY <2>3, <3>1, <3>2, <3>4 DEF Fronted
    <3> QED BY <2>1, <3>3 DEF Pairs
  <2>4. Fronted(t, f)
    BY <1>2
  <2> QED BY <2>2, <2>3, <2>4 DEF Fronted
<1>3. Closed(P) /\ P \in SUBSET Pairs
  BY <1>1, <1>2 DEF Closed
<1>4. <<s, e>> \in P
  BY <1>3 DEF Spoken
<1> QED BY <1>4

LEMMA SpokenJoin ==
  ASSUME NEW s, NEW e, Spoken(s, e), NEW r, NEW g, Spoken(r, g)
  PROVE  Spoken(s \o r, e \o g)
<1> DEFINE P == {p \in Pairs : Spoken(s \o p[1], e \o p[2])}
<1>0. s \in Seq(Byte) /\ e \in Seq(Effect)
  BY DEF Spoken
<1>1. << <<>>, <<>> >> \in P
  <2>1. s \o <<>> = s
    BY <1>0, ConcatEmptySeq
  <2>2. e \o <<>> = e
    BY <1>0, ConcatEmptySeq
  <2> QED BY <2>1, <2>2, NoPair
<1>2. ASSUME NEW t \in Seq(Byte), NEW f \in Seq(Effect), NEW c \in Seq(Byte), NEW y \in Seq(Effect),
             <<t, f>> \in P, Atom(c, y)
      PROVE  <<t \o c, f \o y>> \in P
  <2>1. t \o c \in Seq(Byte) /\ f \o y \in Seq(Effect)
    OBVIOUS
  <2>2. s \o (t \o c) = (s \o t) \o c
    BY <1>0
  <2>4. e \o (f \o y) = (e \o f) \o y
    BY <1>0
  <2>3. Spoken((s \o t) \o c, (e \o f) \o y)
    BY <1>2, SpokenThen
  <2> QED BY <2>1, <2>2, <2>3, <2>4 DEF Pairs
<1>3. Closed(P) /\ P \in SUBSET Pairs
  BY <1>1, <1>2 DEF Closed
<1> QED BY <1>3 DEF Spoken

LEMMA SpokenOne ==
  ASSUME NEW b, NEW x, Atom(b, x)
  PROVE  Spoken(b, x)
<1>1. b \in Seq(Byte) /\ x \in Seq(Effect)
  BY DEF Atom
<1>2. <<>> \o b = b /\ <<>> \o x = x
  BY <1>1, ConcatEmptySeq
<1> QED BY <1>2, SpokenEmpty, SpokenThen

LEMMA AtomBytes ==
  ASSUME NEW b, NEW x, Atom(b, x)
  PROVE  /\ b \in Seq(Byte) /\ x \in Seq(Effect) /\ Len(b) \in Nat \ {0}
         /\ IsKey(b, x) => Len(b) = 1 /\ b[1] \in 0 .. 252
         /\ IsFrame(b, x) => Len(b) >= 2 /\ b[1] = 255 /\ b[2] \in {255, 254, 253}
<1>1. b \in Seq(Byte) /\ x \in Seq(Effect) /\ Len(b) \in Nat
  BY DEF Atom
<1>2. IsKey(b, x) => Len(b) = 1 /\ b[1] \in 0 .. 252
  BY DEF IsKey
<1>3. IsFrame(b, x) => Len(b) >= 2 /\ b[1] = 255 /\ b[2] \in {255, 254, 253}
  BY DEF IsFrame
<1> QED BY <1>1, <1>2, <1>3 DEF Atom

\* The first key or frame of a stream is longer than n bytes.
Starts(s, e, n) ==
  \E b \in Seq(Byte), r \in Seq(Byte), x \in Seq(Effect), g \in Seq(Effect) :
    Atom(b, x) /\ Spoken(r, g) /\ s = b \o r /\ e = x \o g /\ n < Len(b)

LEMMA StartsThen ==
  ASSUME NEW s, NEW e, NEW n, Starts(s, e, n), NEW c, NEW y, Spoken(c, y)
  PROVE  Starts(s \o c, e \o y, n)
<1>1. PICK b \in Seq(Byte), r \in Seq(Byte), x \in Seq(Effect), g \in Seq(Effect) :
        Atom(b, x) /\ Spoken(r, g) /\ s = b \o r /\ e = x \o g /\ n < Len(b)
  BY DEF Starts
<1>2. c \in Seq(Byte) /\ y \in Seq(Effect)
  BY DEF Spoken
<1>3. (b \o r) \o c = b \o (r \o c)
  BY <1>2, Regroup
<1>4. (x \o g) \o y = x \o (g \o y)
  BY <1>2, Regroup
<1>5. Spoken(r \o c, g \o y) /\ r \o c \in Seq(Byte) /\ g \o y \in Seq(Effect)
  BY <1>1, SpokenJoin DEF Spoken
<1> QED BY <1>1, <1>3, <1>4, <1>5 DEF Starts

LEMMA StartsSpoken ==
  ASSUME NEW s, NEW e, NEW n, Starts(s, e, n)
  PROVE  Spoken(s, e)
  BY SpokenOne, SpokenJoin DEF Starts

LEMMA AtomStarts ==
  ASSUME NEW b, NEW x, Atom(b, x), NEW n, n < Len(b)
  PROVE  Starts(b, x, n)
<1>1. b \in Seq(Byte) /\ x \in Seq(Effect)
  BY DEF Atom
<1>2. b = b \o <<>> /\ x = x \o <<>> /\ <<>> \in Seq(Byte) /\ <<>> \in Seq(Effect)
  BY <1>1, ConcatEmptySeq
<1> QED BY <1>1, <1>2, SpokenEmpty DEF Starts

\* However many bytes are taken, they are whole keys and frames up to the one
\* they end in.
Splits(s, e, m) ==
  \E u \in Seq(Byte), w \in Seq(Byte), d \in Seq(Effect), h \in Seq(Effect) :
    /\ Spoken(u, d) /\ s = u \o w /\ e = d \o h /\ Len(u) <= m
    /\ (w = <<>> /\ h = <<>> /\ m = Len(u)) \/ Starts(w, h, m - Len(u))

LEMMA SpokenSplits ==
  ASSUME NEW s, NEW e, Spoken(s, e), NEW m \in 0 .. Len(s)
  PROVE  Splits(s, e, m)
<1> DEFINE P == {p \in Pairs : Spoken(p[1], p[2]) /\ \A k \in 0 .. Len(p[1]) : Splits(p[1], p[2], k)}
<1>0. ASSUME NEW t, NEW f, Spoken(t, f) PROVE Splits(t, f, Len(t))
  <2>1. t \in Seq(Byte) /\ f \in Seq(Effect)
    BY <1>0 DEF Spoken
  <2>2. t = t \o <<>> /\ f = f \o <<>> /\ <<>> \in Seq(Byte) /\ <<>> \in Seq(Effect)
    BY <2>1, ConcatEmptySeq
  <2>3. Len(t) <= Len(t)
    BY <2>1
  <2> QED BY <1>0, <2>1, <2>2, <2>3 DEF Splits
<1>1. << <<>>, <<>> >> \in P
  <2>1. Len(<<>>) = 0
    OBVIOUS
  <2>2. \A k \in 0 .. Len(<<>>) : Splits(<<>>, <<>>, k)
    BY <1>0, <2>1, SpokenEmpty
  <2> QED BY <2>2, NoPair, SpokenEmpty
<1>2. ASSUME NEW t \in Seq(Byte), NEW f \in Seq(Effect), NEW c \in Seq(Byte), NEW y \in Seq(Effect),
             <<t, f>> \in P, Atom(c, y)
      PROVE  <<t \o c, f \o y>> \in P
  <2>1. t \o c \in Seq(Byte) /\ f \o y \in Seq(Effect) /\ Len(t \o c) = Len(t) + Len(c)
    OBVIOUS
  <2>0. Spoken(t, f) /\ \A k \in 0 .. Len(t) : Splits(t, f, k)
    BY <1>2
  <2> HIDE DEF P
  <2>2. Spoken(t \o c, f \o y)
    BY <1>2, <2>0, SpokenThen
  <2>3. ASSUME NEW k \in 0 .. Len(t \o c) PROVE Splits(t \o c, f \o y, k)
    <3>1. Len(t) \in Nat /\ Len(c) \in Nat
      OBVIOUS
    <3>2. CASE k < Len(t)
      <4>1. Splits(t, f, k)
        BY <2>0, <3>1, <3>2
      <4>2. PICK u \in Seq(Byte), w \in Seq(Byte), d \in Seq(Effect), h \in Seq(Effect) :
              /\ Spoken(u, d) /\ t = u \o w /\ f = d \o h /\ Len(u) <= k
              /\ (w = <<>> /\ h = <<>> /\ k = Len(u)) \/ Starts(w, h, k - Len(u))
        BY <4>1 DEF Splits
      <4>3. Starts(w, h, k - Len(u))
        <5>1. w = <<>> => t = u
          BY <4>2, ConcatEmptySeq
        <5> QED BY <3>2, <4>2, <5>1
      <4>4. Starts(w \o c, h \o y, k - Len(u))
        BY <1>2, <4>3, SpokenOne, StartsThen
      <4>5. u \in Seq(Byte) /\ w \in Seq(Byte) /\ c \in Seq(Byte)
        OBVIOUS
      <4>6. d \in Seq(Effect) /\ h \in Seq(Effect) /\ y \in Seq(Effect)
        OBVIOUS
      <4>7. (u \o w) \o c = u \o (w \o c)
        <5>1. Grouped(u, w, c)
          BY ONLY <4>5, RegroupThree
        <5> QED BY ONLY <5>1 DEF Grouped
      <4>8. (d \o h) \o y = d \o (h \o y)
        <5>1. Grouped(d, h, y)
          BY ONLY <4>6, RegroupThree
        <5> QED BY ONLY <5>1 DEF Grouped
      <4>9. w \o c \in Seq(Byte) /\ h \o y \in Seq(Effect)
        OBVIOUS
      <4>10. t \o c = u \o (w \o c) /\ f \o y = d \o (h \o y)
        BY <4>2, <4>7, <4>8
      <4>11. Spoken(u, d) /\ Len(u) <= k
        BY <4>2
      <4> QED BY ONLY <4>4, <4>5, <4>6, <4>9, <4>10, <4>11 DEF Splits
    <3>3. CASE k >= Len(t) /\ k < Len(t) + Len(c)
      <4>1. Starts(c, y, k - Len(t))
        BY <1>2, <3>1, <3>3, AtomStarts
      <4> QED BY <2>0, <3>3, <4>1 DEF Splits
    <3>4. CASE k = Len(t \o c)
      BY <1>0, <2>2, <3>4
    <3>5. k < Len(t) \/ (k >= Len(t) /\ k < Len(t) + Len(c)) \/ k = Len(t \o c)
      <4> DEFINE lt == Len(t)
                 lc == Len(c)
                 l  == Len(t \o c)
      <4>1. lt \in Nat /\ lc \in Nat /\ l = lt + lc /\ k \in 0 .. l
        BY <2>1, <3>1
      <4> HIDE DEF lt, lc, l
      <4>2. k < lt \/ (k >= lt /\ k < lt + lc) \/ k = l
        BY ONLY <4>1
      <4> QED BY <4>2 DEF lt, lc, l
    <3> QED BY <3>2, <3>3, <3>4, <3>5
  <2> USE DEF P
  <2> QED BY <2>1, <2>2, <2>3 DEF Pairs
<1>3. Closed(P) /\ P \in SUBSET Pairs
  BY <1>1, <1>2 DEF Closed
<1>4. <<s, e>> \in P
  BY <1>3 DEF Spoken
<1> QED BY <1>4

LEMMA ForwardsType ==
  ASSUME NEW k \in Seq(Byte)
  PROVE  /\ Forwards(k) \in Seq(Effect) /\ Len(Forwards(k)) = Len(k)
         /\ \A i \in 1 .. Len(k) : Forwards(k)[i] = <<"forward", k[i]>>
<1>0. \A c \in Byte : <<"forward", c>> \in Effect
  BY DEF Effect, Byte
<1>1. \A i \in 1 .. Len(k) : <<"forward", k[i]>> \in Effect
  BY <1>0, ElementOfSeq
<1> QED BY <1>1 DEF Forwards

LEMMA ForwardedIs ==
  ASSUME buf \in Seq(Byte), NEW n \in 0 .. Len(buf)
  PROVE  /\ Forwarded(n) \in Seq(Effect) /\ Len(Forwarded(n)) = n /\ DOMAIN Forwarded(n) = 1 .. n
         /\ \A i \in 1 .. n : Forwarded(n)[i] = <<"forward", buf[i]>>
<1> DEFINE k == SubSeq(buf, 1, n)
<1>1. k \in Seq(Byte) /\ Len(k) = n /\ \A i \in 1 .. n : k[i] = buf[i]
  OBVIOUS
<1> HIDE DEF k
<1>2. /\ Forwards(k) \in Seq(Effect) /\ Len(Forwards(k)) = n
      /\ \A i \in 1 .. n : Forwards(k)[i] = <<"forward", k[i]>>
  BY <1>1, ForwardsType
<1>3. DOMAIN Forwards(k) = 1 .. n
  BY <1>2
<1>4. Forwarded(n) = Forwards(k)
  BY DEF Forwarded, k
<1> QED BY <1>1, <1>2, <1>3, <1>4

\* In the first n bytes of t no magic begins.
Quiet(t, n) ==
  \A i \in 1 .. n : ~(i + 1 <= Len(t) /\ t[i] = 255 /\ t[i + 1] \in {255, 254, 253})

\* The first n bytes of t are keys.
Run(t, f, n) ==
  \E k \in Seq(Byte), r \in Seq(Byte), g \in Seq(Effect) :
    Len(k) = n /\ t = k \o r /\ f = Forwards(k) \o g /\ Spoken(r, g)

\* Bytes at which no magic begins are keys, each to be forwarded.
LEMMA KeyRun ==
  ASSUME NEW s, NEW e, Spoken(s, e), NEW m \in 0 .. Len(s), Quiet(s, m)
  PROVE  Run(s, e, m)
<1> DEFINE P == {p \in Pairs : /\ Spoken(p[1], p[2])
                               /\ \A n \in 0 .. Len(p[1]) : Quiet(p[1], n) => Run(p[1], p[2], n)}
<1>1. << <<>>, <<>> >> \in P
  <2>1. <<>> \in Seq(Byte) /\ <<>> \in Seq(Effect) /\ Len(<<>>) = 0
    OBVIOUS
  <2>2. <<>> = <<>> \o <<>>
    BY <2>1, ConcatEmptySeq
  <2>3. Forwards(<<>>) = <<>>
    BY DEF Forwards
  <2>4. Run(<<>>, <<>>, 0)
    BY <2>1, <2>2, <2>3, SpokenEmpty DEF Run
  <2>5. \A n \in 0 .. 0 : Run(<<>>, <<>>, n)
    BY <2>4
  <2> QED BY <2>1, <2>5, NoPair, SpokenEmpty
<1>2. ASSUME NEW t \in Seq(Byte), NEW f \in Seq(Effect), NEW c \in Seq(Byte), NEW y \in Seq(Effect),
             <<t, f>> \in P, Atom(c, y)
      PROVE  <<t \o c, f \o y>> \in P
  <2>1. t \o c \in Seq(Byte) /\ f \o y \in Seq(Effect) /\ Len(t \o c) = Len(t) + Len(c)
    OBVIOUS
  <2>0. Spoken(t, f) /\ \A n \in 0 .. Len(t) : Quiet(t, n) => Run(t, f, n)
    BY <1>2
  <2> HIDE DEF P
  <2>2. Spoken(t, f) /\ Spoken(t \o c, f \o y)
    BY <1>2, <2>0, SpokenThen
  <2>3. ASSUME NEW n \in 0 .. Len(t \o c), Quiet(t \o c, n) PROVE Run(t \o c, f \o y, n)
    <3>1. Len(t) \in Nat /\ Len(c) \in Nat \ {0}
      BY <1>2, AtomBytes
    <3>2. /\ \A i \in 1 .. Len(t) : (t \o c)[i] = t[i]
          /\ \A i \in 1 .. Len(c) : (t \o c)[Len(t) + i] = c[i]
      OBVIOUS
    <3>3. ASSUME NEW q \in 0 .. Len(t), q <= n PROVE Run(t, f, q)
      <4>1. Quiet(t, q)
        BY <2>1, <2>3, <3>1, <3>2, <3>3 DEF Quiet
      <4> QED BY <2>0, <4>1
    <3>4. CASE n <= Len(t)
      <4>0. Run(t, f, n)
        BY <3>1, <3>3, <3>4
      <4>1. PICK k \in Seq(Byte), r \in Seq(Byte), g \in Seq(Effect) :
              Len(k) = n /\ t = k \o r /\ f = Forwards(k) \o g /\ Spoken(r, g)
        BY <4>0 DEF Run
      <4>6. k \in Seq(Byte) /\ r \in Seq(Byte) /\ c \in Seq(Byte)
        OBVIOUS
      <4>7. g \in Seq(Effect) /\ y \in Seq(Effect)
        OBVIOUS
      <4>2. t \o c = k \o (r \o c)
        <5>1. (k \o r) \o c = k \o (r \o c)
          BY ONLY <4>6, Regroup, Zenon
        <5>2. t = k \o r
          BY <4>1
        <5> QED BY ONLY <5>1, <5>2, Zenon
      <4>3. Forwards(k) \in Seq(Effect)
        BY <4>1, ForwardsType
      <4>4. f \o y = Forwards(k) \o (g \o y)
        <5> DEFINE h == Forwards(k)
        <5>1. h \in Seq(Effect) /\ f = h \o g
          BY <4>1, <4>3
        <5> HIDE DEF h
        <5>2. (h \o g) \o y = h \o (g \o y)
          <6>1. h \in Seq(Effect)
            BY <5>1
          <6> QED BY ONLY <4>7, <6>1, Regroup, Zenon
        <5> QED BY <5>1, <5>2 DEF h
      <4>5. Spoken(r \o c, g \o y) /\ r \o c \in Seq(Byte) /\ g \o y \in Seq(Effect)
        BY <1>2, <4>1, SpokenThen
      <4> QED BY <4>1, <4>2, <4>4, <4>5 DEF Run
    <3>5. CASE n > Len(t)
      <4>1. ~IsFrame(c, y)
        <5> SUFFICES ASSUME IsFrame(c, y) PROVE FALSE
          OBVIOUS
        <5>1. Len(c) >= 2 /\ c[1] = 255 /\ c[2] \in {255, 254, 253}
          BY <1>2, AtomBytes
        <5>2. (t \o c)[Len(t) + 1] = 255 /\ (t \o c)[Len(t) + 2] \in {255, 254, 253}
          BY <3>1, <3>2, <5>1
        <5> DEFINE i == Len(t) + 1
        <5>3. i \in 1 .. n /\ i + 1 <= Len(t \o c) /\ i + 1 = Len(t) + 2
          BY <2>1, <3>1, <3>5, <5>1
        <5> HIDE DEF i
        <5>4. ~(i + 1 <= Len(t \o c) /\ (t \o c)[i] = 255 /\ (t \o c)[i + 1] \in {255, 254, 253})
          BY ONLY <2>3, <5>3 DEF Quiet
        <5>5. (t \o c)[i] = 255
          BY <5>2, Zenon DEF i
        <5>6. (t \o c)[i + 1] \in {255, 254, 253}
          BY <5>2, <5>3, Zenon
        <5> QED BY ONLY <5>3, <5>4, <5>5, <5>6, Zenon
      <4>2. IsKey(c, y) /\ Len(c) = 1 /\ n = Len(t) + 1
        <5>1. IsKey(c, y)
          BY <1>2, <4>1 DEF Atom
        <5>2. Len(c) = 1
          BY <1>2, <5>1, AtomBytes
        <5> QED BY <2>1, <3>1, <3>5, <5>1, <5>2
      <4>0. Run(t, f, Len(t))
        BY <3>1, <3>3, <3>5
      <4>3. PICK k \in Seq(Byte), r \in Seq(Byte), g \in Seq(Effect) :
              Len(k) = Len(t) /\ t = k \o r /\ f = Forwards(k) \o g /\ Spoken(r, g)
        BY <4>0 DEF Run
      <4>4. r = <<>>
        <5>1. Len(k \o r) = Len(k) + Len(r) /\ Len(r) \in Nat /\ Len(k) \in Nat
          BY <4>3
        <5> QED BY <4>3, <5>1
      <4>5. g = <<>>
        <5>1. ASSUME NEW b \in Seq(Byte), NEW q \in Seq(Byte), NEW x, Atom(b, x), r = b \o q
              PROVE  FALSE
          <6>1. Len(b) > 0 /\ Len(b \o q) = Len(b) + Len(q) /\ Len(q) \in Nat /\ Len(b) \in Nat
            BY <5>1, AtomBytes
          <6>2. Len(r) = 0
            BY <4>4
          <6>3. Len(r) = Len(b) + Len(q)
            BY <5>1, <6>1
          <6> DEFINE lb == Len(b)
                     lq == Len(q)
          <6>4. lb > 0 /\ lq \in Nat /\ lb \in Nat /\ 0 = lb + lq
            BY <6>1, <6>2, <6>3
          <6> HIDE DEF lb, lq
          <6> QED BY ONLY <6>4
        <5>2. Fronted(r, g)
          <6>1. Spoken(r, g)
            BY <4>3
          <6> QED BY ONLY <6>1, SpokenFront
        <5> QED BY <5>1, <5>2 DEF Fronted
      <4>6. t = k
        BY <4>3, <4>4, ConcatEmptySeq
      <4>7. Forwards(k) \in Seq(Effect)
        BY <4>3, ForwardsType
      <4>8. f = Forwards(t)
        BY <4>3, <4>5, <4>6, <4>7, ConcatEmptySeq
      <4>9. f \o y = Forwards(t \o c)
        <5>1. PICK a \in 0 .. 252 : c = <<a>> /\ y = << <<"forward", a>> >>
          BY <4>2 DEF IsKey
        <5>2. Len(f) = Len(t) /\ \A i \in 1 .. Len(t) : f[i] = <<"forward", t[i]>>
          BY <4>8, ForwardsType
        <5>3. Len(f \o y) = Len(t) + 1 /\ (f \o y)[Len(t) + 1] = <<"forward", a>>
          BY <5>1, <5>2
        <5>4. \A i \in 1 .. Len(t) : (f \o y)[i] = <<"forward", (t \o c)[i]>>
          BY <3>2, <5>2
        <5>5. (t \o c)[Len(t) + 1] = a
          BY <5>1, <3>1, <3>2
        <5>6. /\ Forwards(t \o c) \in Seq(Effect) /\ Len(Forwards(t \o c)) = Len(t) + 1
              /\ \A i \in 1 .. Len(t) + 1 : Forwards(t \o c)[i] = <<"forward", (t \o c)[i]>>
          BY <2>1, <4>2, ForwardsType
        <5>7. \A i \in 1 .. Len(t) + 1 : (f \o y)[i] = Forwards(t \o c)[i]
          <6> SUFFICES ASSUME NEW i \in 1 .. Len(t) + 1 PROVE (f \o y)[i] = Forwards(t \o c)[i]
            OBVIOUS
          <6>1. Forwards(t \o c)[i] = <<"forward", (t \o c)[i]>>
            BY <5>6
          <6>2. CASE i = Len(t) + 1
            BY <5>3, <5>5, <6>1, <6>2
          <6>3. CASE i \in 1 .. Len(t)
            BY <5>4, <6>1, <6>3
          <6>4. i = Len(t) + 1 \/ i \in 1 .. Len(t)
            <7> DEFINE lt == Len(t)
            <7>1. lt \in Nat /\ i \in 1 .. lt + 1
              BY <3>1
            <7> HIDE DEF lt
            <7>2. i = lt + 1 \/ i \in 1 .. lt
              BY ONLY <7>1
            <7> QED BY <7>2 DEF lt
          <6> QED BY <6>2, <6>3, <6>4
        <5> QED BY <2>1, <5>3, <5>6, <5>7, SeqEqual
      <4>10. t \o c = (t \o c) \o <<>> /\ Len(t \o c) = n
        BY <2>1, <4>2, ConcatEmptySeq
      <4>11. f \o y = Forwards(t \o c) \o <<>>
        BY <2>1, <4>9, ConcatEmptySeq
      <4>12. <<>> \in Seq(Byte) /\ <<>> \in Seq(Effect)
        OBVIOUS
      <4> QED BY <2>1, <4>10, <4>11, <4>12, SpokenEmpty DEF Run
    <3> QED BY <3>1, <3>4, <3>5
  <2> USE DEF P
  <2> QED BY <2>1, <2>2, <2>3 DEF Pairs
<1>3. Closed(P) /\ P \in SUBSET Pairs
  BY <1>1, <1>2 DEF Closed
<1>4. <<s, e>> \in P
  BY <1>3 DEF Spoken
<1> QED BY <1>4

-----------------------------------------------------------------------------
(***************************************************************************)
(* One turn of the parser.                                                 *)
(***************************************************************************)
\* A set of natural numbers has a least member, and Min is it.
LEMMA MinIsLeast ==
  ASSUME NEW T, T \subseteq Nat, T # {}
  PROVE  Min(T) \in T /\ \A y \in T : Min(T) <= y
<1> DEFINE R == {ss \in Nat \X Nat : ss[1] < ss[2]}
<1>1. IsWellFoundedOn(R, Nat)
  BY NatLessThanWellFounded DEF OpToRel
<1>2. \A x, y \in Nat : x < y => <<x, y>> \in R
  OBVIOUS
<1> HIDE DEF R
<1>3. PICK x \in T : \A y \in T : ~(<<y, x>> \in R)
  BY <1>1, WFMin
<1>4. \A y \in T : ~(y < x)
  BY <1>2, <1>3
<1>5. \A y \in T : x <= y
  BY <1>4
<1> QED
  BY <1>5 DEF Min

\* The bytes before the next magic: no magic begins in them, one begins after.
LEMMA CutProps ==
  ASSUME buf \in Seq(Byte)
  PROVE  /\ Cut \in 0 .. Len(buf) /\ Quiet(buf, Cut)
         /\ Cut # Len(buf) => Cut + 1 \in Cuts
<1>1. Len(buf) \in Nat /\ Cuts \subseteq 1 .. Len(buf) - 1
  BY DEF Cuts
<1>2. CASE Cuts = {}
  <2>1. Cut = Len(buf)
    BY <1>2 DEF Cut
  <2> QED BY <1>1, <1>2, <2>1 DEF Quiet, Cuts, Magic
<1>3. CASE Cuts # {}
  <2>1. Cuts \subseteq Nat
    BY <1>1
  <2>2. Min(Cuts) \in Cuts /\ \A y \in Cuts : Min(Cuts) <= y
    BY <1>3, <2>1, MinIsLeast
  <2> DEFINE n == Min(Cuts)
  <2>3. Cut = n - 1 /\ n \in 1 .. Len(buf) - 1
    BY <1>1, <1>3, <2>2 DEF Cut
  <2> HIDE DEF n
  <2>6. \A y \in Cuts : n <= y
    BY <2>2 DEF n
  <2>4. \A i \in 1 .. n - 1 : i \notin Cuts
    BY <1>1, <2>3, <2>6
  <2>5. Quiet(buf, n - 1)
    BY <1>1, <2>3, <2>4 DEF Quiet, Cuts, Magic
  <2> QED BY <1>1, <2>2, <2>3, <2>5 DEF n
<1> QED BY <1>2, <1>3

LEMMA WordOf ==
  ASSUME NEW q \in Seq(Byte), NEW i \in Nat \ {0}, i + 1 <= Len(q)
  PROVE  /\ SubSeq(q, i, i + 1)[1] = q[i]
         /\ SubSeq(q, i, i + 1)[2] = q[i + 1]
<1>1. \A k \in i .. i + 1 : q[k] \in Byte
  BY ElementOfSeq
<1>2. \A k \in 1 .. (i + 1) - i + 1 : SubSeq(q, i, i + 1)[k] = q[i + k - 1]
  BY <1>1, SubSeqProperties
<1>3. 1 \in 1 .. (i + 1) - i + 1 /\ 2 \in 1 .. (i + 1) - i + 1 /\ i + 1 - 1 = i /\ i + 2 - 1 = i + 1
  OBVIOUS
<1> QED BY <1>2, <1>3

LEMMA WordsOf ==
  ASSUME NEW q \in Seq(Byte), Len(q) >= 4
  PROVE  /\ Word(SubSeq(q, 3, 4)) = q[3] * 256 + q[4]
         /\ Int16(SubSeq(q, 3, 4)) = Int16(<<q[3], q[4]>>)
         /\ Len(q) >= 6 => Word(SubSeq(q, 5, 6)) = q[5] * 256 + q[6]
<1>1. SubSeq(q, 3, 4)[1] = q[3] /\ SubSeq(q, 3, 4)[2] = q[4]
  <2>1. 3 \in Nat \ {0} /\ 3 + 1 = 4 /\ 3 + 1 <= Len(q)
    OBVIOUS
  <2> QED BY <2>1, WordOf
<1>2. Len(q) >= 6 => SubSeq(q, 5, 6)[1] = q[5] /\ SubSeq(q, 5, 6)[2] = q[6]
  <2>1. 5 \in Nat \ {0} /\ 5 + 1 = 6
    OBVIOUS
  <2> QED BY <2>1, WordOf
<1>3. <<q[3], q[4]>>[1] = q[3] /\ <<q[3], q[4]>>[2] = q[4]
  OBVIOUS
<1> QED BY <1>1, <1>2, <1>3 DEF Word, Int16

LEMMA HighHalf ==
  ASSUME NEW h \in Nat, NEW l \in Nat, NEW m \in Nat, h * 65536 + l <= m
  PROVE  ~(h > m \div 65536)
  BY SMTT(30)

\* The length is compared as a whole.
ImageByLength(n) ==
  IF n \notin 1 .. MaxImage THEN Take(7, <<>>)
  ELSE IF Len(buf) < 7 + n THEN Await
  ELSE Take(7 + n, << <<"image", SubSeq(buf, 7 + 1, 7 + n)>> >>)

LEMMA ImageIs ==
  ASSUME buf \in Seq(Byte)
  PROVE  /\ Len(buf) < 7 => Image = Await
         /\ Len(buf) >= 7 => Image = ImageByLength(Claimed(buf))
<1>1. CASE Len(buf) < 7
  BY <1>1 DEF Image, ImageHead
<1>2. CASE Len(buf) >= 7
  <2> DEFINE h == Word(SubSeq(buf, 3, 4))  l == Word(SubSeq(buf, 5, 6))
  <2>1. h = buf[3] * 256 + buf[4] /\ l = buf[5] * 256 + buf[6]
    <3>1. Len(buf) >= 4 /\ Len(buf) >= 6
      BY <1>2
    <3> QED BY ONLY buf \in Seq(Byte), <3>1, WordsOf
  <2>2. \A i \in 3 .. 6 : buf[i] \in Nat
    <3>1. \A i \in 3 .. 6 : i \in 1 .. Len(buf)
      BY <1>2
    <3>2. \A i \in 3 .. 6 : buf[i] \in Byte
      BY <3>1, ElementOfSeq
    <3>3. \A c \in Byte : c \in Nat
      BY DEF Byte
    <3> QED BY <3>2, <3>3, Zenon
  <2>3. h \in Nat /\ l \in Nat
    <3>1. 3 \in 3 .. 6 /\ 4 \in 3 .. 6 /\ 5 \in 3 .. 6 /\ 6 \in 3 .. 6
      OBVIOUS
    <3>2. buf[3] \in Nat /\ buf[4] \in Nat /\ buf[5] \in Nat /\ buf[6] \in Nat
      BY ONLY <2>2, <3>1
    <3> HIDE DEF h, l
    <3> QED BY ONLY <2>1, <3>2
  <2>4. h * 65536 + l = Claimed(buf)
    BY <2>1 DEF Claimed
  <2>5. ~(Len(buf) < 7)
    BY <1>2
  <2>6. Image = IF h > MaxImage \div 65536 \/ Claimed(buf) \notin 1 .. MaxImage THEN Take(7, <<>>)
                ELSE IF Len(buf) < 7 + Claimed(buf) THEN Await
                ELSE Take(7 + Claimed(buf), << <<"image", SubSeq(buf, 7 + 1, 7 + Claimed(buf))>> >>)
    <3> DEFINE Of(v) == IF h > MaxImage \div 65536 \/ v \notin 1 .. MaxImage THEN Take(7, <<>>)
                        ELSE IF Len(buf) < 7 + v THEN Await
                        ELSE Take(7 + v, << <<"image", SubSeq(buf, 7 + 1, 7 + v)>> >>)
    <3>1. Image = Of(h * 65536 + l)
      BY <2>5 DEF Image, ImageHead
    <3>2. Image = Of(Claimed(buf))
      <4> HIDE DEF Of, h, l
      <4> QED BY <2>4, <3>1
    <3> QED BY <3>2
  <2> DEFINE n == Claimed(buf)
  <2>7. n \in 1 .. MaxImage => ~(h > MaxImage \div 65536)
    <3>1. MaxImage \in Nat
      BY ClientInputAssumption
    <3> HIDE DEF h, l
    <3>2. n \in 1 .. MaxImage => h * 65536 + l <= MaxImage
      BY <2>3, <2>4, <3>1
    <3> QED BY <2>3, <3>1, <3>2, HighHalf
  <2> HIDE DEF h, l, n
  <2>8. Image = ImageByLength(n)
    <3>1. CASE n \in 1 .. MaxImage
      BY <2>6, <2>7, <3>1 DEF ImageByLength, n
    <3>2. CASE n \notin 1 .. MaxImage
      BY <2>6, <3>2 DEF ImageByLength, n
    <3> QED BY <3>1, <3>2
  <2> QED BY <1>2, <2>8 DEF n
<1>3. Len(buf) \in Nat
  OBVIOUS
<1> QED BY <1>1, <1>2, <1>3

\* A frame that is there is taken.
LEMMA TurnFrame ==
  ASSUME buf \in Seq(Byte), NEW b, NEW x, NEW r \in Seq(Byte),
         Atom(b, x), IsFrame(b, x), buf = b \o r
  PROVE  Turn = [len |-> Len(b), do |-> x, return |-> FALSE]
<1>1. b \in Seq(Byte) /\ Len(b) \in Nat /\ Len(b) >= 2 /\ b[1] = 255 /\ b[2] \in {255, 254, 253}
  BY AtomBytes
<1>2. Len(buf) >= Len(b) /\ Len(buf) \in Nat /\ \A i \in 1 .. Len(b) : buf[i] = b[i]
  BY <1>1
<1>3. buf[1] = 255 /\ buf[2] = b[2] /\ Len(buf) >= 2
  BY <1>1, <1>2
<1>4. CASE b[2] = 255
  <2>1. Len(b) = 6 /\ x = << <<"resize", b[3] * 256 + b[4]>> >>
    BY <1>4 DEF IsFrame
  <2>2. Turn = Resize
    BY <1>3, <1>4 DEF Turn, Head2
  <2>3. buf[3] = b[3] /\ buf[4] = b[4] /\ Len(buf) >= 4
    BY <1>2, <2>1
  <2>4. Word(SubSeq(buf, 3, 4)) = b[3] * 256 + b[4]
    BY <2>3, WordsOf
  <2>5. ~(Len(buf) < 6)
    BY <1>2, <2>1
  <2> QED BY <2>1, <2>2, <2>4, <2>5 DEF Resize, ResizeLen, Take
<1>5. CASE b[2] = 254
  <2>1. Len(b) = 4 /\ x = << <<"scroll", Int16(<<b[3], b[4]>>)>> >>
    BY <1>5 DEF IsFrame
  <2>2. Turn = ScrollFrame
    BY <1>3, <1>5 DEF Turn, Head2
  <2>3. buf[3] = b[3] /\ buf[4] = b[4] /\ Len(buf) >= 4
    BY <1>2, <2>1
  <2>4. Int16(SubSeq(buf, 3, 4)) = Int16(<<b[3], b[4]>>)
    BY <2>3, WordsOf
  <2>5. ~(Len(buf) < 4)
    BY <2>3
  <2> QED BY <2>1, <2>2, <2>4, <2>5 DEF ScrollFrame, ScrollLen, Take
<1>6. CASE b[2] = 253
  <2>1. /\ Len(b) >= 7
        /\ IF Claimed(b) \in 1 .. MaxImage
             THEN Len(b) = 7 + Claimed(b) /\ x = << <<"image", SubSeq(b, 8, Len(b))>> >>
             ELSE Len(b) = 7 /\ x = <<>>
    BY <1>6 DEF IsFrame
  <2>2. Turn = Image
    BY <1>3, <1>6 DEF Turn, Head2
  <2>7. buf[3] = b[3] /\ buf[4] = b[4] /\ buf[5] = b[5] /\ buf[6] = b[6] /\ Len(buf) >= 7
    BY <1>2, <2>1
  <2>3. Claimed(buf) = Claimed(b)
    BY <2>7 DEF Claimed
  <2> DEFINE n == Claimed(b)
  <2>8. Turn = ImageByLength(n)
    BY <2>2, <2>3, <2>7, ImageIs
  <2>9. /\ Len(b) >= 7
        /\ IF n \in 1 .. MaxImage
             THEN Len(b) = 7 + n /\ x = << <<"image", SubSeq(b, 8, Len(b))>> >>
             ELSE Len(b) = 7 /\ x = <<>>
    BY <2>1
  <2> HIDE DEF n
  <2>5. CASE n \in 1 .. MaxImage
    <3>1. n \in Nat /\ Len(b) = 7 + n
      BY <2>5, <2>9
    <3>2. ~(Len(buf) < 7 + n)
      BY <1>2, <3>1
    <3>3. SubSeq(buf, 7 + 1, 7 + n) = SubSeq(b, 8, Len(b))
      BY <1>1, <1>2, <3>1
    <3> QED BY <2>5, <2>8, <2>9, <3>2, <3>3 DEF ImageByLength, Take
  <2>6. CASE n \notin 1 .. MaxImage
    BY <2>6, <2>8, <2>9 DEF ImageByLength, Take
  <2> QED BY <2>5, <2>6
<1> QED BY <1>1, <1>4, <1>5, <1>6

\* The second byte of a resize or of a scroll frame says how long it is.
LEMMA FrameLens ==
  ASSUME NEW b, NEW x, IsFrame(b, x)
  PROVE  (b[2] = 255 => Len(b) = 6) /\ (b[2] = 254 => Len(b) = 4)
<1> HIDE DEF Claimed
<1>1. \/ b[2] = 255 /\ Len(b) = 6
      \/ b[2] = 254 /\ Len(b) = 4
      \/ b[2] = 253
  BY Zenon DEF IsFrame
<1> QED BY ONLY <1>1

\* One that is not all there is waited for.
LEMMA TurnAwait ==
  ASSUME buf \in Seq(Byte), Len(buf) >= 2, NEW w \in Seq(Byte), NEW e, Starts(buf \o w, e, Len(buf))
  PROVE  Turn = Await /\ HasMagic
<1>1. PICK b \in Seq(Byte), r \in Seq(Byte), x \in Seq(Effect) :
        Atom(b, x) /\ buf \o w = b \o r /\ Len(buf) < Len(b)
  BY DEF Starts
<1>2. IsFrame(b, x) /\ Len(b) \in Nat /\ b[1] = 255 /\ b[2] \in {255, 254, 253}
  <2> DEFINE m == Len(b)  n == Len(buf)
  <2>1. m \in Nat
    BY <1>1, AtomBytes
  <2>2. n \in Nat
    OBVIOUS
  <2>3. 2 <= n /\ n < m
    BY <1>1
  <2> HIDE DEF m, n
  <2>4. m # 1
    BY ONLY <2>1, <2>2, <2>3
  <2> QED BY <1>1, <2>1, <2>4, AtomBytes DEF Atom, m
<1>3. \A i \in 1 .. Len(buf) : buf[i] = b[i]
  <2>1. \A i \in 1 .. Len(buf) : (buf \o w)[i] = buf[i]
    OBVIOUS
  <2>2. \A i \in 1 .. Len(buf) : (b \o r)[i] = b[i]
    BY <1>1, <1>2
  <2> QED BY <1>1, <2>1, <2>2
<1>4. Len(buf) \in Nat /\ buf[1] = 255 /\ buf[2] = b[2]
  BY <1>2, <1>3
<1>5. HasMagic
  BY <1>2, <1>4 DEF HasMagic, Magic, Head2
<1>6. CASE b[2] = 255
  <2>0. Len(b) = 6
    BY <1>2, <1>6, FrameLens
  <2>1. Len(buf) < 6
    BY <1>1, <2>0
  <2> QED BY <1>4, <1>5, <1>6, <2>1 DEF Turn, Head2, Resize, ResizeLen
<1>7. CASE b[2] = 254
  <2>0. Len(b) = 4
    BY <1>2, <1>7, FrameLens
  <2>1. Len(buf) < 4
    BY <1>1, <2>0
  <2> QED BY <1>4, <1>5, <1>7, <2>1 DEF Turn, Head2, ScrollFrame, ScrollLen
<1>8. CASE b[2] = 253
  <2>1. Turn = Image
    BY <1>4, <1>8 DEF Turn, Head2
  <2>2. CASE Len(buf) < 7
    BY <1>5, <2>1, <2>2, ImageIs
  <2>3. CASE Len(buf) >= 7
    <3>0. buf[3] = b[3] /\ buf[4] = b[4] /\ buf[5] = b[5] /\ buf[6] = b[6]
      BY <1>3, <1>4, <2>3
    <3>1. Claimed(buf) = Claimed(b)
      BY <3>0 DEF Claimed
    <3>2. Turn = ImageByLength(Claimed(b))
      BY <2>1, <2>3, <3>1, ImageIs
    <3>5. Len(b) # 7
      <4> DEFINE m == Len(b)  n == Len(buf)
      <4>1. m \in Nat /\ n \in Nat /\ n >= 7 /\ n < m
        BY <1>1, <1>2, <1>4, <2>3
      <4> HIDE DEF m, n
      <4>2. m # 7
        BY ONLY <4>1
      <4> QED BY <4>2 DEF m
    <3>3. Claimed(b) \in 1 .. MaxImage /\ Len(b) = 7 + Claimed(b)
      BY <1>2, <1>8, <3>5 DEF IsFrame
    <3>4. Len(buf) < 7 + Claimed(b)
      BY <1>1, <3>3
    <3> QED BY <1>5, <3>2, <3>3, <3>4 DEF ImageByLength
  <2> QED BY <1>4, <2>2, <2>3
<1> QED BY <1>2, <1>6, <1>7, <1>8

LEMMA TurnForward ==
  ASSUME Len(buf) < 2 \/ buf[1] # 255, Len(buf) \in Nat
  PROVE  Turn = Forward
  BY DEF Turn, Head2

LEMMA SpokenNothing == ASSUME NEW e, Spoken(<<>>, e) PROVE e = <<>>
<1>1. Fronted(<<>>, e)
  BY SpokenFront
<1>2. ASSUME NEW b \in Seq(Byte), NEW r \in Seq(Byte), NEW x, Atom(b, x), <<>> = b \o r
      PROVE  FALSE
  <2>1. Len(b) > 0 /\ Len(b \o r) = Len(b) + Len(r) /\ Len(r) \in Nat /\ Len(b) \in Nat
    BY <1>2, AtomBytes
  <2>2. Len(b \o r) = 0
    BY <1>2
  <2> DEFINE n == Len(b)
             m == Len(r)
  <2>3. n > 0 /\ m \in Nat /\ n \in Nat /\ 0 = n + m
    BY <2>1, <2>2
  <2> HIDE DEF n, m
  <2> QED BY ONLY <2>3
<1> QED BY <1>1, <1>2 DEF Fronted

LEMMA Joined ==
  ASSUME NEW a \in Seq(Byte), NEW b \in Seq(Byte)
  PROVE  /\ a \o b \in Seq(Byte) /\ Len(a \o b) = Len(a) + Len(b)
         /\ Len(a) \in Nat /\ Len(b) \in Nat
         /\ \A i \in 1 .. Len(a) : (a \o b)[i] = a[i]
         /\ \A i \in 1 .. Len(b) : (a \o b)[Len(a) + i] = b[i]
  OBVIOUS

\* What is longer than a key is a frame.
LEMMA LongIsFrame ==
  ASSUME NEW b \in Seq(Byte), NEW x, Atom(b, x), 1 < Len(b), NEW r \in Seq(Byte)
  PROVE  Len(b \o r) >= 2 /\ (b \o r)[1] = 255 /\ (b \o r)[2] \in {255, 254, 253}
<1>1. IsFrame(b, x)
  <2> DEFINE n == Len(b)
  <2>3. n \in Nat /\ 1 < n
    BY AtomBytes
  <2> HIDE DEF n
  <2>4. n # 1
    BY ONLY <2>3
  <2>1. Len(b) # 1
    BY <2>4 DEF n
  <2>2. IsKey(b, x) => Len(b) = 1
    BY AtomBytes
  <2> QED BY <2>1, <2>2 DEF Atom
<1>2. Len(b) >= 2 /\ b[1] = 255 /\ b[2] \in {255, 254, 253} /\ Len(b) \in Nat
  BY <1>1, AtomBytes
<1>3. 1 \in 1 .. Len(b) /\ 2 \in 1 .. Len(b)
  BY ONLY <1>2
<1>4. (b \o r)[1] = b[1] /\ (b \o r)[2] = b[2]
  BY <1>3, Joined
<1>5. Len(b \o r) >= 2
  BY <1>2, Joined
<1> QED BY <1>2, <1>4, <1>5

LEMMA MagicAtFront ==
  ASSUME NEW t \in Seq(Byte), Len(t) >= 2, NEW w \in Seq(Byte), NEW f, Starts(t \o w, f, Len(t))
  PROVE  t[1] = 255 /\ t[2] \in {255, 254, 253}
<1>1. PICK b \in Seq(Byte), r \in Seq(Byte), x \in Seq(Effect) :
        Atom(b, x) /\ t \o w = b \o r /\ Len(t) < Len(b)
  BY DEF Starts
<1>2. Len(b) >= 2 /\ b[1] = 255 /\ b[2] \in {255, 254, 253}
  <2>0. Len(b) \in Nat /\ Len(t) \in Nat
    OBVIOUS
  <2>1. Len(b) # 1
    BY <1>1, <2>0
  <2> QED BY <1>1, <2>1, AtomBytes DEF Atom
<1>3. (t \o w)[1] = t[1] /\ (t \o w)[2] = t[2]
  OBVIOUS
<1>4. (b \o r)[1] = b[1] /\ (b \o r)[2] = b[2]
  BY <1>1, <1>2
<1> QED BY <1>1, <1>2, <1>3, <1>4

\* What follows what the parser can take: nothing, or the beginning of a frame
\* whose other bytes are still in the socket.
Pending(t, w, f) ==
  \/ t = <<>> /\ Spoken(w, f)
  \/ Len(t) >= 1 /\ Starts(t \o w, f, Len(t))

\* Of the frame only the first byte is there, the other byte of its magic comes
\* next.
LEMMA OneOfTwo ==
  ASSUME NEW t \in Seq(Byte), Len(t) = 1, NEW w \in Seq(Byte), NEW f, Starts(t \o w, f, Len(t))
  PROVE  t[1] = 255 /\ w # <<>> /\ w[1] \in Magic
<1>1. PICK b \in Seq(Byte), r \in Seq(Byte), x \in Seq(Effect) :
        Atom(b, x) /\ t \o w = b \o r /\ Len(t) < Len(b)
  BY DEF Starts
<1>2. Len(b \o r) >= 2 /\ (b \o r)[1] = 255 /\ (b \o r)[2] \in {255, 254, 253}
  <2>1. 1 < Len(b)
    BY <1>1
  <2> QED BY ONLY <1>1, <2>1, LongIsFrame
<1>3. Len(t \o w) >= 2 /\ (t \o w)[1] = 255 /\ (t \o w)[2] \in {255, 254, 253}
  <2> DEFINE v == b \o r
  <2>1. t \o w = v
    BY <1>1
  <2>2. Len(v) >= 2 /\ v[1] = 255 /\ v[2] \in {255, 254, 253}
    BY <1>2
  <2> HIDE DEF v
  <2> QED BY ONLY <2>1, <2>2
<1>4. (t \o w)[1] = t[1] /\ Len(w) >= 1 /\ (t \o w)[2] = w[1]
  <2>1. /\ Len(t \o w) = 1 + Len(w) /\ Len(w) \in Nat
        /\ \A i \in 1 .. 1 : (t \o w)[i] = t[i]
        /\ \A i \in 1 .. Len(w) : (t \o w)[1 + i] = w[i]
    <3> DEFINE n == Len(t)
    <3>1. /\ Len(t \o w) = n + Len(w) /\ Len(w) \in Nat
          /\ \A i \in 1 .. n : (t \o w)[i] = t[i]
          /\ \A i \in 1 .. Len(w) : (t \o w)[n + i] = w[i]
      BY ONLY t \in Seq(Byte), w \in Seq(Byte), Joined
    <3>2. n = 1
      OBVIOUS
    <3> HIDE DEF n
    <3> QED BY ONLY <3>1, <3>2
  <2>2. Len(w) >= 1
    BY <1>3, <2>1
  <2>3. 1 \in 1 .. 1 /\ 1 \in 1 .. Len(w) /\ 1 + 1 = 2
    BY <2>1, <2>2
  <2> QED BY <2>1, <2>2, <2>3
<1> QED BY <1>3, <1>4 DEF Magic

\* One turn takes whole keys and frames and does what they ask for, and the
\* parser only returns when there are no more.
TurnTakes(s, e) ==
  \E a \in Seq(Byte), r \in Seq(Byte), y \in Seq(Effect), g \in Seq(Effect) :
    /\ s = a \o r /\ e = y \o g /\ Spoken(r, g)
    /\ Turn.len = Len(a) /\ Turn.do = y /\ (Turn.return => r = <<>>)

LEMMA KeysAreLow == \A c \in 0 .. 252 : c # 255
  OBVIOUS

LEMMA TurnKeys ==
  ASSUME NEW s \in Seq(Byte), NEW t \in Seq(Byte), wire \in Seq(Byte), NEW e, NEW f, ~HalfMagic,
         buf = s \o t, Spoken(s, e), Pending(t, wire, f), s # <<>>, s[1] \in 0 .. 252
  PROVE  TurnTakes(s, e)
<1>1. /\ buf \in Seq(Byte) /\ Len(buf) = Len(s) + Len(t) /\ Len(s) \in Nat /\ Len(t) \in Nat
      /\ \A i \in 1 .. Len(s) : buf[i] = s[i]
      /\ \A i \in 1 .. Len(t) : buf[Len(s) + i] = t[i]
  OBVIOUS
<1>2. Len(s) >= 1 /\ buf[1] # 255 /\ Len(buf) \in Nat
  <2>1. Len(s) # 0
    BY EmptySeq
  <2>2. Len(s) >= 1 /\ 1 \in 1 .. Len(s)
    BY <1>1, <2>1
  <2>4. \A i \in 1 .. Len(s) : buf[i] = s[i]
    BY <1>1
  <2>5. buf[1] = s[1]
    BY ONLY <2>2, <2>4
  <2>3. buf[1] = s[1] /\ s[1] # 255
    <3>1. s[1] \in 0 .. 252
      OBVIOUS
    <3> QED BY <2>5, <3>1, KeysAreLow, Zenon
  <2> QED BY <1>1, <2>2, <2>3
<1>3. Turn = Forward
  BY <1>2, TurnForward
<1>4. /\ Cut \in 0 .. Len(buf) /\ Quiet(buf, Cut)
      /\ Cut # Len(buf) => Cut + 1 \in Cuts
  BY <1>1, CutProps
<1>5. Cut <= Len(s)
  <2> SUFFICES ASSUME Cut > Len(s) PROVE FALSE
    BY <1>1, <1>4
  <2>1. Len(t) > 0
    BY <1>1, <1>4
  <2>0. Len(t) >= 1 /\ Starts(t \o wire, f, Len(t))
    BY <2>1 DEF Pending
  <2>4. Len(t) # 1
    <3> SUFFICES ASSUME Len(t) = 1 PROVE FALSE
      OBVIOUS
    <3>1. t[1] = 255 /\ wire # <<>> /\ wire[1] \in Magic
      <4>1. t \in Seq(Byte) /\ Len(t) = 1 /\ wire \in Seq(Byte)
        OBVIOUS
      <4> QED BY ONLY <2>0, <4>1, OneOfTwo
    <3>2. Len(buf) = Len(s) + 1 /\ Cut = Len(buf) /\ buf[Len(buf)] = 255 /\ buf # <<>>
      BY <1>1, <1>2, <1>4, <3>1
    <3>3. ~HasMagic
      BY <1>2 DEF HasMagic, Head2
    <3> QED BY <3>1, <3>2, <3>3 DEF HalfMagic
  <2>2. Len(t) >= 2 /\ t[1] = 255 /\ t[2] \in {255, 254, 253}
    <3>1. Len(t) >= 2
      <4> DEFINE m == Len(t)
      <4>1. m \in Nat /\ m >= 1 /\ m # 1
        BY <2>0, <2>4
      <4> HIDE DEF m
      <4>2. m >= 2
        BY ONLY <4>1
      <4> QED BY <4>2 DEF m
    <3> QED BY <2>0, <3>1, MagicAtFront
  <2> DEFINE i == Len(s) + 1
  <2>3. buf[i] = 255 /\ buf[i + 1] \in {255, 254, 253} /\ i \in 1 .. Cut /\ i + 1 <= Len(buf)
    <3>1. buf[Len(s) + 1] = t[1] /\ buf[Len(s) + 2] = t[2]
      BY <1>1, <2>2
    <3>2. i + 1 = Len(s) + 2
      BY <1>1
    <3>3. i \in 1 .. Cut /\ i + 1 <= Len(buf)
      BY <1>1, <1>4, <2>2
    <3> QED BY <2>2, <3>1, <3>2, <3>3
  <2> HIDE DEF i
  <2> QED BY <1>4, <2>3 DEF Quiet
<1>6. Quiet(s, Cut)
  <2> SUFFICES ASSUME NEW i \in 1 .. Cut, i + 1 <= Len(s), s[i] = 255, s[i + 1] \in {255, 254, 253}
               PROVE  FALSE
    BY DEF Quiet
  <2>1. i \in 1 .. Len(s) /\ i + 1 \in 1 .. Len(s) /\ i + 1 <= Len(buf)
    BY <1>1, <1>4
  <2>2. buf[i] = 255 /\ buf[i + 1] \in {255, 254, 253}
    BY <1>1, <2>1
  <2> QED BY <1>4, <2>1, <2>2 DEF Quiet
<1>7. PICK k \in Seq(Byte), r \in Seq(Byte), g \in Seq(Effect) :
        Len(k) = Cut /\ s = k \o r /\ e = Forwards(k) \o g /\ Spoken(r, g)
  <2>1. Cut \in 0 .. Len(s)
    BY <1>1, <1>4, <1>5
  <2>2. Run(s, e, Cut)
    BY <1>6, <2>1, KeyRun
  <2> QED BY <2>2 DEF Run
<1>8. Forwarded(Cut) = Forwards(k)
  <2>1. \A i \in 1 .. Len(k) : buf[i] = k[i]
    <3>0. s = k \o r /\ k \in Seq(Byte) /\ r \in Seq(Byte)
      BY <1>7
    <3>1. Len(s) = Len(k) + Len(r) /\ Len(r) \in Nat /\ \A i \in 1 .. Len(k) : s[i] = k[i]
      BY ONLY <3>0
    <3> QED BY <1>1, <3>1
  <2>2. Cut \in 0 .. Len(buf) /\ k \in Seq(Byte) /\ Len(k) = Cut
    BY <1>4, <1>7
  <2>3. /\ Forwarded(Cut) \in Seq(Effect) /\ Len(Forwarded(Cut)) = Cut
        /\ \A i \in 1 .. Cut : Forwarded(Cut)[i] = <<"forward", buf[i]>>
    BY <1>1, <2>2, ForwardedIs
  <2>4. /\ Forwards(k) \in Seq(Effect) /\ Len(Forwards(k)) = Cut
        /\ \A i \in 1 .. Cut : Forwards(k)[i] = <<"forward", k[i]>>
    BY <2>2, ForwardsType
  <2>5. \A i \in 1 .. Cut : Forwarded(Cut)[i] = Forwards(k)[i]
    BY <2>1, <2>2, <2>3, <2>4
  <2> HIDE DEF Forwarded
  <2> QED BY <2>3, <2>4, <2>5, SeqEqual
<1>9. Turn.len = Len(k) /\ Turn.do = Forwards(k) /\ Turn.return = (Len(buf) - Cut < 2)
  BY <1>3, <1>7, <1>8 DEF Forward, Take
<1>10. Len(buf) - Cut < 2 => r = <<>>
  <2> SUFFICES ASSUME Len(buf) - Cut < 2 PROVE r = <<>>
    OBVIOUS
  <2>1. Cut = Len(buf)
    BY <1>1, <1>4 DEF Cuts
  <2>4. s = k \o r /\ k \in Seq(Byte) /\ r \in Seq(Byte)
    BY <1>7
  <2>2. Len(s) = Len(k) + Len(r) /\ Len(r) \in Nat /\ Len(k) \in Nat
    BY ONLY <2>4
  <2>3. Len(r) = 0
    BY <1>1, <1>5, <1>7, <2>1, <2>2
  <2> QED BY <2>3, EmptySeq
<1> QED BY <1>7, <1>9, <1>10, ForwardsType DEF TurnTakes

LEMMA TurnSpoken ==
  ASSUME NEW s \in Seq(Byte), NEW t \in Seq(Byte), wire \in Seq(Byte), NEW e, NEW f, ~HalfMagic,
         buf = s \o t, Spoken(s, e), Pending(t, wire, f)
  PROVE  TurnTakes(s, e)
<1>0. <<>> \in Seq(Byte) /\ <<>> \in Seq(Effect) /\ buf \in Seq(Byte) /\ Len(<<>>) = 0
  OBVIOUS
<1>1. CASE s = <<>> /\ e = <<>>
  <2>1. Turn.len = 0 /\ Turn.do = <<>>
    <3>1. CASE t = <<>>
      <4>1. buf = <<>>
        BY <1>1, <3>1
      <4>2. Len(buf) = 0
        BY <4>1
      <4>3. Turn = Forward
        BY <4>2, TurnForward
      <4>4. Cut = 0
        BY <1>0, <4>2, CutProps
      <4>5. Forwarded(0) = <<>>
        <5>1. 0 \in 0 .. Len(buf)
          BY <4>2
        <5>2. Forwarded(0) \in Seq(Effect) /\ Len(Forwarded(0)) = 0
          BY <1>0, <5>1, ForwardedIs
        <5> HIDE DEF Forwarded
        <5> QED BY <5>2, EmptySeq
      <4> QED BY <4>3, <4>4, <4>5 DEF Forward, Take
    <3>2. CASE t # <<>>
      <4>1. buf = t
        BY <1>1, ConcatEmptySeq
      <4>2. Len(buf) >= 1 /\ Starts(buf \o wire, f, Len(buf)) /\ Len(buf) \in Nat
        BY <3>2, <4>1 DEF Pending
      <4>3. Len(buf) # 1
        <5> SUFFICES ASSUME Len(buf) = 1 PROVE FALSE
          OBVIOUS
        <5>1. buf[1] = 255 /\ wire # <<>> /\ wire[1] \in Magic
          BY <1>0, <4>2, OneOfTwo
        <5>2. Cuts = {} /\ ~HasMagic
          BY DEF Cuts, HasMagic, Head2
        <5>3. Cut = Len(buf) /\ buf # <<>>
          BY <5>2 DEF Cut
        <5> QED BY <5>1, <5>2, <5>3 DEF HalfMagic
      <4>4. Len(buf) >= 2
        BY <4>2, <4>3
      <4> QED BY <1>0, <4>2, <4>4, TurnAwait DEF Await
    <3> QED BY <3>1, <3>2
  <2>2. s = <<>> \o <<>> /\ e = <<>> \o <<>>
    BY <1>0, <1>1, ConcatEmptySeq
  <2> QED BY <1>0, <1>1, <2>1, <2>2, SpokenEmpty DEF TurnTakes
<1>2. ASSUME NEW b \in Seq(Byte), NEW r \in Seq(Byte), NEW x \in Seq(Effect), NEW g \in Seq(Effect),
             Atom(b, x), s = b \o r, e = x \o g, Spoken(r, g)
      PROVE  TurnTakes(s, e)
  <2>1. CASE IsFrame(b, x)
    <3>1. buf = b \o (r \o t) /\ r \o t \in Seq(Byte)
      <4>1. (b \o r) \o t = b \o (r \o t)
        <5>1. b \in Seq(Byte) /\ r \in Seq(Byte) /\ t \in Seq(Byte)
          OBVIOUS
        <5>2. Grouped(b, r, t)
          BY ONLY <5>1, RegroupThree
        <5> QED BY ONLY <5>2 DEF Grouped
      <4> QED BY <1>2, <4>1
    <3>2. Turn = [len |-> Len(b), do |-> x, return |-> FALSE]
      BY <1>0, <1>2, <2>1, <3>1, TurnFrame
    <3> QED BY <1>2, <3>2 DEF TurnTakes
  <2>2. CASE IsKey(b, x)
    <3>1. Len(b) = 1 /\ b[1] \in 0 .. 252
      BY <1>2, <2>2, AtomBytes
    <3>3. s = b \o r /\ b \in Seq(Byte) /\ r \in Seq(Byte)
      BY <1>2
    <3>6. Len(s) = Len(b) + Len(r) /\ Len(r) \in Nat /\ \A i \in 1 .. Len(b) : s[i] = b[i]
      BY ONLY <3>3
    <3>2. s[1] = b[1] /\ Len(s) >= 1
      BY ONLY <3>1, <3>6
    <3>4. s # <<>>
      BY <3>2, EmptySeq
    <3>5. s[1] \in 0 .. 252
      BY <3>1, <3>2
    <3> QED BY <3>4, <3>5, TurnKeys
  <2> QED BY <1>2, <2>1, <2>2 DEF Atom
<1>3. Fronted(s, e)
  <2>1. Spoken(s, e)
    OBVIOUS
  <2> QED BY ONLY <2>1, SpokenFront
<1> QED BY <1>1, <1>2, <1>3 DEF Fronted

\* A sequence has one front of each length.
LEMMA SameFront ==
  ASSUME NEW a \in Seq(Byte), NEW b \in Seq(Byte), NEW c \in Seq(Byte), NEW d \in Seq(Byte),
         a \o b = c \o d, Len(a) = Len(c)
  PROVE  a = c /\ b = d
<1>1. /\ Len(a) \in Nat /\ Len(b) \in Nat /\ Len(c) \in Nat /\ Len(d) \in Nat
      /\ Len(a \o b) = Len(a) + Len(b) /\ Len(c \o d) = Len(c) + Len(d)
  OBVIOUS
<1>2. Len(b) = Len(d)
  BY <1>1
<1>3. /\ \A i \in 1 .. Len(a) : (a \o b)[i] = a[i]
      /\ \A i \in 1 .. Len(c) : (c \o d)[i] = c[i]
      /\ \A i \in 1 .. Len(b) : (a \o b)[Len(a) + i] = b[i]
      /\ \A i \in 1 .. Len(d) : (c \o d)[Len(c) + i] = d[i]
  BY Joined
<1>4. \A i \in 1 .. Len(a) : a[i] = c[i]
  BY <1>3
<1>5. \A i \in 1 .. Len(b) : b[i] = d[i]
  BY <1>2, <1>3
<1> QED BY <1>2, <1>4, <1>5, SeqEqual

LEMMA FrontAndBack ==
  ASSUME NEW q \in Seq(Byte), NEW n \in 0 .. Len(q)
  PROVE  /\ SubSeq(q, 1, n) \in Seq(Byte) /\ Len(SubSeq(q, 1, n)) = n
         /\ SubSeq(q, n + 1, Len(q)) \in Seq(Byte)
         /\ Len(SubSeq(q, n + 1, Len(q))) = Len(q) - n
         /\ q = SubSeq(q, 1, n) \o SubSeq(q, n + 1, Len(q))
<1> DEFINE a == SubSeq(q, 1, n)  b == SubSeq(q, n + 1, Len(q))
<1>0. Len(q) \in Nat /\ n \in Nat /\ n <= Len(q)
  OBVIOUS
<1>1. a \in Seq(Byte) /\ Len(a) = n /\ \A i \in 1 .. n : a[i] = q[i]
  BY <1>0
<1>2. b \in Seq(Byte) /\ Len(b) = Len(q) - n /\ \A i \in 1 .. Len(q) - n : b[i] = q[n + i]
  BY <1>0
<1> HIDE DEF a, b
<1>3. /\ a \o b \in Seq(Byte) /\ Len(a \o b) = Len(a) + Len(b)
      /\ \A i \in 1 .. Len(a) : (a \o b)[i] = a[i]
      /\ \A i \in 1 .. Len(b) : (a \o b)[Len(a) + i] = b[i]
  BY ONLY <1>1, <1>2, Joined
<1>4. Len(q) = Len(a \o b)
  BY <1>0, <1>1, <1>2, <1>3
<1>5. ASSUME NEW i \in 1 .. Len(q) PROVE q[i] = (a \o b)[i]
  <2>1. CASE i <= n
    BY <1>0, <1>1, <1>3, <2>1
  <2>2. CASE i > n
    <3>1. i - n \in 1 .. Len(b) /\ n + (i - n) = i
      BY <1>0, <1>2, <2>2
    <3>2. b[i - n] = q[i] /\ (a \o b)[n + (i - n)] = b[i - n]
      BY <1>1, <1>2, <1>3, <3>1
    <3> QED BY <3>1, <3>2
  <2>3. i <= n \/ i > n
    BY ONLY <1>0
  <2> QED BY <2>1, <2>2, <2>3
<1>6. q = a \o b
  BY <1>3, <1>4, <1>5, SeqEqual
<1> QED BY <1>1, <1>2, <1>6 DEF a, b

\* m bytes are taken from a stream: whole keys and frames, and the beginning of
\* a frame that is to be waited for.
Divided(q, g, m) ==
  \E u \in Seq(Byte), t \in Seq(Byte), w \in Seq(Byte), d \in Seq(Effect), h \in Seq(Effect) :
    /\ q = u \o (t \o w) /\ Len(u) + Len(t) = m /\ g = d \o h
    /\ Spoken(u, d) /\ Pending(t, w, h)

LEMMA Dividing ==
  ASSUME NEW q, NEW g, Spoken(q, g), NEW m \in 0 .. Len(q)
  PROVE  Divided(q, g, m)
<1>0. q \in Seq(Byte) /\ g \in Seq(Effect) /\ Len(q) \in Nat
  BY DEF Spoken
<1>1. Splits(q, g, m)
  BY SpokenSplits
<1>2. PICK u \in Seq(Byte), v \in Seq(Byte), d \in Seq(Effect), h \in Seq(Effect) :
        /\ Spoken(u, d) /\ q = u \o v /\ g = d \o h /\ Len(u) <= m
        /\ (v = <<>> /\ h = <<>> /\ m = Len(u)) \/ Starts(v, h, m - Len(u))
  BY <1>1 DEF Splits
<1> DEFINE k == m - Len(u)
<1>3. u \in Seq(Byte) /\ v \in Seq(Byte) /\ d \in Seq(Effect) /\ h \in Seq(Effect)
  OBVIOUS
<1>4. Len(u) \in Nat /\ Len(v) \in Nat /\ Len(q) = Len(u) + Len(v)
  <2>1. q = u \o v
    BY <1>2
  <2> QED BY ONLY <1>3, <2>1
<1>5. k \in 0 .. Len(v)
  BY <1>2, <1>4
<1> DEFINE t == SubSeq(v, 1, k)  w == SubSeq(v, k + 1, Len(v))
<1>6. /\ t \in Seq(Byte) /\ Len(t) = k /\ w \in Seq(Byte) /\ v = t \o w
      /\ Len(w) = Len(v) - k
  BY ONLY <1>3, <1>5, FrontAndBack
<1>7. Len(u) + Len(t) = m
  BY <1>2, <1>4, <1>6
<1> HIDE DEF t, w
<1>8. Pending(t, w, h)
  <2>1. CASE v = <<>> /\ h = <<>> /\ k = 0
    <3>1. Len(t) = 0 /\ Len(w) = 0
      BY <1>6, <2>1
    <3>2. t = <<>> /\ w = <<>>
      BY <1>6, <3>1, EmptySeq
    <3> QED BY <2>1, <3>2, SpokenEmpty DEF Pending
  <2>2. CASE Starts(v, h, k)
    <3>1. CASE k = 0
      <4>1. Len(t) = 0
        BY <1>6, <3>1
      <4>2. t = <<>>
        BY <1>6, <4>1, EmptySeq
      <4>3. v = w
        BY <1>6, <4>2, ConcatEmptySeq
      <4>4. Spoken(v, h)
        BY <2>2, StartsSpoken
      <4> QED BY <4>2, <4>3, <4>4 DEF Pending
    <3>2. CASE k >= 1
      BY <1>6, <2>2, <3>2 DEF Pending
    <3> QED BY <1>5, <3>1, <3>2
  <2> QED BY <1>2, <2>1, <2>2
<1> QED BY <1>2, <1>6, <1>7, <1>8 DEF Divided

\* What a read leaves in the buffer and in the socket, of t in the buffer and w
\* in the socket before.
ReadOn(t, w, f, n) ==
  \E u \in Seq(Byte), v \in Seq(Byte), d \in Seq(Effect), h \in Seq(Effect) :
    /\ t \o SubSeq(w, 1, n) = u \o v /\ f = d \o h
    /\ Spoken(u, d) /\ Pending(v, SubSeq(w, n + 1, Len(w)), h)

LEMMA ReadingOn ==
  ASSUME NEW t \in Seq(Byte), NEW w \in Seq(Byte), NEW f \in Seq(Effect), Pending(t, w, f),
         NEW n \in 1 .. Len(w)
  PROVE  ReadOn(t, w, f, n)
<1> DEFINE a == SubSeq(w, 1, n)  c == SubSeq(w, n + 1, Len(w))
<1>1. /\ a \in Seq(Byte) /\ c \in Seq(Byte) /\ Len(a) = n /\ w = a \o c
      /\ Len(c) = Len(w) - n
  <2>1. n \in 0 .. Len(w)
    OBVIOUS
  <2> QED BY <2>1, FrontAndBack
<1>0. /\ Len(w) \in Nat /\ Len(t) \in Nat /\ t \in Seq(Byte) /\ w \in Seq(Byte)
      /\ n \in Nat /\ n >= 1 /\ n <= Len(w)
  OBVIOUS
<1>h. ReadOn(t, w, f, n) <=>
       \E u \in Seq(Byte), v \in Seq(Byte), d \in Seq(Effect), h \in Seq(Effect) :
         t \o a = u \o v /\ f = d \o h /\ Spoken(u, d) /\ Pending(v, c, h)
  BY DEF ReadOn
<1> HIDE DEF a, c
<1>2. CASE t = <<>> /\ Spoken(w, f)
  <2>1. Divided(w, f, n)
    <3>1. n \in 0 .. Len(w)
      BY <1>0
    <3> QED BY <1>2, <3>1, Dividing
  <2>2. PICK u \in Seq(Byte), v \in Seq(Byte), z \in Seq(Byte), d \in Seq(Effect), h \in Seq(Effect) :
          /\ w = u \o (v \o z) /\ Len(u) + Len(v) = n /\ f = d \o h
          /\ Spoken(u, d) /\ Pending(v, z, h)
    BY <2>1 DEF Divided
  <2>3. u \in Seq(Byte) /\ v \in Seq(Byte) /\ z \in Seq(Byte)
    OBVIOUS
  <2>4. (u \o v) \o z = u \o (v \o z)
    BY ONLY <2>3, Regroup, Zenon
  <2>5. u \o v \in Seq(Byte) /\ Len(u \o v) = Len(u) + Len(v)
    BY ONLY <2>3, Joined
  <2>6. Len(u \o v) = Len(a) /\ (u \o v) \o z = a \o c
    BY <1>1, <2>2, <2>4, <2>5
  <2>7. u \o v = a /\ z = c
    BY ONLY <1>1, <2>3, <2>5, <2>6, SameFront
  <2>8. t \o a = a
    BY ONLY <1>1, <1>2, ConcatEmptySeq
  <2>9. t \o a = u \o v /\ Pending(v, c, h)
    BY <2>2, <2>7, <2>8
  <2> QED BY <1>h, <2>2, <2>9
<1>3. CASE Len(t) >= 1 /\ Starts(t \o w, f, Len(t))
  <2>1. PICK b \in Seq(Byte), r \in Seq(Byte), x \in Seq(Effect), g \in Seq(Effect) :
          Atom(b, x) /\ Spoken(r, g) /\ t \o w = b \o r /\ f = x \o g /\ Len(t) < Len(b)
    BY <1>3 DEF Starts
  <2>2. /\ b \in Seq(Byte) /\ r \in Seq(Byte) /\ x \in Seq(Effect) /\ g \in Seq(Effect)
    OBVIOUS
  <2>3. t \o a \in Seq(Byte) /\ Len(t \o a) = Len(t) + n
    BY ONLY <1>0, <1>1, Joined
  <2>4. (t \o a) \o c = b \o r
    <3>1. (t \o a) \o c = t \o (a \o c)
      <4>1. t \in Seq(Byte) /\ a \in Seq(Byte) /\ c \in Seq(Byte)
        BY <1>0, <1>1
      <4>2. Grouped(t, a, c)
        BY ONLY <4>1, RegroupThree
      <4> QED BY ONLY <4>2 DEF Grouped
    <3> QED BY <1>1, <2>1, <3>1
  <2>5. /\ Len(b) \in Nat /\ Len(r) \in Nat /\ Len(t) + Len(w) = Len(b) + Len(r)
        /\ \A i \in 1 .. Len(r) : (b \o r)[Len(b) + i] = r[i]
    <3>1. Len(t \o w) = Len(t) + Len(w)
      BY ONLY <1>0, Joined
    <3>2. /\ Len(b \o r) = Len(b) + Len(r) /\ Len(b) \in Nat /\ Len(r) \in Nat
          /\ \A i \in 1 .. Len(r) : (b \o r)[Len(b) + i] = r[i]
      BY ONLY <2>2, Joined
    <3> QED BY <2>1, <3>1, <3>2
  <2>6. \A i \in 1 .. Len(w) : (t \o w)[Len(t) + i] = w[i]
    BY ONLY <1>0, Joined
  <2>7. CASE Len(t) + n < Len(b)
    <3>1. Starts((t \o a) \o c, f, Len(t \o a))
      <4>1. (t \o a) \o c = b \o r /\ Len(t \o a) < Len(b) /\ Atom(b, x) /\ Spoken(r, g) /\ f = x \o g
        BY <2>1, <2>3, <2>4, <2>7
      <4> QED BY ONLY <2>2, <4>1 DEF Starts
    <3>2. Len(t \o a) >= 1
      BY <1>0, <1>3, <2>3
    <3>3. Pending(t \o a, c, f)
      BY <3>1, <3>2 DEF Pending
    <3>4. t \o a = <<>> \o (t \o a) /\ f = <<>> \o f
      BY ONLY <2>3, ConcatEmptySeq, f \in Seq(Effect)
    <3>5. <<>> \in Seq(Byte) /\ <<>> \in Seq(Effect)
      OBVIOUS
    <3> QED BY <1>h, <2>3, <3>3, <3>4, <3>5, SpokenEmpty
  <2>8. CASE Len(t) + n >= Len(b)
    <3> DEFINE m == Len(t) + n - Len(b)
    <3>1. m \in 0 .. Len(r) /\ Len(b) + m = Len(t) + n /\ m \in Nat
      BY <1>0, <2>1, <2>5, <2>8
    <3> HIDE DEF m
    <3>3. Divided(r, g, m)
      BY <2>1, <3>1, Dividing
    <3>4. PICK u \in Seq(Byte), v \in Seq(Byte), z \in Seq(Byte), d \in Seq(Effect), h \in Seq(Effect) :
            /\ r = u \o (v \o z) /\ Len(u) + Len(v) = m /\ g = d \o h
            /\ Spoken(u, d) /\ Pending(v, z, h)
      BY <3>3 DEF Divided
    <3>5. /\ u \in Seq(Byte) /\ v \in Seq(Byte) /\ z \in Seq(Byte)
          /\ d \in Seq(Effect) /\ h \in Seq(Effect)
      OBVIOUS
    <3>6. Spoken(b \o u, x \o d) /\ b \o u \in Seq(Byte) /\ x \o d \in Seq(Effect)
      <4>1. Spoken(b \o u, x \o d)
        BY <2>1, <3>4, SpokenOne, SpokenJoin
      <4> QED BY <4>1 DEF Spoken
    <3>7. b \o (u \o (v \o z)) = ((b \o u) \o v) \o z
      <4>1. b \in Seq(Byte) /\ u \in Seq(Byte) /\ v \in Seq(Byte) /\ z \in Seq(Byte)
        BY <2>2, <3>5
      <4>2. FourGroup(b, u, v, z)
        BY ONLY <4>1, RegroupFour
      <4> QED BY ONLY <4>2 DEF FourGroup
    <3>8. (b \o u) \o v \in Seq(Byte) /\ Len((b \o u) \o v) = Len(t \o a)
      <4>1. /\ (b \o u) \o v \in Seq(Byte) /\ Len((b \o u) \o v) = Len(b \o u) + Len(v)
        BY ONLY <3>5, <3>6, Joined
      <4>2. Len(b \o u) = Len(b) + Len(u) /\ Len(b) \in Nat /\ Len(u) \in Nat /\ Len(v) \in Nat
        BY ONLY <2>2, <3>5, Joined
      <4>3. Len((b \o u) \o v) = Len(b) + Len(u) + Len(v)
        BY <4>1, <4>2
      <4>4. Len(u) + Len(v) = m
        BY <3>4
      <4> DEFINE lb == Len(b)  lu == Len(u)  lv == Len(v)  lt == Len(t)
                 all == Len((b \o u) \o v)  ta == Len(t \o a)
      <4>5. /\ lb \in Nat /\ lu \in Nat /\ lv \in Nat /\ lt \in Nat /\ all = lb + lu + lv
            /\ lu + lv = m /\ lb + m = lt + n /\ ta = lt + n /\ n \in Nat
        BY <1>0, <2>3, <3>1, <4>2, <4>3, <4>4
      <4> HIDE DEF lb, lu, lv, lt, all, ta
      <4>6. all = ta
        BY ONLY <4>5
      <4> QED BY <4>1, <4>6 DEF all, ta
    <3>9. (t \o a) \o c = ((b \o u) \o v) \o z
      BY <2>4, <3>4, <3>7
    <3>10. t \o a = (b \o u) \o v /\ c = z
      BY ONLY <1>1, <2>3, <3>5, <3>8, <3>9, SameFront
    <3>11. f = (x \o d) \o h
      <4>1. (x \o d) \o h = x \o (d \o h)
        <5>1. x \in Seq(Effect) /\ d \in Seq(Effect) /\ h \in Seq(Effect)
          BY <2>2, <3>5
        <5>2. Grouped(x, d, h)
          BY ONLY <5>1, RegroupThree
        <5> QED BY ONLY <5>2 DEF Grouped
      <4> QED BY <2>1, <3>4, <4>1
    <3>12. Pending(v, c, h)
      BY <3>4, <3>10
    <3> QED BY ONLY <1>h, <3>5, <3>6, <3>10, <3>11, <3>12
  <2> QED BY <1>0, <2>5, <2>7, <2>8
<1> QED BY <1>2, <1>3 DEF Pending

-----------------------------------------------------------------------------
(***************************************************************************)
(* What is written: every item is keys or one whole frame.                 *)
(***************************************************************************)
Typing == [kind : {"keys"}, data : Seq(0 .. 252)]
Short == {n \in Int : -32768 <= n /\ n <= 32767}
Height == {n \in Nat : n < 65536}
Turning == [kind : {"scroll"}, dy : Short]
Resizing == [kind : {"resize"}, rows : Height]

\* Pictures: any that a browser's terminal can send, those with the payload that
\* is taken with them, and those that do not mislead.
Web     == {it \in [kind : {"image"}, len : Nat, data : Seq(Byte)] : it.len \div 65536 < 65536}
Pasting == {it \in Web : Len(it.data) = Taken(it)}
Telling == {it \in Web : ~Misleads(it)}
Items == Typing \cup Turning \cup Resizing \cup Telling

LEMMA Modulos == ASSUME NEW n \in Int PROVE (n % 65536) % 256 = n % 256
  BY SMTT(30)

LEMMA ModuloSmall == ASSUME NEW n \in Nat, n < 65536 PROVE n % 65536 = n
  BY SMTT(30)

LEMMA ModuloNegative == ASSUME NEW n \in Int, n < 0, n >= -32768 PROVE n % 65536 = n + 65536
  BY SMTT(30)

Halves(m, h, l) == h \in Byte /\ l \in Byte /\ h * 256 + l = m

LEMMA Quotient ==
  ASSUME NEW m \in Nat, m < 65536
  PROVE  Halves(m, m \div 256, m % 256)
<1> DEFINE h == m \div 256
           l == m % 256
<1>1. h <= 255
  BY SMTT(30)
<1>2. h >= 0
  BY SMTT(30)
<1>3. h \in Int
  BY SMTT(30)
<1>4. l \in Int /\ l >= 0 /\ l <= 255
  BY SMTT(30)
<1>5. m = 256 * h + l
  BY SMTT(30)
<1> HIDE DEF h, l
<1>6. h * 256 + l = m
  BY ONLY <1>1, <1>2, <1>3, <1>4, <1>5
<1>7. h \in Byte /\ l \in Byte
  BY ONLY <1>1, <1>2, <1>3, <1>4 DEF Byte
<1>8. Halves(m, h, l)
  BY ONLY <1>6, <1>7 DEF Halves
<1> QED BY <1>8 DEF h, l

LEMMA U16Word ==
  ASSUME NEW n \in Int
  PROVE  \E h \in Byte, l \in Byte : U16(n) = <<h, l>> /\ Halves(n % 65536, h, l)
<1> DEFINE m == n % 65536
<1>1. m \in Nat /\ m < 65536
  OBVIOUS
<1>2. n % 256 = m % 256
  BY Modulos
<1> HIDE DEF m
<1>3. Halves(m, m \div 256, m % 256)
  BY <1>1, Quotient
<1> DEFINE h == m \div 256
           l == m % 256
<1>4. Halves(m, h, l)
  BY <1>3
<1>5. U16(n) = <<h, l>>
  BY <1>2 DEF U16, m
<1> HIDE DEF h, l
<1>6. h \in Byte /\ l \in Byte
  BY <1>4 DEF Halves
<1> QED BY <1>4, <1>5, <1>6 DEF m

Recomposed(n, q, p, r) == q \in Nat /\ q < 65536 /\ p = q /\ p * 65536 + r = n

LEMMA LengthArithmetic ==
  ASSUME NEW n \in Nat, n \div 65536 < 65536
  PROVE  Recomposed(n, n \div 65536, (n \div 65536) % 65536, n % 65536)
<1> DEFINE q == n \div 65536
           r == n % 65536
<1>1. n = 65536 * q + r
  BY SMTT(30)
<1>2. q \in Nat
  BY SMTT(30)
<1>3. r \in Nat
  BY SMTT(30)
<1>4. q < 65536
  OBVIOUS
<1> HIDE DEF q, r
<1>5. q % 65536 = q
  BY <1>2, <1>4, ModuloSmall
<1>6. q * 65536 + r = n
  BY ONLY <1>1, <1>2, <1>3
<1> DEFINE p == q % 65536
<1>7. Recomposed(n, q, p, r)
  BY <1>2, <1>4, <1>5, <1>6 DEF Recomposed
<1> QED BY <1>7 DEF p, q, r

LEMMA NatInt == \A n \in Nat : n \in Int
  OBVIOUS

LEMMA BytesAre ==
  /\ 255 \in Byte /\ 254 \in Byte /\ 253 \in Byte /\ 1 \in Byte
  BY DEF Byte

LEMMA JoinIs ==
  ASSUME NEW S, NEW a \in Seq(S), NEW b \in Seq(S), NEW c \in Seq(S), Len(c) = Len(a) + Len(b),
         \A i \in 1 .. Len(a) : c[i] = a[i], \A i \in 1 .. Len(b) : c[Len(a) + i] = b[i]
  PROVE  a \o b = c
<1> DEFINE d == a \o b
           n == Len(a)
           m == Len(b)
<1>0. /\ n \in Nat /\ m \in Nat /\ Len(c) = n + m /\ n = Len(a) /\ m = Len(b)
      /\ \A i \in 1 .. n : c[i] = a[i]
      /\ \A i \in 1 .. m : c[n + i] = b[i]
  OBVIOUS
<1>1. /\ d \in Seq(S) /\ Len(d) = Len(a) + Len(b)
      /\ \A i \in 1 .. Len(a) + Len(b) : d[i] = IF i <= Len(a) THEN a[i] ELSE b[i - Len(a)]
  BY ConcatProperties
<1> HIDE DEF d, n, m
<1>2. Len(d) = n + m /\ Len(c) = n + m
  BY <1>0, <1>1
<1>3. \A i \in 1 .. n + m : d[i] = IF i <= n THEN a[i] ELSE b[i - n]
  BY <1>0, <1>1
<1>4. ASSUME NEW i \in 1 .. n + m PROVE d[i] = c[i]
  <2>2. CASE i <= n
    <3>1. i \in 1 .. n
      BY <1>0, <2>2
    <3> QED BY <1>0, <1>3, <3>1
  <2>3. CASE i > n
    <3>1. i - n \in 1 .. m /\ n + (i - n) = i /\ ~(i <= n)
      BY <1>0, <2>3
    <3>2. c[n + (i - n)] = b[i - n]
      BY <1>0, <3>1
    <3> QED BY <1>0, <1>3, <3>1, <3>2
  <2>4. i <= n \/ i > n
    BY <1>0
  <2> QED BY <2>2, <2>3, <2>4
<1>5. d = c
  BY <1>1, <1>2, <1>4, SeqEqual
<1> QED BY <1>5 DEF d

LEMMA ShortTuples ==
  ASSUME NEW k \in Byte, NEW m \in Byte, NEW h \in Byte, NEW l \in Byte
  PROVE  <<k, m>> \o <<h, l>> = <<k, m, h, l>>
<1> DEFINE a == <<k, m>>  b == <<h, l>>  c == <<k, m, h, l>>
<1>1. a \in Seq(Byte) /\ Len(a) = 2 /\ a[1] = k /\ a[2] = m
  OBVIOUS
<1>2. b \in Seq(Byte) /\ Len(b) = 2 /\ b[1] = h /\ b[2] = l
  OBVIOUS
<1>3. c \in Seq(Byte) /\ Len(c) = 4 /\ c[1] = k /\ c[2] = m /\ c[3] = h /\ c[4] = l
  OBVIOUS
<1> HIDE DEF a, b, c
<1>4. (\A i \in 1 .. Len(a) : c[i] = a[i]) /\ \A i \in 1 .. Len(b) : c[Len(a) + i] = b[i]
  BY ONLY <1>1, <1>2, <1>3
<1>5. a \in Seq(Byte) /\ b \in Seq(Byte) /\ c \in Seq(Byte) /\ Len(c) = Len(a) + Len(b)
  BY <1>1, <1>2, <1>3
<1>6. a \o b = c
  BY ONLY <1>4, <1>5, JoinIs
<1> QED BY <1>6 DEF a, b, c

LEMMA LongTuples ==
  ASSUME NEW k \in Byte, NEW m \in Byte, NEW h \in Byte, NEW l \in Byte, NEW h2 \in Byte, NEW l2 \in Byte
  PROVE  <<k, m, h, l>> \o <<h2, l2>> = <<k, m, h, l, h2, l2>>
<1> DEFINE a == <<k, m, h, l>>  b == <<h2, l2>>  c == <<k, m, h, l, h2, l2>>
<1>1. a \in Seq(Byte) /\ Len(a) = 4 /\ a[1] = k /\ a[2] = m /\ a[3] = h /\ a[4] = l
  OBVIOUS
<1>2. b \in Seq(Byte) /\ Len(b) = 2 /\ b[1] = h2 /\ b[2] = l2
  OBVIOUS
<1>3. c \in Seq(Byte) /\ Len(c) = 6 /\ c[1] = k /\ c[2] = m /\ c[3] = h /\ c[4] = l /\ c[5] = h2 /\ c[6] = l2
  OBVIOUS
<1> HIDE DEF a, b, c
<1>4. (\A i \in 1 .. Len(a) : c[i] = a[i]) /\ \A i \in 1 .. Len(b) : c[Len(a) + i] = b[i]
  BY ONLY <1>1, <1>2, <1>3
<1>5. a \in Seq(Byte) /\ b \in Seq(Byte) /\ c \in Seq(Byte) /\ Len(c) = Len(a) + Len(b)
  BY <1>1, <1>2, <1>3
<1>6. a \o b = c
  BY ONLY <1>4, <1>5, JoinIs
<1> QED BY <1>6 DEF a, b, c

LEMMA HeadTuples ==
  ASSUME NEW h \in Byte, NEW l \in Byte, NEW h2 \in Byte, NEW l2 \in Byte
  PROVE  <<255, 253, h, l, h2, l2>> \o <<1>> = <<255, 253, h, l, h2, l2, 1>>
<1> DEFINE a == <<255, 253, h, l, h2, l2>>  b == <<1>>  c == <<255, 253, h, l, h2, l2, 1>>
<1>1. /\ a \in Seq(Byte) /\ Len(a) = 6 /\ a[1] = 255 /\ a[2] = 253
      /\ a[3] = h /\ a[4] = l /\ a[5] = h2 /\ a[6] = l2
  BY BytesAre
<1>2. b \in Seq(Byte) /\ Len(b) = 1 /\ b[1] = 1
  BY BytesAre
<1>3. /\ c \in Seq(Byte) /\ Len(c) = 7 /\ c[1] = 255 /\ c[2] = 253
      /\ c[3] = h /\ c[4] = l /\ c[5] = h2 /\ c[6] = l2 /\ c[7] = 1
  BY BytesAre
<1> HIDE DEF a, b, c
<1>4. (\A i \in 1 .. Len(a) : c[i] = a[i]) /\ \A i \in 1 .. Len(b) : c[Len(a) + i] = b[i]
  BY ONLY <1>1, <1>2, <1>3
<1>5. a \in Seq(Byte) /\ b \in Seq(Byte) /\ c \in Seq(Byte) /\ Len(c) = Len(a) + Len(b)
  BY <1>1, <1>2, <1>3
<1>6. a \o b = c
  BY ONLY <1>4, <1>5, JoinIs
<1> QED BY <1>6 DEF a, b, c

LEMMA OneMore ==
  ASSUME NEW n \in Nat, NEW g \in Seq(Effect), Len(g) = n, NEW y \in Seq(Effect), Len(y) = 1,
         NEW h \in Seq(Effect), Len(h) = n + 1, h[n + 1] = y[1], \A i \in 1 .. n : g[i] = h[i]
  PROVE  g \o y = h
<1>1. \A i \in 1 .. Len(y) : h[Len(g) + i] = y[i]
  OBVIOUS
<1>2. (\A i \in 1 .. Len(g) : h[i] = g[i]) /\ Len(h) = Len(g) + Len(y)
  OBVIOUS
<1> QED BY <1>1, <1>2, JoinIs

LEMMA KeysSpoken ==
  ASSUME NEW d \in Seq(0 .. 252)
  PROVE  d \in Seq(Byte) /\ Spoken(d, Forwards(d))
<1> DEFINE T == {n \in Nat : \E c \in Seq(0 .. 252) : Len(c) = n /\ ~Spoken(c, Forwards(c))}
<1>1. \A c \in Seq(0 .. 252) : c \in Seq(Byte)
  BY DEF Byte
<1>2. ASSUME T # {} PROVE FALSE
  <2>1. Min(T) \in T /\ \A n \in T : Min(T) <= n
    BY <1>2, MinIsLeast
  <2> DEFINE m == Min(T)
  <2>2. PICK c \in Seq(0 .. 252) : Len(c) = m /\ ~Spoken(c, Forwards(c))
    BY <2>1
  <2>3. m \in Nat
    BY <2>1
  <2> HIDE DEF T
  <2>4. CASE c = <<>>
    <3>1. Forwards(c) = <<>>
      BY <2>4 DEF Forwards
    <3> QED BY <2>2, <2>4, <3>1, SpokenEmpty
  <2>5. CASE c # <<>>
    <3>1. PICK f \in Seq(0 .. 252), k \in 0 .. 252 : c = Append(f, k)
      BY <2>5, SequenceEmptyOrAppend
    <3>2. /\ c = f \o <<k>> /\ Len(c) = Len(f) + 1 /\ Len(f) \in Nat /\ c[Len(c)] = k
          /\ \A i \in 1 .. Len(f) : c[i] = f[i]
      BY <3>1
    <3>3. Spoken(f, Forwards(f))
      <4>1. Len(f) < m /\ Len(f) \in Nat
        BY <2>2, <2>3, <3>2
      <4>2. Len(f) \notin T
        BY <2>1, <2>3, <4>1
      <4> QED BY <4>1, <4>2 DEF T
    <3>4. Atom(<<k>>, << <<"forward", k>> >>)
      <4>1. <<k>> \in Seq(Byte) /\ << <<"forward", k>> >> \in Seq(Effect)
        BY DEF Byte, Effect
      <4> QED BY <4>1 DEF Atom, IsKey
    <3>5. Spoken(f \o <<k>>, Forwards(f) \o << <<"forward", k>> >>)
      BY <3>3, <3>4, SpokenThen
    <3>6. Forwards(f) \o << <<"forward", k>> >> = Forwards(c)
      <4> DEFINE y == << <<"forward", k>> >>
      <4>1. /\ Forwards(f) \in Seq(Effect) /\ Len(Forwards(f)) = Len(f)
            /\ \A i \in 1 .. Len(f) : Forwards(f)[i] = <<"forward", f[i]>>
        BY <1>1, ForwardsType
      <4>2. /\ Forwards(c) \in Seq(Effect) /\ Len(Forwards(c)) = Len(c)
            /\ \A i \in 1 .. Len(c) : Forwards(c)[i] = <<"forward", c[i]>>
        BY <1>1, ForwardsType
      <4>3. y \in Seq(Effect) /\ Len(y) = 1 /\ y[1] = <<"forward", k>>
        BY <3>4 DEF Atom
      <4> DEFINE g == Forwards(f)  h == Forwards(c)
      <4> DEFINE n == Len(f)
      <4>4. /\ g \in Seq(Effect) /\ Len(g) = n /\ h \in Seq(Effect) /\ Len(h) = n + 1 /\ n \in Nat
        BY <3>2, <4>1, <4>2
      <4>5. ASSUME NEW i \in 1 .. n PROVE g[i] = h[i]
        <5>1. i \in 1 .. Len(f) /\ i \in 1 .. Len(c) /\ c[i] = f[i]
          BY <3>2
        <5> QED BY <4>1, <4>2, <5>1
      <4>6. h[n + 1] = y[1]
        <5>1. Len(c) \in 1 .. Len(c) /\ c[Len(c)] = k /\ Len(c) = n + 1
          BY <3>2
        <5> QED BY <4>2, <4>3, <5>1
      <4> HIDE DEF g, h, y, n
      <4>7. g \o y = h
        BY <4>3, <4>4, <4>5, <4>6, OneMore
      <4> QED BY <4>7 DEF g, h, y
    <3> QED BY <2>2, <3>2, <3>5, <3>6
  <2> QED BY <2>4, <2>5
<1>3. ~(Len(d) \in T) /\ Len(d) \in Nat
  BY <1>2
<1> QED BY <1>1, <1>3

LEMMA ScrollSpoken ==
  ASSUME NEW it \in Turning
  PROVE  Spoken(Bytes(it), Effects(it)) /\ Effects(it) = << <<"scroll", it.dy>> >>
<1>1. it.kind = "scroll" /\ it.dy \in Short
  BY DEF Turning
<1> DEFINE dy == it.dy
<1>2. PICK h \in Byte, l \in Byte : U16(dy) = <<h, l>> /\ Halves(dy % 65536, h, l)
  <2>1. dy \in Int
    BY <1>1 DEF Short
  <2> QED BY <2>1, U16Word
<1>3. Bytes(it) = <<255, 254>> \o U16(dy) /\ Effects(it) = << <<"scroll", dy>> >>
  BY <1>1 DEF Bytes, Effects
<1> HIDE DEF dy
<1>4. dy \in Int /\ -32768 <= dy /\ dy <= 32767
  BY <1>1 DEF dy, Short
<1>5. Int16(<<h, l>>) = dy
  <2>1. Word(<<h, l>>) = dy % 65536
    BY <1>2 DEF Halves, Word
  <2>2. CASE dy < 0
    <3>1. dy % 65536 = dy + 65536
      BY <1>4, <2>2, ModuloNegative
    <3>2. Word(<<h, l>>) = dy + 65536
      BY <2>1, <3>1
    <3> QED BY ONLY <1>4, <2>2, <3>2 DEF Int16
  <2>3. CASE dy >= 0
    <3>1. dy % 65536 = dy
      BY <1>4, <2>3, ModuloSmall
    <3>2. Word(<<h, l>>) = dy
      BY <2>1, <3>1
    <3> QED BY ONLY <1>4, <2>3, <3>2 DEF Int16
  <2> QED BY <1>4, <2>2, <2>3
<1> DEFINE b == <<255, 254, h, l>>
<1>6. Bytes(it) = b
  <2>1. <<255, 254>> \o <<h, l>> = b
    BY BytesAre, ShortTuples
  <2>2. U16(dy) = <<h, l>>
    BY <1>2
  <2> HIDE DEF b
  <2> QED BY <1>3, <2>1, <2>2, Zenon
<1>7. b \in Seq(Byte) /\ Len(b) = 4 /\ b[1] = 255 /\ b[2] = 254 /\ b[3] = h /\ b[4] = l
  BY BytesAre
<1>8. << <<"scroll", dy>> >> \in Seq(Effect)
  BY <1>4 DEF Effect
<1> HIDE DEF b
<1>9. IsFrame(b, << <<"scroll", dy>> >>)
  BY <1>5, <1>7 DEF IsFrame
<1>10. Atom(b, << <<"scroll", dy>> >>)
  BY <1>7, <1>8, <1>9 DEF Atom
<1> QED BY <1>3, <1>6, <1>10, SpokenOne DEF dy

LEMMA ResizeSpoken ==
  ASSUME NEW it \in Resizing
  PROVE  Spoken(Bytes(it), Effects(it)) /\ Effects(it) = << <<"resize", it.rows>> >>
<1>1. it.kind = "resize" /\ it.rows \in Height
  BY DEF Resizing
<1> DEFINE n == it.rows
<1>2. PICK h \in Byte, l \in Byte : U16(n) = <<h, l>> /\ Halves(n % 65536, h, l)
  <2>1. n \in Int
    BY <1>1 DEF Height
  <2> QED BY <2>1, U16Word
<1>3. PICK h2 \in Byte, l2 \in Byte : U16(80) = <<h2, l2>>
  BY U16Word
<1>4. Bytes(it) = <<255, 255>> \o U16(n) \o U16(80) /\ Effects(it) = << <<"resize", n>> >>
  BY <1>1 DEF Bytes, Effects
<1> HIDE DEF n
<1>5. n \in Nat /\ n < 65536
  BY <1>1 DEF n, Height
<1>6. h * 256 + l = n
  <2>1. n % 65536 = n
    BY <1>5, ModuloSmall
  <2> QED BY <1>2, <2>1 DEF Halves
<1> DEFINE b == <<255, 255, h, l, h2, l2>>
<1>7. Bytes(it) = b
  <2>3. <<255, 255>> \o <<h, l>> = <<255, 255, h, l>>
    BY BytesAre, ShortTuples
  <2>4. <<255, 255, h, l>> \o <<h2, l2>> = b
    BY BytesAre, LongTuples
  <2>1. <<255, 255>> \o <<h, l>> \o <<h2, l2>> = b
    BY ONLY <2>3, <2>4, Zenon
  <2>2. U16(n) = <<h, l>> /\ U16(80) = <<h2, l2>>
    BY <1>2, <1>3
  <2> HIDE DEF b
  <2> QED BY <1>4, <2>1, <2>2, Zenon
<1>8. b \in Seq(Byte) /\ Len(b) = 6 /\ b[1] = 255 /\ b[2] = 255 /\ b[3] = h /\ b[4] = l
  BY BytesAre
<1>9. << <<"resize", n>> >> \in Seq(Effect)
  BY <1>5 DEF Effect
<1> HIDE DEF b
<1>10. IsFrame(b, << <<"resize", n>> >>)
  BY <1>6, <1>8 DEF IsFrame
<1>11. Atom(b, << <<"resize", n>> >>)
  BY <1>8, <1>9, <1>10 DEF Atom
<1> QED BY <1>4, <1>7, <1>11, SpokenOne DEF n

LEMMA ImageHeadTuple ==
  ASSUME NEW h \in Byte, NEW l \in Byte, NEW h2 \in Byte, NEW l2 \in Byte
  PROVE  <<255, 253>> \o <<h, l>> \o <<h2, l2>> \o <<1>> = <<255, 253, h, l, h2, l2, 1>>
<1>1. <<255, 253>> \o <<h, l>> = <<255, 253, h, l>>
  BY BytesAre, ShortTuples
<1>2. <<255, 253, h, l>> \o <<h2, l2>> = <<255, 253, h, l, h2, l2>>
  BY BytesAre, LongTuples
<1> DEFINE a == <<255, 253, h, l, h2, l2>>
<1>5. a \o <<1>> = <<255, 253, h, l, h2, l2, 1>>
  BY HeadTuples
<1> HIDE DEF a
<1>6. (<<255, 253>> \o <<h, l>>) \o <<h2, l2>> = a
  BY <1>1, <1>2, Zenon DEF a
<1> QED BY <1>5, <1>6, Zenon

\* The head of a picture.
HeadBytes(n) == <<255, 253>> \o U16(n \div 65536) \o U16(n) \o <<1>>

LEMMA ImageBytes ==
  ASSUME NEW it, it.kind = "image"
  PROVE  Bytes(it) = HeadBytes(it.len) \o it.data
<1> DEFINE b == <<255, 253>> \o U16(it.len \div 65536) \o U16(it.len) \o <<1>> \o it.data
<1>1. Bytes(it) = CASE it.kind = "keys"   -> it.data
                    [] it.kind = "resize" -> <<255, 255>> \o U16(it.rows) \o U16(80)
                    [] it.kind = "scroll" -> <<255, 254>> \o U16(it.dy)
                    [] it.kind = "image"  -> b
  BY DEF Bytes
<1>2. b = HeadBytes(it.len) \o it.data
  BY DEF HeadBytes
<1> HIDE DEF b
<1>3. Bytes(it) = b
  BY <1>1
<1> QED BY <1>2, <1>3

IsHead(a, n) ==
  /\ a \in Seq(Byte) /\ Len(a) = 7 /\ a[1] = 255 /\ a[2] = 253 /\ Claimed(a) = n

LEMMA HeadIs ==
  ASSUME NEW n \in Nat, n \div 65536 < 65536
  PROVE  IsHead(HeadBytes(n), n)
<1> DEFINE q == n \div 65536  p == q % 65536  r == n % 65536
<1>1. Recomposed(n, q, p, r)
  BY LengthArithmetic
<1>2. HeadBytes(n) = <<255, 253>> \o U16(q) \o U16(n) \o <<1>>
  BY DEF HeadBytes
<1> HIDE DEF q, p, r
<1>3. q \in Int /\ p * 65536 + r = n
  BY ONLY <1>1 DEF Recomposed
<1>4. PICK h \in Byte, l \in Byte : U16(q) = <<h, l>> /\ Halves(p, h, l)
  BY <1>3, U16Word DEF p
<1>5. PICK h2 \in Byte, l2 \in Byte : U16(n) = <<h2, l2>> /\ Halves(r, h2, l2)
  <2>1. n \in Int
    BY NatInt
  <2> QED BY <2>1, U16Word DEF r
<1>6. (h * 256 + l) * 65536 + (h2 * 256 + l2) = n
  <2>1. h * 256 + l = p /\ h2 * 256 + l2 = r
    BY <1>4, <1>5 DEF Halves
  <2> QED BY <1>3, <2>1
<1> DEFINE a == <<255, 253, h, l, h2, l2, 1>>
<1>7. HeadBytes(n) = a
  <2>1. <<255, 253>> \o <<h, l>> \o <<h2, l2>> \o <<1>> = a
    BY ImageHeadTuple
  <2> DEFINE FrameHead(u, v) == <<255, 253>> \o u \o v \o <<1>>
  <2>2. HeadBytes(n) = FrameHead(U16(q), U16(n))
    BY <1>2
  <2>3. FrameHead(<<h, l>>, <<h2, l2>>) = a
    BY <2>1
  <2>4. U16(q) = <<h, l>> /\ U16(n) = <<h2, l2>>
    BY <1>4, <1>5
  <2> HIDE DEF a, FrameHead
  <2> QED BY ONLY <2>2, <2>3, <2>4
<1>8. /\ a \in Seq(Byte) /\ Len(a) = 7 /\ a[1] = 255 /\ a[2] = 253
      /\ a[3] = h /\ a[4] = l /\ a[5] = h2 /\ a[6] = l2
  BY BytesAre
<1> HIDE DEF a
<1>9. IsHead(a, n)
  <2>1. Claimed(a) = n
    BY ONLY <1>6, <1>8 DEF Claimed
  <2> QED BY ONLY <1>8, <2>1 DEF IsHead
<1> QED BY ONLY <1>7, <1>9

\* A picture with the payload that is taken with it is one frame.
LEMMA PictureSpoken ==
  ASSUME NEW n \in Nat, NEW a, IsHead(a, n), NEW data \in Seq(Byte),
         Len(data) = IF n \in 1 .. MaxImage THEN n ELSE 0
  PROVE  Spoken(a \o data, IF n \in 1 .. MaxImage THEN << <<"image", data>> >> ELSE <<>>)
<1> DEFINE b == a \o data
           x == IF n \in 1 .. MaxImage THEN << <<"image", data>> >> ELSE <<>>
<1>1. a \in Seq(Byte) /\ Len(a) = 7 /\ a[1] = 255 /\ a[2] = 253 /\ Claimed(a) = n
  BY DEF IsHead
<1>2. /\ b \in Seq(Byte) /\ Len(b) = 7 + Len(data) /\ Len(data) \in Nat
      /\ \A i \in 1 .. 7 : b[i] = a[i]
      /\ \A i \in 1 .. Len(data) : b[7 + i] = data[i]
  <2>1. a \in Seq(Byte) /\ data \in Seq(Byte) /\ Len(a) = 7
    BY <1>1
  <2>2. /\ b \in Seq(Byte) /\ Len(b) = Len(a) + Len(data) /\ Len(data) \in Nat
        /\ \A i \in 1 .. Len(a) : b[i] = a[i]
        /\ \A i \in 1 .. Len(data) : b[Len(a) + i] = data[i]
    BY ONLY <2>1, Joined
  <2> HIDE DEF b
  <2> QED BY ONLY <2>1, <2>2
<1> HIDE DEF b
<1>3. b[1] = 255 /\ b[2] = 253 /\ b[3] = a[3] /\ b[4] = a[4] /\ b[5] = a[5] /\ b[6] = a[6]
  BY ONLY <1>1, <1>2
<1>4. Claimed(b) = n
  BY ONLY <1>1, <1>3 DEF Claimed
<1>5. SubSeq(b, 8, Len(b)) = data
  <2>1. \A i \in 8 .. Len(b) : b[i] \in Byte
    BY <1>2, ElementOfSeq
  <2>2. /\ SubSeq(b, 8, Len(b)) \in Seq(Byte)
        /\ Len(SubSeq(b, 8, Len(b))) = IF 8 <= Len(b) THEN Len(b) - 8 + 1 ELSE 0
        /\ \A i \in 1 .. Len(b) - 8 + 1 : SubSeq(b, 8, Len(b))[i] = b[8 + i - 1]
    BY <1>2, <2>1, SubSeqProperties
  <2> DEFINE c == SubSeq(b, 8, Len(b))
  <2>3. c \in Seq(Byte) /\ Len(c) = Len(data)
    BY <1>2, <2>2
  <2>4. ASSUME NEW i \in 1 .. Len(data) PROVE c[i] = data[i]
    <3>1. i \in 1 .. Len(b) - 8 + 1 /\ 8 + i - 1 = 7 + i
      BY <1>2
    <3> QED BY <1>2, <2>2, <3>1
  <2> HIDE DEF c
  <2>5. c = data
    BY <2>3, <2>4, SeqEqual
  <2> QED BY <2>5 DEF c
<1>6. x \in Seq(Effect)
  <2>1. <<"image", data>> \in Effect
    BY DEF Effect
  <2> QED BY <2>1
<1>7. IsFrame(b, x)
  <2>1. CASE n \in 1 .. MaxImage
    <3>1. Len(b) = 7 + n /\ x = << <<"image", SubSeq(b, 8, Len(b))>> >>
      BY <1>2, <1>5, <2>1
    <3>2. Len(b) >= 7
      BY <1>2
    <3> QED BY <1>3, <1>4, <2>1, <3>1, <3>2 DEF IsFrame
  <2>2. CASE n \notin 1 .. MaxImage
    <3>1. Len(b) = 7 /\ x = <<>>
      BY <1>2, <2>2
    <3> QED BY <1>3, <1>4, <2>2, <3>1 DEF IsFrame
  <2> QED BY <2>1, <2>2
<1> HIDE DEF x
<1>8. Atom(b, x)
  BY <1>2, <1>6, <1>7 DEF Atom
<1> QED BY <1>8, SpokenOne DEF b, x

LEMMA TakenIs ==
  ASSUME NEW it \in Web
  PROVE  /\ it.kind = "image" /\ it.len \in Nat /\ it.data \in Seq(Byte) /\ it.len \div 65536 < 65536
         /\ Taken(it) \in Nat /\ Taken(it) = IF it.len \in 1 .. MaxImage THEN it.len ELSE 0
         /\ Len(it.data) \in Nat
  BY DEF Web, Taken

\* It does not mislead: nothing is left over.
LEMMA PastingTells ==
  ASSUME NEW it \in Pasting
  PROVE  it \in Telling /\ Surplus(it) = <<>>
<1>1. it \in Web /\ Len(it.data) = Taken(it)
  BY DEF Pasting
<1>2. it.data \in Seq(Byte) /\ Taken(it) \in Nat
  BY <1>1, TakenIs
<1> DEFINE d == it.data  n == Taken(it)
<1>3. d \in Seq(Byte) /\ n = Len(d) /\ Surplus(it) = SubSeq(d, n + 1, Len(d))
  BY <1>1, <1>2 DEF Surplus
<1>4. ~(Len(d) < n)
  BY <1>1, <1>2
<1> HIDE DEF d, n
<1>5. n \in 0 .. Len(d)
  BY <1>3
<1>6. Surplus(it) \in Seq(Byte) /\ Len(Surplus(it)) = 0
  <2>1. SubSeq(d, n + 1, Len(d)) \in Seq(Byte) /\ Len(SubSeq(d, n + 1, Len(d))) = Len(d) - n
    BY ONLY <1>3, <1>5, FrontAndBack
  <2> QED BY <1>3, <2>1
<1>7. Surplus(it) = <<>>
  BY <1>6, EmptySeq
<1>8. ~Misleads(it)
  <2>1. <<>> \in Seq(0 .. 252)
    OBVIOUS
  <2> QED BY <1>4, <1>7, <2>1, Zenon DEF Misleads, d, n
<1> QED BY <1>1, <1>7, <1>8 DEF Telling

LEMMA ForwardsKinds ==
  ASSUME NEW d
  PROVE  \A i \in DOMAIN Forwards(d) : Forwards(d)[i][1] = "forward"
  BY DEF Forwards

\* A picture that does not mislead is a frame, and keys.
LEMMA ImageSpoken ==
  ASSUME NEW it \in Telling
  PROVE  /\ Spoken(Bytes(it), Effects(it))
         /\ \A i \in DOMAIN Effects(it) : Effects(it)[i][1] \in {"image", "forward"}
         /\ it \in Pasting => \A i \in DOMAIN Effects(it) : Effects(it)[i][1] = "image"
<1>1. it \in Web /\ ~Misleads(it)
  BY DEF Telling
<1>2. /\ it.kind = "image" /\ it.len \in Nat /\ it.data \in Seq(Byte) /\ it.len \div 65536 < 65536
      /\ Taken(it) \in Nat /\ Taken(it) = IF it.len \in 1 .. MaxImage THEN it.len ELSE 0
      /\ Len(it.data) \in Nat
  BY <1>1, TakenIs
<1> DEFINE n == it.len  k == Taken(it)  data == it.data  a == HeadBytes(n)
           p == SubSeq(data, 1, k)  q == Surplus(it)
           x == IF k = 0 THEN <<>> ELSE << <<"image", p>> >>
           y == Forwards(q)
<1>3. k <= Len(data) /\ q \in Seq(0 .. 252)
  BY <1>1, <1>2 DEF Misleads
<1>4. Effects(it) = x \o y
  BY <1>1, <1>2 DEF Effects
<1>5. Bytes(it) = a \o data
  <2>1. it.kind = "image"
    BY <1>2
  <2> QED BY ONLY <2>1, ImageBytes
<1>6. IsHead(a, n)
  BY <1>2, HeadIs
<1>7. /\ n \in Nat /\ k \in Nat /\ data \in Seq(Byte) /\ k = IF n \in 1 .. MaxImage THEN n ELSE 0
      /\ q = SubSeq(data, k + 1, Len(data)) /\ Len(data) \in Nat
  BY <1>2 DEF Surplus
<1> HIDE DEF n, data, k, q, a
<1>8. p \in Seq(Byte) /\ Len(p) = k /\ q \in Seq(Byte) /\ data = p \o q
  <2>1. k \in 0 .. Len(data)
    BY <1>3, <1>7
  <2> QED BY <1>7, <2>1, FrontAndBack
<1>9. Spoken(a \o p, x)
  <2> HIDE DEF p
  <2>1. n \in 1 .. MaxImage <=> k # 0
    BY <1>7
  <2>2. Spoken(a \o p, IF n \in 1 .. MaxImage THEN << <<"image", p>> >> ELSE <<>>)
    <3>1. n \in Nat /\ IsHead(a, n) /\ p \in Seq(Byte) /\ Len(p) = IF n \in 1 .. MaxImage THEN n ELSE 0
      BY <1>6, <1>7, <1>8
    <3> QED BY ONLY <3>1, PictureSpoken
  <2> QED BY <2>1, <2>2
<1> HIDE DEF p
<1>10. Spoken(q, y)
  BY <1>3, KeysSpoken
<1>11. Spoken((a \o p) \o q, x \o y)
  <2> HIDE DEF x, y
  <2> QED BY ONLY <1>9, <1>10, SpokenJoin
<1>12. (a \o p) \o q = a \o data
  <2>1. a \in Seq(Byte) /\ p \in Seq(Byte) /\ q \in Seq(Byte)
    BY <1>6, <1>8 DEF IsHead
  <2>2. (a \o p) \o q = a \o (p \o q)
    BY ONLY <2>1, Regroup, Zenon
  <2> QED BY <1>8, <2>2, Zenon
<1>13. Spoken(Bytes(it), Effects(it))
  <2> HIDE DEF x, y
  <2> QED BY <1>4, <1>5, <1>11, <1>12, Zenon
<1>14. x \in Seq(Effect) /\ y \in Seq(Effect)
  BY <1>9, <1>10 DEF Spoken
<1>15. Len(x) \in {0, 1} /\ \A i \in 1 .. Len(x) : x[i][1] = "image"
  OBVIOUS
<1>16. \A i \in DOMAIN y : y[i][1] = "forward"
  BY ForwardsKinds
<1>17. it \in Pasting => Effects(it) = x
  <2> SUFFICES ASSUME it \in Pasting PROVE Effects(it) = x
    OBVIOUS
  <2>1. q = <<>>
    BY PastingTells DEF q
  <2>2. y = <<>>
    BY <2>1 DEF Forwards
  <2> HIDE DEF x, y
  <2> QED BY <1>4, <1>14, <2>2, ConcatEmptySeq
<1> HIDE DEF x, y
<1>18. /\ Len(x \o y) = Len(x) + Len(y) /\ x \o y \in Seq(Effect) /\ Len(x) \in Nat /\ Len(y) \in Nat
       /\ \A i \in 1 .. Len(x) : (x \o y)[i] = x[i]
       /\ \A i \in 1 .. Len(y) : (x \o y)[Len(x) + i] = y[i]
  BY ONLY <1>14
<1>19. ASSUME NEW i \in 1 .. Len(x) + Len(y) PROVE (x \o y)[i][1] \in {"image", "forward"}
  <2>1. CASE i \in 1 .. Len(x)
    BY <1>15, <1>18, <2>1
  <2>2. CASE i \notin 1 .. Len(x)
    <3> DEFINE j == i - Len(x)
    <3>1. j \in 1 .. Len(y) /\ Len(x) + j = i
      BY <1>18, <2>2
    <3> HIDE DEF j
    <3>2. DOMAIN y = 1 .. Len(y)
      BY <1>14
    <3> QED BY <1>16, <1>18, <3>1, <3>2
  <2> QED BY <2>1, <2>2
<1>20. DOMAIN (x \o y) = 1 .. Len(x) + Len(y) /\ DOMAIN x = 1 .. Len(x)
  BY <1>14, <1>18
<1> QED BY <1>4, <1>13, <1>15, <1>17, <1>19, <1>20

LEMMA TypingSpoken ==
  ASSUME NEW it \in Typing
  PROVE  Spoken(Bytes(it), Effects(it)) /\ \A i \in DOMAIN Effects(it) : Effects(it)[i][1] = "forward"
<1>1. it.kind = "keys" /\ it.data \in Seq(0 .. 252)
  BY DEF Typing
<1>2. Bytes(it) = it.data /\ Effects(it) = Forwards(it.data)
  BY <1>1 DEF Bytes, Effects
<1>3. \A i \in DOMAIN Forwards(it.data) : Forwards(it.data)[i][1] = "forward"
  BY ForwardsKinds
<1> QED BY <1>1, <1>2, <1>3, KeysSpoken

-----------------------------------------------------------------------------
(***************************************************************************)
(* Everything a client writes is one of these items.                       *)
(***************************************************************************)
LEMMA CodesLow == \A x \in DOMAIN Code : Code[x] \in 0 .. 252
  BY DEF Code

LEMMA KeysTyping ==
  ASSUME NEW d \in Seq(DOMAIN Code)
  PROVE  Keys(d) \in Typing
<1> DEFINE C == DOMAIN Code
           data == [i \in DOMAIN d |-> Code[d[i]]]
<1>1. \A x \in C : Code[x] \in 0 .. 252
  BY CodesLow
<1>2. d \in Seq(C)
  OBVIOUS
<1> HIDE DEF C
<1>3. Len(d) \in Nat /\ DOMAIN d = 1 .. Len(d) /\ \A i \in 1 .. Len(d) : d[i] \in C
  BY <1>2
<1>4. \A i \in 1 .. Len(d) : Code[d[i]] \in 0 .. 252
  BY <1>1, <1>3
<1>5. data \in Seq(0 .. 252)
  BY <1>3, <1>4
<1> QED BY <1>5 DEF Keys, Typing

\* What Without goes through, up to the n-th key of the read.
Keeps(f, d, k, n) ==
  f = [i \in 0 .. n |-> IF i = 0 THEN <<>>
                        ELSE IF d[i] = k THEN f[i - 1] ELSE Append(f[i - 1], d[i])]
Kept(d, k) == CHOOSE f : Keeps(f, d, k, Len(d))

LEMMA KeptExists ==
  ASSUME NEW d, Len(d) \in Nat, NEW k
  PROVE  \E f : Keeps(f, d, k, Len(d))
<1> DEFINE T == {n \in Nat : n <= Len(d) /\ ~\E f : Keeps(f, d, k, n)}
<1>1. ASSUME T # {} PROVE FALSE
  <2> DEFINE m == Min(T)
  <2>1. m \in T /\ \A n \in T : m <= n
    BY <1>1, MinIsLeast
  <2>2. m \in Nat /\ m <= Len(d) /\ ~\E f : Keeps(f, d, k, m)
    BY <2>1
  <2>3. \A n \in Nat : n < m => \E f : Keeps(f, d, k, n)
    BY <2>1, <2>2
  <2> HIDE DEF m, T
  <2>4. CASE m = 0
    <3> DEFINE f == [i \in 0 .. 0 |-> <<>>]
    <3>1. Keeps(f, d, k, 0)
      BY DEF Keeps
    <3> QED BY <2>2, <2>4, <3>1
  <2>5. CASE m # 0
    <3>1. m - 1 \in Nat /\ m - 1 < m
      BY <2>2, <2>5
    <3>2. PICK f : Keeps(f, d, k, m - 1)
      BY <2>3, <3>1
    <3> DEFINE last == IF d[m] = k THEN f[m - 1] ELSE Append(f[m - 1], d[m])
               g == [i \in 0 .. m |-> IF i = m THEN last ELSE f[i]]
               h == [i \in 0 .. m |-> IF i = 0 THEN <<>>
                                      ELSE IF d[i] = k THEN g[i - 1] ELSE Append(g[i - 1], d[i])]
    <3>3. \A i \in 0 .. m - 1 : f[i] = IF i = 0 THEN <<>>
                           ELSE IF d[i] = k THEN f[i - 1] ELSE Append(f[i - 1], d[i])
      BY <3>2 DEF Keeps
    <3>4. \A i \in 0 .. m : g[i] = IF i = m THEN last ELSE f[i]
      OBVIOUS
    <3>5. g[m] = last /\ \A i \in 0 .. m - 1 : g[i] = f[i]
      BY <2>2, <3>4
    <3>6. ASSUME NEW i \in 0 .. m PROVE g[i] = h[i]
      <4>1. h[i] = IF i = 0 THEN <<>>
                   ELSE IF d[i] = k THEN g[i - 1] ELSE Append(g[i - 1], d[i])
        OBVIOUS
      <4> HIDE DEF g, h
      <4>2. CASE i = m
        <5>1. m - 1 \in 0 .. m - 1 /\ i # 0
          BY <2>2, <2>5, <4>2
        <5>2. g[i - 1] = f[m - 1]
          BY <3>5, <4>2, <5>1
        <5> QED BY <3>5, <4>1, <4>2, <5>1, <5>2
      <4>3. CASE i # m /\ i # 0
        <5>1. i \in 0 .. m - 1 /\ i - 1 \in 0 .. m - 1
          BY <2>2, <4>3
        <5>2. g[i] = f[i] /\ g[i - 1] = f[i - 1]
          BY <3>5, <5>1
        <5> QED BY <3>3, <4>1, <4>3, <5>1, <5>2
      <4>4. CASE i = 0
        <5>1. i \in 0 .. m - 1
          BY <2>2, <2>5, <4>4
        <5> QED BY <3>3, <3>5, <4>1, <4>4, <5>1
      <4> QED BY <4>2, <4>3, <4>4
    <3>7. g = h
      BY <3>6
    <3> HIDE DEF g
    <3>8. Keeps(g, d, k, m)
      BY <3>7 DEF Keeps
    <3> QED BY <2>2, <3>8
  <2> QED BY <2>4, <2>5
<1>2. Len(d) \notin T
  BY <1>1
<1> QED BY <1>2

LEMMA WithoutType ==
  ASSUME NEW d \in Seq(DOMAIN Code), NEW k
  PROVE  Without(d, k) \in Seq(DOMAIN Code)
<1> DEFINE C == DOMAIN Code
           f == Kept(d, k)
<1>1. d \in Seq(C) /\ Len(d) \in Nat /\ \A i \in 1 .. Len(d) : d[i] \in C
  OBVIOUS
<1>2. Without(d, k) = f[Len(d)]
  BY DEF Without, Kept, Keeps
<1>3. Keeps(f, d, k, Len(d))
  BY <1>1, KeptExists DEF Kept
<1> HIDE DEF C, f
<1>4. \A i \in 0 .. Len(d) : f[i] = IF i = 0 THEN <<>>
                             ELSE IF d[i] = k THEN f[i - 1] ELSE Append(f[i - 1], d[i])
  BY <1>3 DEF Keeps
<1> DEFINE T == {n \in Nat : n <= Len(d) /\ f[n] \notin Seq(C)}
<1>5. ASSUME T # {} PROVE FALSE
  <2> DEFINE m == Min(T)
  <2>1. m \in T /\ \A n \in T : m <= n
    BY <1>5, MinIsLeast
  <2>2. m \in Nat /\ m <= Len(d) /\ f[m] \notin Seq(C)
    BY <2>1
  <2>3. \A n \in Nat : n < m => f[n] \in Seq(C)
    BY <2>1, <2>2, <1>1
  <2> HIDE DEF m, T
  <2>4. m # 0
    <3>1. 0 \in 0 .. Len(d) /\ <<>> \in Seq(C)
      BY <1>1
    <3> QED BY <1>4, <2>2, <3>1
  <2>5. m - 1 \in Nat /\ m - 1 < m /\ m \in 0 .. Len(d) /\ m \in 1 .. Len(d)
    BY <1>1, <2>2, <2>4
  <2>6. f[m - 1] \in Seq(C) /\ d[m] \in C
    BY <1>1, <2>3, <2>5
  <2>7. Append(f[m - 1], d[m]) \in Seq(C)
    BY <2>6
  <2> QED BY <1>4, <2>2, <2>4, <2>5, <2>6, <2>7
<1>6. Len(d) \notin T
  BY <1>5
<1>7. f[Len(d)] \in Seq(C)
  BY <1>1, <1>6
<1> QED BY <1>2, <1>7 DEF C

LEMMA ScrollTyping ==
  ASSUME NEW dy \in Int
  PROVE  /\ ScrollBy(dy) \in Turning
         /\ ScrollBy(dy).kind = "scroll"
<1> DEFINE n == IF dy > 32767 THEN 32767 ELSE IF dy < -32768 THEN -32768 ELSE dy
<1>1. n \in Short
  BY DEF Short
<1>2. ScrollBy(dy) = [kind |-> "scroll", dy |-> n]
  BY DEF ScrollBy
<1> HIDE DEF n
<1> QED BY <1>1, <1>2 DEF Turning

LEMMA FollowIs == Follow = [kind |-> "scroll", dy |-> 32767] /\ Follow \in Turning
<1>1. Follow \in Turning
  BY ScrollTyping DEF Follow
<1> QED BY <1>1 DEF Follow, ScrollBy

LEMMA ResizeTyping ==
  ASSUME NEW z \in Sizes
  PROVE  /\ z \in Nat /\ z # 0 /\ ResizeTo(z) \in Resizing /\ ResizeTo(z).rows = z
         /\ ResizeTo(z).kind = "resize"
<1>1. z \in Height /\ z \in Nat /\ z # 0
  <2>1. z \in Nat \ {0} /\ z < 65536
    BY StepsAssumption
  <2> QED BY <2>1 DEF Height
<1> QED BY <1>1 DEF ResizeTo, Resizing

LEMMA DivisionMonotone ==
  ASSUME NEW n \in Nat, NEW m \in Nat, n <= m, m \div 65536 < 65536
  PROVE  n \div 65536 < 65536
  BY SMTT(30)

LEMMA PictureTyping ==
  ASSUME NEW p \in Images
  PROVE  Picture(p) \in Pasting /\ Picture(p).kind = "image"
<1>1. p \in Seq(Byte) /\ Len(p) \in 1 .. MaxImage
  BY PicturesAssumption DEF Byte
<1> DEFINE n == Len(p)
<1>2. n \in Nat /\ n <= MaxImage /\ MaxImage \in Nat /\ n \in 1 .. MaxImage
  BY <1>1, ClientInputAssumption
<1>3. MaxImage \div 65536 < 65536
  BY PicturesAssumption
<1>4. n \div 65536 < 65536
  BY <1>2, <1>3, DivisionMonotone
<1> HIDE DEF n
<1>5. Picture(p) = [kind |-> "image", len |-> n, data |-> p] /\ Len(p) = n
  BY DEF Picture, n
<1>6. Picture(p) \in Web
  BY <1>1, <1>2, <1>4, <1>5 DEF Web
<1>7. Taken(Picture(p)) = n /\ Len(Picture(p).data) = n
  BY <1>2, <1>5 DEF Taken
<1> QED BY <1>5, <1>6, <1>7 DEF Pasting

LEMMA WebTyping == WebItems \subseteq Web
<1> SUFFICES ASSUME NEW it \in WebItems PROVE it \in Web
  OBVIOUS
<1>1. /\ it = [kind |-> "image", len |-> it.len, data |-> it.data]
      /\ it.len \in Nat /\ it.len \div 65536 < 65536 /\ it.data \in Seq(Byte)
  BY WebAssumption DEF Byte
<1> DEFINE n == it.len  data == it.data
           z == [kind |-> "image", len |-> n, data |-> data]
<1>2. z \in [kind : {"image"}, len : Nat, data : Seq(Byte)] /\ z.len = n
  BY <1>1
<1>3. z \in Web
  BY <1>1, <1>2 DEF Web
<1> QED BY <1>1, <1>3

-----------------------------------------------------------------------------
(***************************************************************************)
(* The stream: what is in the buffer and in the socket is what is asked    *)
(* for.                                                                    *)
(***************************************************************************)
Entries == [do : Effect, typed : BOOLEAN]
Dos(a) == [i \in 1 .. Len(a) |-> a[i].do]

Streaming(b, w, a, p) ==
  \E s \in Seq(Byte), t \in Seq(Byte), e \in Seq(Effect), f \in Seq(Effect) :
    /\ b = s \o t /\ Dos(a) = e \o f
    /\ Spoken(s, e) /\ Pending(t, w, f) /\ (p \/ s = <<>>)

LEMMA JoinedEntries ==
  ASSUME NEW a \in Seq(Entries), NEW b \in Seq(Entries)
  PROVE  /\ a \o b \in Seq(Entries) /\ Len(a \o b) = Len(a) + Len(b)
         /\ Len(a) \in Nat /\ Len(b) \in Nat
         /\ \A i \in 1 .. Len(a) : (a \o b)[i] = a[i]
         /\ \A i \in 1 .. Len(b) : (a \o b)[Len(a) + i] = b[i]
  OBVIOUS

LEMMA DosType ==
  ASSUME NEW a \in Seq(Entries)
  PROVE  /\ Dos(a) \in Seq(Effect) /\ Len(Dos(a)) = Len(a) /\ Len(a) \in Nat
         /\ \A i \in 1 .. Len(a) : Dos(a)[i] = a[i].do
<1>1. Len(a) \in Nat /\ \A i \in 1 .. Len(a) : a[i] \in Entries
  OBVIOUS
<1>2. \A i \in 1 .. Len(a) : a[i].do \in Effect
  BY <1>1 DEF Entries
<1> QED BY <1>1, <1>2 DEF Dos

\* The tail of a sequence after its first n.
After(a, n) == SubSeq(a, n + 1, Len(a))

LEMMA AfterProps ==
  ASSUME NEW S, NEW a \in Seq(S), NEW n \in 0 .. Len(a)
  PROVE  /\ After(a, n) \in Seq(S) /\ Len(After(a, n)) = Len(a) - n /\ Len(a) \in Nat
         /\ \A i \in 1 .. Len(a) - n : After(a, n)[i] = a[n + i]
  BY DEF After

LEMMA DosDrop ==
  ASSUME NEW a \in Seq(Entries), NEW y \in Seq(Effect), NEW h \in Seq(Effect), Dos(a) = y \o h
  PROVE  /\ Len(y) \in 0 .. Len(a) /\ After(a, Len(y)) \in Seq(Entries)
         /\ Dos(After(a, Len(y))) = h
         /\ \A i \in 1 .. Len(y) : y[i] = a[i].do
<1> DEFINE n == Len(y)  m == Len(h)  c == After(a, n)
<1>1. /\ n \in Nat /\ m \in Nat /\ Len(y \o h) = n + m
      /\ \A i \in 1 .. n : (y \o h)[i] = y[i]
      /\ \A i \in 1 .. m : (y \o h)[n + i] = h[i]
  OBVIOUS
<1>2. Len(a) = n + m /\ \A i \in 1 .. n + m : (y \o h)[i] = a[i].do
  <2>1. Len(Dos(a)) = Len(a) /\ \A i \in 1 .. Len(a) : Dos(a)[i] = a[i].do
    BY DosType
  <2> QED BY <1>1, <2>1
<1> HIDE DEF n, m, c
<1>3. n \in 0 .. Len(a)
  BY <1>1, <1>2
<1>4. c \in Seq(Entries) /\ Len(c) = m /\ \A i \in 1 .. m : c[i] = a[n + i]
  <2>1. Len(a) - n = m
    BY <1>1, <1>2
  <2> QED BY <1>3, <2>1, AfterProps DEF c
<1>5. /\ Dos(c) \in Seq(Effect) /\ Len(Dos(c)) = m
      /\ \A i \in 1 .. m : Dos(c)[i] = a[n + i].do
  <2>1. /\ Dos(c) \in Seq(Effect) /\ Len(Dos(c)) = Len(c)
        /\ \A i \in 1 .. Len(c) : Dos(c)[i] = c[i].do
    BY <1>4, DosType
  <2> QED BY <1>4, <2>1
<1>6. ASSUME NEW i \in 1 .. m PROVE Dos(c)[i] = h[i]
  <2>1. n + i \in 1 .. n + m
    BY <1>1
  <2> QED BY <1>1, <1>2, <1>5, <2>1
<1>7. Dos(c) = h
  <2>1. h \in Seq(Effect) /\ Len(h) = m
    BY DEF m
  <2> QED BY <1>5, <1>6, <2>1, SeqEqual
<1>8. ASSUME NEW i \in 1 .. n PROVE y[i] = a[i].do
  <2>1. i \in 1 .. n + m
    BY <1>1
  <2>2. (y \o h)[i] = y[i] /\ (y \o h)[i] = a[i].do
    BY <1>1, <1>2, <2>1
  <2> QED BY <2>2, Zenon
<1> QED BY <1>3, <1>4, <1>7, <1>8 DEF n, c

\* What a Send adds.
Sent(x, v) == [i \in DOMAIN x |-> [do |-> x[i], typed |-> v]]

LEMMA SentProps ==
  ASSUME NEW x \in Seq(Effect), NEW v \in BOOLEAN
  PROVE  /\ Sent(x, v) \in Seq(Entries) /\ Len(Sent(x, v)) = Len(x) /\ Len(x) \in Nat
         /\ \A i \in 1 .. Len(x) : Sent(x, v)[i].do = x[i] /\ Sent(x, v)[i].typed = v
<1>1. Len(x) \in Nat /\ DOMAIN x = 1 .. Len(x) /\ \A i \in 1 .. Len(x) : x[i] \in Effect
  OBVIOUS
<1>2. \A i \in 1 .. Len(x) : [do |-> x[i], typed |-> v] \in Entries
  BY <1>1 DEF Entries
<1> QED BY <1>1, <1>2 DEF Sent

LEMMA DosAdd ==
  ASSUME NEW a \in Seq(Entries), NEW x \in Seq(Effect), NEW v \in BOOLEAN
  PROVE  a \o Sent(x, v) \in Seq(Entries) /\ Dos(a \o Sent(x, v)) = Dos(a) \o x
<1> DEFINE z == Sent(x, v)  c == a \o z  n == Len(a)  m == Len(x)
<1>1. /\ z \in Seq(Entries) /\ Len(z) = m /\ m \in Nat
      /\ \A i \in 1 .. m : z[i].do = x[i]
  BY SentProps
<1>2. /\ Dos(a) \in Seq(Effect) /\ Len(Dos(a)) = n /\ n \in Nat
      /\ \A i \in 1 .. n : Dos(a)[i] = a[i].do
  BY DosType
<1> HIDE DEF z
<1>3. /\ c \in Seq(Entries) /\ Len(c) = n + m
      /\ \A i \in 1 .. n : c[i] = a[i]
      /\ \A i \in 1 .. m : c[n + i] = z[i]
  <2>1. a \in Seq(Entries)
    OBVIOUS
  <2>2. /\ c \in Seq(Entries) /\ Len(c) = Len(a) + Len(z)
        /\ \A i \in 1 .. Len(a) : c[i] = a[i]
        /\ \A i \in 1 .. Len(z) : c[Len(a) + i] = z[i]
    BY ONLY <1>1, <2>1, JoinedEntries
  <2> QED BY <1>1, <2>2
<1> HIDE DEF c
<1>4. /\ Dos(c) \in Seq(Effect) /\ Len(Dos(c)) = n + m
      /\ \A i \in 1 .. n + m : Dos(c)[i] = c[i].do
  <2>1. /\ Dos(c) \in Seq(Effect) /\ Len(Dos(c)) = Len(c)
        /\ \A i \in 1 .. Len(c) : Dos(c)[i] = c[i].do
    BY <1>3, DosType
  <2> QED BY <1>3, <2>1
<1>5. x \in Seq(Effect) /\ Len(x) = m /\ a \in Seq(Entries)
  OBVIOUS
<1> HIDE DEF n, m
<1>6. ASSUME NEW i \in 1 .. n PROVE Dos(c)[i] = Dos(a)[i]
  <2>1. i \in 1 .. n + m
    BY <1>1, <1>2
  <2> QED BY <1>2, <1>3, <1>4, <2>1
<1>7. ASSUME NEW i \in 1 .. m PROVE Dos(c)[n + i] = x[i]
  <2>1. n + i \in 1 .. n + m
    BY <1>1, <1>2
  <2> QED BY <1>1, <1>3, <1>4, <2>1
<1>8. Dos(a) \o x = Dos(c)
  <2> DEFINE p == Dos(a)  q == Dos(c)
  <2>1. p \in Seq(Effect) /\ x \in Seq(Effect) /\ q \in Seq(Effect)
    BY <1>2, <1>4
  <2>2. Len(q) = Len(p) + Len(x) /\ Len(p) = n /\ Len(x) = m
    BY <1>2, <1>4, <1>5
  <2>3. (\A i \in 1 .. Len(p) : q[i] = p[i]) /\ \A i \in 1 .. Len(x) : q[Len(p) + i] = x[i]
    BY <1>6, <1>7, <2>2
  <2> HIDE DEF p, q
  <2>4. p \o x = q
    BY ONLY <2>1, <2>2, <2>3, JoinIs
  <2> QED BY <2>4 DEF p, q
<1> QED BY <1>3, <1>8 DEF c, z

LEMMA PendingThen ==
  ASSUME NEW t \in Seq(Byte), NEW w \in Seq(Byte), NEW f \in Seq(Effect), Pending(t, w, f),
         NEW b, NEW x, Spoken(b, x)
  PROVE  Pending(t, w \o b, f \o x)
<1>1. b \in Seq(Byte) /\ x \in Seq(Effect)
  BY DEF Spoken
<1>2. CASE t = <<>> /\ Spoken(w, f)
  BY <1>2, SpokenJoin DEF Pending
<1>3. CASE Len(t) >= 1 /\ Starts(t \o w, f, Len(t))
  <2>1. Starts((t \o w) \o b, f \o x, Len(t))
    BY <1>3, StartsThen
  <2>2. (t \o w) \o b = t \o (w \o b)
    <3>1. t \in Seq(Byte) /\ w \in Seq(Byte)
      OBVIOUS
    <3> QED BY ONLY <1>1, <3>1, Regroup, Zenon
  <2> QED BY <1>3, <2>1, <2>2 DEF Pending
<1> QED BY <1>2, <1>3 DEF Pending

LEMMA Dropped ==
  ASSUME NEW a \in Seq(Byte), NEW q \in Seq(Byte)
  PROVE  SubSeq(a \o q, Len(a) + 1, Len(a \o q)) = q
<1> DEFINE c == a \o q  n == Len(a)  f == SubSeq(c, 1, n)  b == SubSeq(c, n + 1, Len(c))
<1>1. c \in Seq(Byte) /\ n \in 0 .. Len(c) /\ a \in Seq(Byte) /\ q \in Seq(Byte)
  BY Joined
<1>2. /\ f \in Seq(Byte) /\ Len(f) = n /\ b \in Seq(Byte) /\ c = f \o b
  BY <1>1, FrontAndBack
<1>3. f \o b = a \o q /\ Len(f) = Len(a)
  BY <1>2
<1> HIDE DEF f, b
<1>4. b = q
  BY ONLY <1>1, <1>2, <1>3, SameFront
<1> QED BY <1>4 DEF b

\* What the parser does is what is asked for first.
TurnAsked(a) == /\ Turn.do \in Seq(Effect) /\ Len(Turn.do) \in 0 .. Len(a)
                /\ \A i \in 1 .. Len(Turn.do) : Turn.do[i] = a[i].do

LEMMA ParseStream ==
  ASSUME asked \in Seq(Entries), Streaming(buf, wire, asked, parsing), wire \in Seq(Byte), ~HalfMagic
  PROVE  /\ TurnAsked(asked)
         /\ Parse => asked' \in Seq(Entries) /\ Streaming(buf', wire', asked', parsing')
<1>1. PICK s \in Seq(Byte), t \in Seq(Byte), e \in Seq(Effect), f \in Seq(Effect) :
        /\ buf = s \o t /\ Dos(asked) = e \o f
        /\ Spoken(s, e) /\ Pending(t, wire, f)
  BY DEF Streaming
<1>2. TurnTakes(s, e)
  BY <1>1, TurnSpoken
<1>3. PICK a \in Seq(Byte), r \in Seq(Byte), y \in Seq(Effect), g \in Seq(Effect) :
        /\ s = a \o r /\ e = y \o g /\ Spoken(r, g)
        /\ Turn.len = Len(a) /\ Turn.do = y /\ (Turn.return => r = <<>>)
  BY <1>2 DEF TurnTakes
<1>4. /\ a \in Seq(Byte) /\ r \in Seq(Byte) /\ t \in Seq(Byte)
      /\ y \in Seq(Effect) /\ g \in Seq(Effect) /\ f \in Seq(Effect)
  OBVIOUS
<1>5. r \o t \in Seq(Byte) /\ g \o f \in Seq(Effect)
  BY <1>4
<1>6. buf = a \o (r \o t)
  <2>1. (a \o r) \o t = a \o (r \o t)
    <3>1. Grouped(a, r, t)
      BY ONLY <1>4, RegroupThree
    <3> QED BY ONLY <3>1 DEF Grouped
  <2> QED BY <1>1, <1>3, <2>1, Zenon
<1>7. Dos(asked) = y \o (g \o f)
  <2>1. (y \o g) \o f = y \o (g \o f)
    <3>1. Grouped(y, g, f)
      BY ONLY <1>4, RegroupThree
    <3> QED BY ONLY <3>1 DEF Grouped
  <2> QED BY <1>1, <1>3, <2>1, Zenon
<1>8. /\ Len(y) \in 0 .. Len(asked) /\ After(asked, Len(y)) \in Seq(Entries)
      /\ Dos(After(asked, Len(y))) = g \o f
      /\ \A i \in 1 .. Len(y) : y[i] = asked[i].do
  <2>1. asked \in Seq(Entries)
    OBVIOUS
  <2> QED BY ONLY <1>4, <1>5, <1>7, <2>1, DosDrop
<1>9. TurnAsked(asked)
  BY <1>3, <1>4, <1>8 DEF TurnAsked
<1>10. ASSUME Parse
       PROVE  asked' \in Seq(Entries) /\ Streaming(buf', wire', asked', parsing')
  <2>1. /\ buf' = SubSeq(buf, Len(a) + 1, Len(buf)) /\ asked' = After(asked, Len(y))
        /\ parsing' = ~Turn.return /\ wire' = wire
    BY <1>3, <1>10 DEF Parse, After
  <2>2. buf' = r \o t
    <3>1. SubSeq(a \o (r \o t), Len(a) + 1, Len(a \o (r \o t))) = r \o t
      BY ONLY <1>4, <1>5, Dropped
    <3> QED BY <1>6, <2>1, <3>1, Zenon
  <2>3. parsing' \/ r = <<>>
    BY <1>3, <2>1
  <2>4. Dos(asked') = g \o f
    BY <1>8, <2>1, Zenon
  <2>5. Pending(t, wire', f)
    BY <1>1, <2>1, Zenon
  <2>6. Streaming(buf', wire', asked', parsing')
    BY <1>3, <1>4, <2>2, <2>3, <2>4, <2>5, Zenon DEF Streaming
  <2> QED BY <1>8, <2>1, <2>6, Zenon
<1> QED BY <1>9, <1>10

LEMMA ReadStream ==
  ASSUME asked \in Seq(Entries), Streaming(buf, wire, asked, parsing), wire \in Seq(Byte),
         NEW n \in 1 .. Len(wire), Read(n)
  PROVE  Streaming(buf', wire', asked', parsing')
<1>1. /\ parsing = FALSE \/ ~parsing
      /\ parsing' = TRUE /\ asked' = asked
      /\ buf' = buf \o SubSeq(wire, 1, n) /\ wire' = SubSeq(wire, n + 1, Len(wire))
  BY DEF Read
<1>2. PICK s \in Seq(Byte), t \in Seq(Byte), e \in Seq(Effect), f \in Seq(Effect) :
        /\ buf = s \o t /\ Dos(asked) = e \o f
        /\ Spoken(s, e) /\ Pending(t, wire, f) /\ (parsing \/ s = <<>>)
  BY DEF Streaming
<1>3. s = <<>> /\ e = <<>>
  <2>1. s = <<>>
    BY <1>1, <1>2
  <2> QED BY <1>2, <2>1, SpokenNothing
<1>4. buf = t /\ Dos(asked) = f
  <2>1. <<>> \o t = t /\ <<>> \o f = f
    BY ConcatEmptySeq
  <2> QED BY <1>2, <1>3, <2>1, Zenon
<1>6. ReadOn(t, wire, f, n)
  <2>1. t \in Seq(Byte) /\ f \in Seq(Effect) /\ wire \in Seq(Byte) /\ n \in 1 .. Len(wire)
    OBVIOUS
  <2>2. Pending(t, wire, f)
    BY <1>2
  <2> QED BY ONLY <2>1, <2>2, ReadingOn
<1>7. PICK u \in Seq(Byte), v \in Seq(Byte), d \in Seq(Effect), h \in Seq(Effect) :
        /\ t \o SubSeq(wire, 1, n) = u \o v /\ f = d \o h
        /\ Spoken(u, d) /\ Pending(v, SubSeq(wire, n + 1, Len(wire)), h)
  BY <1>6 DEF ReadOn
<1>8. buf' = u \o v /\ Dos(asked') = d \o h /\ Pending(v, wire', h)
  BY <1>1, <1>4, <1>7, Zenon
<1> QED BY <1>1, <1>7, <1>8, Zenon DEF Streaming

\* One write of a whole item.
LEMMA SendStream ==
  ASSUME asked \in Seq(Entries), Streaming(buf, wire, asked, parsing), wire \in Seq(Byte),
         NEW it, Spoken(Bytes(it), Effects(it)), NEW v \in BOOLEAN, Send(it, v),
         UNCHANGED <<buf, parsing>>
  PROVE  /\ wire' \in Seq(Byte) /\ asked' \in Seq(Entries)
         /\ asked' = asked \o Sent(Effects(it), v)
         /\ Streaming(buf', wire', asked', parsing')
<1> DEFINE b == Bytes(it)  x == Effects(it)
<1>1. /\ wire' = wire \o b /\ asked' = asked \o Sent(x, v)
      /\ buf' = buf /\ parsing' = parsing
  BY DEF Send, Sent
<1>2. b \in Seq(Byte) /\ x \in Seq(Effect) /\ Spoken(b, x)
  BY DEF Spoken
<1> HIDE DEF b, x
<1>3. PICK s \in Seq(Byte), t \in Seq(Byte), e \in Seq(Effect), f \in Seq(Effect) :
        /\ buf = s \o t /\ Dos(asked) = e \o f
        /\ Spoken(s, e) /\ Pending(t, wire, f) /\ (parsing \/ s = <<>>)
  BY DEF Streaming
<1>4. asked' \in Seq(Entries) /\ Dos(asked') = Dos(asked) \o x
  BY <1>1, <1>2, DosAdd
<1>5. (e \o f) \o x = e \o (f \o x)
  <2>1. e \in Seq(Effect) /\ f \in Seq(Effect)
    OBVIOUS
  <2> QED BY ONLY <1>2, <2>1, Regroup, Zenon
<1>6. Dos(asked') = e \o (f \o x)
  BY <1>3, <1>4, <1>5, Zenon
<1>7. Pending(t, wire', f \o x)
  <2>1. Pending(t, wire \o b, f \o x)
    BY <1>2, <1>3, PendingThen
  <2> QED BY <1>1, <2>1, Zenon
<1>8. f \o x \in Seq(Effect) /\ wire' \in Seq(Byte)
  BY <1>1, <1>2
<1>9. Streaming(buf', wire', asked', parsing')
  <2>1. s \in Seq(Byte) /\ t \in Seq(Byte) /\ e \in Seq(Effect)
    OBVIOUS
  <2>2. buf' = s \o t /\ (parsing' \/ s = <<>>)
    BY <1>1, <1>3
  <2> QED BY <1>3, <1>6, <1>7, <1>8, <2>1, <2>2, Zenon DEF Streaming
<1> QED BY <1>1, <1>4, <1>8, <1>9 DEF x

-----------------------------------------------------------------------------
(***************************************************************************)
(* The parser, whatever it is given.                                       *)
(***************************************************************************)
\* Keys to forward, or one thing to do, or nothing.
TurnKinds(es) ==
  /\ Len(es) \in Nat /\ DOMAIN es = 1 .. Len(es)
  /\ \/ \A i \in DOMAIN es : es[i][1] = "forward"
     \/ Len(es) = 1 /\ es[1][1] = "image"
     \/ Len(es) = 1 /\ es[1][1] = "resize" /\ es[1][2] \in Nat
     \/ Len(es) = 1 /\ es[1][1] = "scroll" /\ es[1][2] \in Int

TurnTypes ==
  /\ Turn.len \in 0 .. Len(buf) /\ Turn.return \in BOOLEAN /\ TurnKinds(Turn.do)
  /\ Turn.return => Turn.len = Len(buf) \/ (Turn.len = 0 /\ HasMagic)

LEMMA OneKind ==
  ASSUME NEW k, NEW a, \/ k = "image"
                       \/ k = "resize" /\ a \in Nat
                       \/ k = "scroll" /\ a \in Int
  PROVE  TurnKinds(<< <<k, a>> >>)
<1> DEFINE es == << <<k, a>> >>
<1>1. Len(es) = 1 /\ DOMAIN es = 1 .. 1 /\ es[1][1] = k /\ es[1][2] = a
  OBVIOUS
<1> HIDE DEF es
<1>2. Len(es) \in Nat /\ DOMAIN es = 1 .. Len(es)
  BY <1>1
<1>3. TurnKinds(es)
  BY <1>1, <1>2 DEF TurnKinds
<1> QED BY <1>3 DEF es

LEMMA NoKind == TurnKinds(<<>>)
  BY DEF TurnKinds

LEMMA AwaitTypes ==
  ASSUME buf \in Seq(Byte), Turn = Await, HasMagic
  PROVE  TurnTypes
<1>1. Turn.len = 0 /\ Turn.do = <<>> /\ Turn.return = TRUE /\ Len(buf) \in Nat
  BY DEF Await
<1>2. Turn.len \in 0 .. Len(buf)
  BY <1>1
<1>3. Turn.return \in BOOLEAN
  BY <1>1, Zenon
<1> QED BY <1>1, <1>2, <1>3, NoKind, Zenon DEF TurnTypes

LEMMA BytesNat == \A b \in Byte : b \in Nat
  BY DEF Byte

LEMMA WordTypes ==
  ASSUME NEW q \in Seq(Byte), Len(q) >= 4
  PROVE  Word(SubSeq(q, 3, 4)) \in Nat /\ Int16(SubSeq(q, 3, 4)) \in Int
<1>1. q[3] \in Nat /\ q[4] \in Nat
  <2>1. 3 \in 1 .. Len(q) /\ 4 \in 1 .. Len(q)
    OBVIOUS
  <2>2. q[3] \in Byte /\ q[4] \in Byte
    BY <2>1, ElementOfSeq
  <2> QED BY <2>2, BytesNat
<1>2. Word(SubSeq(q, 3, 4)) = q[3] * 256 + q[4]
  BY WordsOf
<1>3. Word(SubSeq(q, 3, 4)) \in Nat
  BY <1>1, <1>2
<1> QED BY <1>3 DEF Int16

LEMMA TakeTypes ==
  ASSUME buf \in Seq(Byte), NEW n \in 0 .. Len(buf), NEW es, TurnKinds(es), Turn = Take(n, es)
  PROVE  TurnTypes
<1>1. Turn.len = n /\ Turn.do = es /\ Turn.return = FALSE
  BY DEF Take
<1> QED BY <1>1 DEF TurnTypes

LEMMA TurnType == ASSUME buf \in Seq(Byte) PROVE TurnTypes
<1>0. Len(buf) \in Nat
  OBVIOUS
<1>1. CASE Head2(255)
  <2>1. Turn = Resize /\ HasMagic
    BY <1>1 DEF Turn, HasMagic, Magic, Head2
  <2>2. CASE Len(buf) < 6
    BY <2>1, <2>2, AwaitTypes DEF Resize, ResizeLen
  <2>3. CASE ~(Len(buf) < 6)
    <3>1. Turn = Take(6, << <<"resize", Word(SubSeq(buf, 3, 4))>> >>)
      BY <2>1, <2>3 DEF Resize, ResizeLen
    <3>2. Word(SubSeq(buf, 3, 4)) \in Nat /\ 6 \in 0 .. Len(buf)
      BY <1>0, <2>3, WordTypes
    <3>3. TurnKinds(<< <<"resize", Word(SubSeq(buf, 3, 4))>> >>)
      BY <3>2, OneKind
    <3> QED BY <3>1, <3>2, <3>3, TakeTypes
  <2> QED BY <2>2, <2>3
<1>2. CASE Head2(254)
  <2>1. Turn = ScrollFrame /\ HasMagic
    BY <1>2 DEF Turn, HasMagic, Magic, Head2
  <2>2. CASE Len(buf) < 4
    BY <2>1, <2>2, AwaitTypes DEF ScrollFrame, ScrollLen
  <2>3. CASE ~(Len(buf) < 4)
    <3>1. Turn = Take(4, << <<"scroll", Int16(SubSeq(buf, 3, 4))>> >>)
      BY <2>1, <2>3 DEF ScrollFrame, ScrollLen
    <3>2. Int16(SubSeq(buf, 3, 4)) \in Int /\ 4 \in 0 .. Len(buf)
      BY <1>0, <2>3, WordTypes
    <3>3. TurnKinds(<< <<"scroll", Int16(SubSeq(buf, 3, 4))>> >>)
      BY <3>2, OneKind
    <3> QED BY <3>1, <3>2, <3>3, TakeTypes
  <2> QED BY <2>2, <2>3
<1>3. CASE Head2(253)
  <2>1. Turn = Image /\ HasMagic
    BY <1>3 DEF Turn, HasMagic, Magic, Head2
  <2> DEFINE n == Claimed(buf)
             es == << <<"image", SubSeq(buf, 7 + 1, 7 + n)>> >>
  <2>2. Turn = IF Len(buf) < 7 THEN Await
               ELSE IF n \notin 1 .. MaxImage THEN Take(7, <<>>)
               ELSE IF Len(buf) < 7 + n THEN Await ELSE Take(7 + n, es)
    BY <1>0, <2>1, ImageIs DEF ImageByLength
  <2>3. TurnKinds(es)
    BY OneKind
  <2>4. n \in 1 .. MaxImage => n \in Nat
    OBVIOUS
  <2> HIDE DEF n, es
  <2>5. CASE Len(buf) < 7 \/ (n \in 1 .. MaxImage /\ Len(buf) < 7 + n)
    <3>1. Turn = Await
      BY <2>2, <2>5
    <3> QED BY <2>1, <3>1, AwaitTypes
  <2>6. CASE ~(Len(buf) < 7) /\ n \notin 1 .. MaxImage
    <3>1. Turn = Take(7, <<>>) /\ 7 \in 0 .. Len(buf)
      BY <1>0, <2>2, <2>6
    <3> QED BY <3>1, NoKind, TakeTypes
  <2>7. CASE ~(Len(buf) < 7) /\ n \in 1 .. MaxImage /\ ~(Len(buf) < 7 + n)
    <3>1. Turn = Take(7 + n, es) /\ 7 + n \in 0 .. Len(buf)
      BY <1>0, <2>2, <2>4, <2>7
    <3> QED BY <2>3, <3>1, TakeTypes
  <2> QED BY <2>5, <2>6, <2>7, Zenon
<1>4. CASE ~Head2(255) /\ ~Head2(254) /\ ~Head2(253)
  <2>1. Turn = Forward
    BY <1>4 DEF Turn
  <2>2. Cut \in 0 .. Len(buf) /\ (Len(buf) - Cut < 2 => Cut = Len(buf))
    BY <1>0, CutProps DEF Cuts
  <2>3. TurnKinds(Forwarded(Cut))
    <3>1. /\ Len(Forwarded(Cut)) = Cut /\ DOMAIN Forwarded(Cut) = 1 .. Cut /\ Cut \in Nat
          /\ \A i \in 1 .. Cut : Forwarded(Cut)[i] = <<"forward", buf[i]>>
      BY <1>0, <2>2, ForwardedIs
    <3>2. \A i \in 1 .. Cut : Forwarded(Cut)[i][1] = "forward"
      BY <3>1
    <3> QED BY <3>1, <3>2 DEF TurnKinds
  <2>4. /\ Turn.len = Cut /\ Turn.do = Forwarded(Cut)
        /\ Turn.return = (Len(buf) - Cut < 2)
    BY <2>1 DEF Forward, Take
  <2>5. Turn.return \in BOOLEAN /\ (Turn.return => Len(buf) - Cut < 2)
    <3>1. CASE Len(buf) - Cut < 2
      <4>1. Turn.return = TRUE
        BY <2>4, <3>1
      <4> QED BY <3>1, <4>1
    <3>2. CASE ~(Len(buf) - Cut < 2)
      <4>1. Turn.return = FALSE
        <5>1. (Len(buf) - Cut < 2) = FALSE
          BY <3>2
        <5> QED BY <2>4, <5>1, Zenon
      <4> QED BY <4>1
    <3> QED BY <3>1, <3>2
  <2>6. Turn.return => Turn.len = Len(buf)
    BY <2>2, <2>4, <2>5, Zenon
  <2>7. Turn.len \in 0 .. Len(buf) /\ TurnKinds(Turn.do)
    BY <2>2, <2>3, <2>4, Zenon
  <2> QED BY <2>5, <2>6, <2>7, Zenon DEF TurnTypes
<1> QED BY <1>1, <1>2, <1>3, <1>4

-----------------------------------------------------------------------------
(***************************************************************************)
(* The view.                                                               *)
(***************************************************************************)
\* The bottom of the last render is no further down than a scroll can reach.
LowView(v) == v.lastMaxOy <= HistMax + ScreenRows

LEMMA ScrollType ==
  ASSUME NEW v \in View, NEW dy \in Int
  PROVE  /\ Scroll(v, dy) \in View /\ Scroll(v, dy).lastMaxOy = v.lastMaxOy
         /\ dy >= 0 /\ v.follow => Scroll(v, dy).follow
         /\ dy >= v.lastMaxOy => Scroll(v, dy).follow
<1>1. \A f \in BOOLEAN, n \in Nat :
        /\ [v EXCEPT !.follow = f, !.anchor = n] \in View
        /\ [v EXCEPT !.anchor = n] \in View
  BY DEF View
<1>2. v.anchor \in Nat /\ v.lastMaxOy \in Nat /\ v.follow \in BOOLEAN
  BY DEF View
<1>3. CASE v.follow /\ dy < 0
  <2>1. Floor0(v.lastMaxOy + dy) \in Nat
    BY <1>2 DEF Floor0
  <2>2. Scroll(v, dy) = [v EXCEPT !.follow = FALSE, !.anchor = Floor0(v.lastMaxOy + dy)]
    BY <1>3 DEF Scroll
  <2>3. ~(dy >= 0) /\ ~(dy >= v.lastMaxOy)
    BY <1>2, <1>3
  <2> QED BY <1>1, <2>1, <2>2, <2>3 DEF View
<1>4. CASE v.follow /\ ~(dy < 0)
  BY <1>4 DEF Scroll
<1>5. CASE ~v.follow /\ v.anchor + dy >= v.lastMaxOy
  <2>1. v.anchor + dy \in Nat
    BY <1>2, <1>5
  <2>2. Scroll(v, dy) = [v EXCEPT !.follow = TRUE, !.anchor = v.anchor + dy]
    BY <1>5 DEF Scroll, View
  <2>3. Scroll(v, dy).follow = TRUE /\ Scroll(v, dy).lastMaxOy = v.lastMaxOy
    BY <2>2 DEF View
  <2> QED BY <1>1, <2>1, <2>2, <2>3
<1>6. CASE ~v.follow /\ ~(v.anchor + dy >= v.lastMaxOy)
  <2>1. Floor0(v.anchor + dy) \in Nat
    BY <1>2 DEF Floor0
  <2>2. Scroll(v, dy) = [v EXCEPT !.anchor = Floor0(v.anchor + dy)]
    BY <1>6 DEF Scroll, View
  <2>3. ~(dy >= v.lastMaxOy)
    BY <1>2, <1>6
  <2>4. Scroll(v, dy).lastMaxOy = v.lastMaxOy
    BY <2>2 DEF View
  <2> QED BY <1>1, <1>6, <2>1, <2>2, <2>3, <2>4
<1> QED BY <1>3, <1>4, <1>5, <1>6

LEMMA RenderedProps ==
  ASSUME NEW v \in View, NEW total \in Nat, NEW vrows \in Nat
  PROVE  /\ Rendered(v, total, vrows) \in View
         /\ v.follow => Rendered(v, total, vrows).follow
         /\ Rendered(v, total, vrows).lastMaxOy <= total
<1> DEFINE maxOy == Floor0(total - vrows)
           f == v.follow \/ v.anchor >= maxOy
           oy == IF f THEN maxOy ELSE v.anchor
           a == IF v.follow THEN v.anchor ELSE oy
           r == Rendered(v, total, vrows)
<1>1. maxOy \in Nat /\ maxOy <= total /\ v.anchor \in Nat /\ v.follow \in BOOLEAN
  BY DEF Floor0, View
<1>2. oy \in Nat /\ f \in BOOLEAN /\ (v.follow => f)
  BY <1>1
<1>3. a \in Nat
  BY <1>1, <1>2
<1>4. r = [follow |-> f, anchor |-> a, lastMaxOy |-> maxOy, lastOy |-> oy]
  BY DEF Rendered
<1> HIDE DEF f, a, maxOy, oy, r
<1>5. r \in View /\ r.follow = f /\ r.lastMaxOy = maxOy
  BY <1>1, <1>2, <1>3, <1>4 DEF View
<1> QED BY <1>1, <1>2, <1>5 DEF r

\* What a step of the parser does to the view and to the height.
ViewMoves(es, v, v2) ==
  /\ (\A i \in DOMAIN es : es[i][1] # "scroll") => (v.follow => v2.follow)
  /\ es = << <<"scroll", 32767>> >> => v2.follow
RowsMove(es, r, r2) ==
  /\ (\A i \in DOMAIN es : es[i][1] # "resize") => r2 = r
  /\ \A z : es = << <<"resize", z>> >> => r2 = z

ViewTypes == hist \in 0 .. HistMax /\ rows \in Nat /\ view \in View /\ LowView(view)

LEMMA ShowStep ==
  ASSUME ViewTypes, NEW es, TurnKinds(es), Show(es)
  PROVE  /\ rows' \in Nat /\ view' \in View /\ LowView(view')
         /\ ViewMoves(es, view, view') /\ RowsMove(es, rows, rows')
<1>1. /\ HistMax \in Nat /\ ScreenRows \in Nat /\ HistMax + ScreenRows <= 32767
      /\ hist \in Nat /\ hist <= HistMax /\ rows \in Nat /\ view \in View
      /\ view.lastMaxOy \in Nat /\ view.lastMaxOy <= HistMax + ScreenRows
  BY ClientInputAssumption DEF ViewTypes, LowView, View
<1> DEFINE k == es[1][1]  total == hist + ScreenRows
<1>2. total \in Nat /\ total <= HistMax + ScreenRows
  BY <1>1
<1>3. ASSUME NEW v \in View, NEW r \in Nat
      PROVE  /\ Rendered(v, total, r) \in View /\ LowView(Rendered(v, total, r))
             /\ v.follow => Rendered(v, total, r).follow
  <2>1. /\ Rendered(v, total, r) \in View /\ Rendered(v, total, r).lastMaxOy <= total
        /\ v.follow => Rendered(v, total, r).follow
    BY <1>2, RenderedProps
  <2>2. Rendered(v, total, r).lastMaxOy \in Nat
    BY <2>1 DEF View
  <2> QED BY <1>1, <1>2, <2>1, <2>2 DEF LowView
<1>4. CASE es = <<>> \/ k \notin {"resize", "scroll"}
  <2>1. rows' = rows /\ view' = view
    BY <1>4 DEF Show
  <2>2. \A z : es # << <<"resize", z>> >> /\ es # << <<"scroll", z>> >>
    BY <1>4
  <2> QED BY <1>1, <2>1, <2>2 DEF ViewMoves, RowsMove, LowView
<1>5. CASE es # <<>> /\ k \in {"resize", "scroll"}
  <2>1. /\ rows' = IF k = "resize" THEN es[1][2] ELSE rows
        /\ view' = Rendered(Moved(es[1]), total, rows')
    BY <1>5 DEF Show
  <2>2. 1 \in DOMAIN es /\ Len(es) = 1
    <3>1. Len(es) \in Nat /\ Len(es) # 0
      BY <1>5 DEF TurnKinds
    <3> QED BY <1>5, <3>1 DEF TurnKinds
  <2>3. CASE k = "resize"
    <3>1. es[1][2] \in Nat /\ rows' = es[1][2] /\ Moved(es[1]) = view
      BY <2>1, <2>2, <2>3 DEF TurnKinds, Moved
    <3>2. view' \in View /\ LowView(view') /\ (view.follow => view'.follow)
      <4>1. view' = Rendered(view, total, rows') /\ rows' \in Nat /\ view \in View
        BY <1>1, <2>1, <3>1
      <4> HIDE DEF total
      <4> QED BY ONLY <1>3, <4>1
    <3>3. \A z : (es = << <<"resize", z>> >> => rows' = z) /\ es # << <<"scroll", z>> >>
      BY <2>3, <3>1
    <3>4. ~\A i \in DOMAIN es : es[i][1] # "resize"
      BY <2>2, <2>3
    <3> QED BY <3>1, <3>2, <3>3, <3>4 DEF ViewMoves, RowsMove
  <2>4. CASE k = "scroll"
    <3>1. es[1][2] \in Int /\ rows' = rows /\ Moved(es[1]) = Scroll(view, es[1][2])
      BY <2>1, <2>2, <2>4 DEF TurnKinds, Moved
    <3> DEFINE w == Scroll(view, es[1][2])
    <3>2. w \in View /\ (es[1][2] >= view.lastMaxOy => w.follow)
      <4> DEFINE m == es[1][2]
      <4>1. m \in Int /\ view \in View
        BY <1>1, <3>1
      <4> HIDE DEF m
      <4>2. Scroll(view, m) \in View /\ (m >= view.lastMaxOy => Scroll(view, m).follow)
        BY ONLY <4>1, ScrollType
      <4> QED BY <4>2 DEF m
    <3>3. view' \in View /\ LowView(view') /\ (w.follow => view'.follow)
      <4>1. view' = Rendered(w, total, rows') /\ rows' \in Nat /\ w \in View
        BY <1>1, <2>1, <3>1, <3>2
      <4> HIDE DEF total, w
      <4> QED BY ONLY <1>3, <4>1
    <3>4. es = << <<"scroll", 32767>> >> => view'.follow
      <4>1. es = << <<"scroll", 32767>> >> => es[1][2] = 32767
        OBVIOUS
      <4>2. 32767 >= view.lastMaxOy
        BY <1>1
      <4> QED BY <3>2, <3>3, <4>1, <4>2
    <3>5. \A z : es # << <<"resize", z>> >>
      BY <2>4
    <3>6. ~\A i \in DOMAIN es : es[i][1] # "scroll"
      BY <2>2, <2>4
    <3> QED BY <1>1, <3>1, <3>3, <3>4, <3>5, <3>6 DEF ViewMoves, RowsMove
  <2> QED BY <1>5, <2>3, <2>4
<1> QED BY <1>4, <1>5

-----------------------------------------------------------------------------
(***************************************************************************)
(* What processStdin writes.                                               *)
(***************************************************************************)
Tasks == [it : Typing \cup Turning \cup Pasting, typed : BOOLEAN]

Scrolls(q) == \A i \in 1 .. Len(q) : q[i].it.kind = "scroll"
NoScroll(q) == \A i \in 1 .. Len(q) : q[i].it.kind # "scroll"
IsTyped(q) == \E i \in 1 .. Len(q) : q[i].typed

\* First scrolls and then no more: and the live view is the last of the scrolls,
\* when there is something typed after it or the client is live then.
Ordered(p, z, n2, p2) ==
  /\ p \in Seq(Tasks) /\ z \in Seq(Tasks) /\ Scrolls(p) /\ NoScroll(z)
  /\ IsTyped(z) \/ (~n2 /\ ~p2) =>
       IF p = <<>> THEN ~nav /\ ~pk ELSE p[Len(p)].it = Follow
Shaped(q, n2, p2) == \E p, z \in Seq(Tasks) : q = p \o z /\ Ordered(p, z, n2, p2)

Knows(c, p) == p => c.pagekey \/ c.wheel

LEMMA Kinds ==
  /\ \A it \in Typing : it.kind = "keys"
  /\ \A it \in Turning : it.kind = "scroll"
  /\ \A it \in Web : it.kind = "image"
  /\ \A it \in Pasting \cup Telling : it.kind = "image"
<1>1. \A it \in Typing : it.kind = "keys"
  BY DEF Typing
<1>2. \A it \in Turning : it.kind = "scroll"
  BY DEF Turning
<1>3. \A it \in Web : it.kind = "image"
  BY DEF Web
<1>4. Pasting \subseteq Web /\ Telling \subseteq Web
  BY DEF Pasting, Telling
<1> QED BY <1>1, <1>2, <1>3, <1>4

LEMMA TaskType ==
  ASSUME NEW it \in Typing \cup Turning \cup Pasting, NEW d
  PROVE  /\ Item(it, d) \in Tasks /\ Item(it, d).it = it /\ Item(it, d).typed = IsLiveResetKey(d)
         /\ IsLiveResetKey(d) \in BOOLEAN
<1>1. IsLiveResetKey(d) \in BOOLEAN
  BY DEF IsLiveResetKey
<1> QED BY <1>1 DEF Item, Tasks

LEMMA NoTasks == <<>> \in Seq(Tasks) /\ Scrolls(<<>>) /\ NoScroll(<<>>) /\ ~IsTyped(<<>>)
  BY DEF Scrolls, NoScroll, IsTyped

\* Only scrolls, or nothing that is a scroll, or typed.
AllScroll(q) == q \in Seq(Tasks) /\ Scrolls(q)
AllOther(q, d) == /\ q \in Seq(Tasks) /\ NoScroll(q)
                  /\ \A i \in 1 .. Len(q) : q[i].typed = IsLiveResetKey(d)

LEMMA OneTask ==
  ASSUME NEW it \in Typing \cup Turning \cup Pasting, NEW d
  PROVE  /\ << Item(it, d) >> \in Seq(Tasks) /\ Len(<< Item(it, d) >>) = 1
         /\ it \in Turning => AllScroll(<< Item(it, d) >>)
         /\ it \notin Turning => AllOther(<< Item(it, d) >>, d)
<1> DEFINE q == << Item(it, d) >>
<1>1. Item(it, d) \in Tasks /\ Item(it, d).it = it /\ Item(it, d).typed = IsLiveResetKey(d)
  BY TaskType
<1>2. q \in Seq(Tasks) /\ Len(q) = 1 /\ \A i \in 1 .. 1 : q[i] = Item(it, d)
  BY <1>1
<1>3. IF it \in Turning THEN it.kind = "scroll" ELSE it.kind # "scroll"
  <2>1. it \in Turning => it.kind = "scroll"
    BY Kinds
  <2>2. it \in Typing \cup Pasting => it.kind # "scroll"
    <3>1. it \in Typing => it.kind = "keys"
      BY Kinds
    <3>2. it \in Pasting => it.kind = "image"
      BY Kinds
    <3> QED BY <3>1, <3>2
  <2> QED BY <2>1, <2>2
<1> HIDE DEF q
<1>4. it \in Turning => AllScroll(q)
  BY <1>1, <1>2, <1>3 DEF AllScroll, Scrolls
<1>5. it \notin Turning => AllOther(q, d)
  BY <1>1, <1>2, <1>3 DEF AllOther, NoScroll
<1> QED BY <1>2, <1>4, <1>5 DEF q

LEMMA MoreScrolls ==
  ASSUME NEW p, NEW q, AllScroll(p), AllScroll(q)
  PROVE  AllScroll(p \o q) /\ (q # <<>> => (p \o q)[Len(p \o q)] = q[Len(q)] /\ p \o q # <<>>)
<1>1. p \in Seq(Tasks) /\ q \in Seq(Tasks)
  BY DEF AllScroll
<1>2. /\ p \o q \in Seq(Tasks) /\ Len(p \o q) = Len(p) + Len(q) /\ Len(p) \in Nat /\ Len(q) \in Nat
      /\ \A i \in 1 .. Len(p) : (p \o q)[i] = p[i]
      /\ \A i \in 1 .. Len(q) : (p \o q)[Len(p) + i] = q[i]
  BY <1>1
<1> DEFINE c == p \o q  n == Len(p)  m == Len(q)
<1>3. /\ (\A i \in 1 .. n : p[i].it.kind = "scroll") /\ \A i \in 1 .. m : q[i].it.kind = "scroll"
      /\ q # <<>> => m # 0
  BY <1>1 DEF AllScroll, Scrolls
<1>4. /\ c \in Seq(Tasks) /\ Len(c) = n + m /\ n \in Nat /\ m \in Nat
      /\ (\A i \in 1 .. n : c[i] = p[i]) /\ \A i \in 1 .. m : c[n + i] = q[i]
  BY <1>2
<1> HIDE DEF c, n, m
<1>5. ASSUME NEW i \in 1 .. n + m PROVE c[i].it.kind = "scroll"
  <2>1. CASE i <= n
    <3>1. i \in 1 .. n
      BY <1>4, <2>1
    <3> QED BY <1>3, <1>4, <3>1
  <2>2. CASE i > n
    <3>1. i - n \in 1 .. m /\ n + (i - n) = i
      BY <1>4, <2>2
    <3>2. c[n + (i - n)] = q[i - n]
      BY <1>4, <3>1
    <3> QED BY <1>3, <3>1, <3>2
  <2>3. i <= n \/ i > n
    BY <1>4
  <2> QED BY <2>1, <2>2, <2>3
<1>6. q # <<>> => c[n + m] = q[m] /\ c # <<>>
  <2> SUFFICES ASSUME q # <<>> PROVE c[n + m] = q[m] /\ c # <<>>
    OBVIOUS
  <2>1. m \in 1 .. m /\ n + m # 0
    BY <1>3, <1>4
  <2>2. Len(c) # 0
    BY <1>4, <2>1
  <2> QED BY <1>4, <2>1, <2>2
<1>7. AllScroll(c)
  BY <1>4, <1>5 DEF AllScroll, Scrolls
<1> QED BY <1>4, <1>6, <1>7 DEF c, m

LEMMA MoreOthers ==
  ASSUME NEW p, NEW q, NEW d, AllOther(p, d), AllOther(q, d)
  PROVE  AllOther(p \o q, d)
<1>1. p \in Seq(Tasks) /\ q \in Seq(Tasks)
  BY DEF AllOther
<1>2. /\ p \o q \in Seq(Tasks) /\ Len(p \o q) = Len(p) + Len(q) /\ Len(p) \in Nat /\ Len(q) \in Nat
      /\ \A i \in 1 .. Len(p) : (p \o q)[i] = p[i]
      /\ \A i \in 1 .. Len(q) : (p \o q)[Len(p) + i] = q[i]
  BY <1>1
<1> DEFINE c == p \o q  n == Len(p)  m == Len(q)
           Fits(x) == x.it.kind # "scroll" /\ x.typed = IsLiveResetKey(d)
<1>3. (\A i \in 1 .. n : Fits(p[i])) /\ \A i \in 1 .. m : Fits(q[i])
  BY <1>1 DEF AllOther, NoScroll
<1>4. /\ c \in Seq(Tasks) /\ Len(c) = n + m /\ n \in Nat /\ m \in Nat
      /\ (\A i \in 1 .. n : c[i] = p[i]) /\ \A i \in 1 .. m : c[n + i] = q[i]
  BY <1>2
<1> HIDE DEF c, n, m, Fits
<1>5. ASSUME NEW i \in 1 .. n + m PROVE Fits(c[i])
  <2>1. CASE i <= n
    <3>1. i \in 1 .. n
      BY <1>4, <2>1
    <3>2. c[i] = p[i] /\ Fits(p[i])
      BY <1>3, <1>4, <3>1
    <3> QED BY <3>2, Zenon
  <2>2. CASE i > n
    <3>1. i - n \in 1 .. m /\ n + (i - n) = i
      BY <1>4, <2>2
    <3>2. c[n + (i - n)] = q[i - n] /\ Fits(q[i - n])
      BY <1>3, <1>4, <3>1
    <3> QED BY <3>1, <3>2, Zenon
  <2>3. i <= n \/ i > n
    BY <1>4
  <2> QED BY <2>1, <2>2, <2>3
<1> QED BY <1>4, <1>5 DEF AllOther, NoScroll, Fits, c

LEMMA RegroupTasks == \A a, b, c \in Seq(Tasks) : (a \o b) \o c = a \o (b \o c)
  BY ConcatAssociative

LEMMA LiveShape ==
  ASSUME NEW d
  PROVE  /\ AllScroll(Live(d)) /\ (Resets(d) <=> Live(d) # <<>>)
         /\ Live(d) # <<>> => Live(d)[Len(Live(d))].it = Follow
<1>1. CASE Resets(d)
  <2>1. Live(d) = << Item(Follow, d) >> /\ Follow \in Turning
    BY <1>1, FollowIs DEF Live
  <2>2. AllScroll(<< Item(Follow, d) >>) /\ Item(Follow, d).it = Follow
    BY <2>1, OneTask, TaskType
  <2> QED BY <1>1, <2>1, <2>2
<1>2. CASE ~Resets(d)
  <2>1. Live(d) = <<>>
    BY <1>2 DEF Live
  <2> QED BY <1>2, <2>1, NoTasks DEF AllScroll
<1> QED BY <1>1, <1>2

LEMMA NoOthers == ASSUME NEW d PROVE AllOther(<<>>, d)
  BY NoTasks DEF AllOther

LEMMA KeysNotTurning ==
  /\ \A it \in Typing : it \notin Turning
  /\ \A it \in Pasting : it \notin Turning
<1>1. \A it \in Typing : it \notin Turning
  <2> SUFFICES ASSUME NEW it \in Typing, it \in Turning PROVE FALSE
    OBVIOUS
  <2>1. it.kind = "keys" /\ it.kind = "scroll"
    BY Kinds
  <2> QED BY <2>1
<1>2. \A it \in Pasting : it \notin Turning
  <2> SUFFICES ASSUME NEW it \in Pasting, it \in Turning PROVE FALSE
    OBVIOUS
  <2>1. it.kind = "image" /\ it.kind = "scroll"
    BY Kinds
  <2> QED BY <2>1
<1> QED BY <1>1, <1>2

LEMMA RestShape ==
  ASSUME NEW d \in Seq(DOMAIN Code), NEW k
  PROVE  AllOther(Rest(d, k), d)
<1>1. CASE Without(d, k) = <<>>
  BY <1>1, NoOthers DEF Rest
<1>2. CASE Without(d, k) # <<>>
  <2>1. Keys(Without(d, k)) \in Typing
    BY WithoutType, KeysTyping
  <2>2. AllOther(<< Item(Keys(Without(d, k)), d) >>, d)
    BY <2>1, OneTask, KeysNotTurning
  <2> QED BY <1>2, <2>2 DEF Rest
<1> QED BY <1>1, <1>2

\* Where the client is not in nav mode.
LEMMA ShapeLive ==
  ASSUME NEW d, NEW z, AllOther(z, d), nav = FALSE, pk \in BOOLEAN, Knows(cfg, pk),
         NEW p2, p2 = (pk /\ ~Resets(d))
  PROVE  Shaped(Live(d) \o z, FALSE, p2)
<1> DEFINE p == Live(d)
<1>1. /\ p \in Seq(Tasks) /\ Scrolls(p) /\ z \in Seq(Tasks) /\ NoScroll(z)
      /\ p # <<>> => p[Len(p)].it = Follow
      /\ Resets(d) <=> p # <<>>
  BY LiveShape DEF AllScroll, AllOther
<1>2. ASSUME p = <<>>, IsTyped(z) \/ ~p2 PROVE pk = FALSE
  <2>1. ~Resets(d)
    BY <1>1, <1>2
  <2>2. CASE IsTyped(z)
    <3>1. IsLiveResetKey(d)
      BY <2>2 DEF IsTyped, AllOther
    <3>2. pk => Resets(d)
      BY <3>1 DEF Knows, Resets
    <3> QED BY <2>1, <3>2
  <2>3. CASE ~p2
    BY <2>1, <2>3
  <2> QED BY <1>2, <2>2, <2>3
<1> HIDE DEF p
<1>3. Ordered(p, z, FALSE, p2)
  BY <1>1, <1>2 DEF Ordered
<1> QED BY <1>1, <1>3 DEF Shaped, p

LEMMA ShapeScrolls ==
  ASSUME NEW p, AllScroll(p), NEW n2, NEW p2, n2 \/ p2
  PROVE  Shaped(p, n2, p2)
<1>1. p \in Seq(Tasks) /\ p = p \o <<>>
  BY ConcatEmptySeq DEF AllScroll
<1>2. Ordered(p, <<>>, n2, p2)
  BY NoTasks DEF Ordered, AllScroll
<1> QED BY <1>1, <1>2, NoTasks DEF Shaped

LEMMA StepsInt ==
  /\ {NavStep, PageStep, WheelStep, -NavStep, -PageStep, -WheelStep} \subseteq Int
  /\ \A k \in DOMAIN scrollKeys : scrollKeys[k] \in Int
<1>1. NavStep \in Nat /\ PageStep \in Nat /\ WheelStep \in Nat
  BY StepsAssumption
<1>2. -NavStep \in Int /\ -PageStep \in Int /\ -WheelStep \in Int
  BY <1>1
<1>3. \A k \in DOMAIN scrollKeys : scrollKeys[k] \in Int
  BY <1>1, <1>2 DEF scrollKeys
<1> QED BY <1>1, <1>2, <1>3

LEMMA ScrollTask ==
  ASSUME NEW dy \in Int, NEW d
  PROVE  AllScroll(<< Item(ScrollBy(dy), d) >>)
  BY ScrollTyping, OneTask

LEMMA StdinShape ==
  ASSUME nav \in BOOLEAN, pk \in BOOLEAN, Knows(cfg, pk), todo = <<>>, NEW d \in Reads,
         \/ WheelScroll(d) \/ PageKeyScroll(d) \/ NavOn(d) \/ NavOff(d) \/ NavKeys(d)
         \/ PasteImage(d) \/ Type(d)
  PROVE  /\ nav' \in BOOLEAN /\ pk' \in BOOLEAN /\ Knows(cfg, pk')
         /\ Shaped(todo', nav', pk')
<1>0. d \in Seq(DOMAIN Code) /\ d # <<>>
  BY SocketClientAssumption
<1>1. CASE WheelScroll(d)
  <2> DEFINE n == IF d[1] = "wheelUp" THEN -WheelStep ELSE WheelStep
  <2>1. nav' = nav /\ pk' = TRUE /\ todo' = << Item(ScrollBy(n), d) >> /\ cfg.wheel
    BY <1>1 DEF WheelScroll, ByWheel
  <2>2. n \in Int
    BY StepsInt
  <2> HIDE DEF n
  <2>3. AllScroll(todo')
    BY <2>1, <2>2, ScrollTask
  <2> QED BY <2>1, <2>3, ShapeScrolls DEF Knows
<1>2. CASE PageKeyScroll(d)
  <2> DEFINE n == IF d[1] = "pgUp" THEN -PageStep ELSE PageStep
  <2>1. nav' = nav /\ pk' = TRUE /\ todo' = << Item(ScrollBy(n), d) >> /\ cfg.pagekey
    BY <1>2 DEF PageKeyScroll, ByPage
  <2>2. n \in Int
    BY StepsInt
  <2> HIDE DEF n
  <2>3. AllScroll(todo')
    BY <2>1, <2>2, ScrollTask
  <2> QED BY <2>1, <2>3, ShapeScrolls DEF Knows
<1>3. CASE NavOn(d)
  <2>1. nav' = TRUE /\ pk' = (pk /\ ~Resets(d)) /\ todo' = Live(d)
    BY <1>3 DEF NavOn
  <2>2. pk' \in BOOLEAN /\ (pk' => pk)
    BY <2>1
  <2>3. Shaped(todo', nav', pk')
    BY <2>1, LiveShape, ShapeScrolls
  <2> QED BY <2>1, <2>2, <2>3 DEF Knows
<1>4. CASE NavOff(d)
  <2> DEFINE f == << Item(Follow, d) >>  p == Live(d) \o f  z == Rest(d, "nav")
  <2>1. nav' = FALSE /\ pk' = FALSE /\ todo' = p \o z
    BY <1>4 DEF NavOff
  <2>2. AllScroll(f) /\ f # <<>> /\ f[Len(f)].it = Follow
    BY FollowIs, OneTask, TaskType
  <2>3. AllScroll(p) /\ p # <<>> /\ p[Len(p)].it = Follow
    <3>1. AllScroll(Live(d))
      BY LiveShape
    <3> HIDE DEF f
    <3> QED BY <2>2, <3>1, MoreScrolls
  <2>4. AllOther(z, d)
    BY <1>0, RestShape
  <2> HIDE DEF p, z, f
  <2>5. Ordered(p, z, FALSE, FALSE)
    BY <2>3, <2>4 DEF Ordered, AllScroll, AllOther
  <2>6. Shaped(todo', nav', pk')
    BY <2>1, <2>5 DEF Shaped, Ordered
  <2> QED BY <2>1, <2>6 DEF Knows
<1>5. CASE NavKeys(d)
  <2> DEFINE q == IF Len(d) = 1 /\ d[1] \in DOMAIN scrollKeys
                    THEN << Item(ScrollBy(scrollKeys[d[1]]), d) >> ELSE <<>>
  <2>1. nav /\ nav' = nav /\ pk' = (pk /\ ~Resets(d)) /\ todo' = Live(d) \o q
    BY <1>5 DEF NavKeys
  <2>2. AllScroll(q)
    <3>1. CASE Len(d) = 1 /\ d[1] \in DOMAIN scrollKeys
      <4>1. scrollKeys[d[1]] \in Int
        BY <3>1, StepsInt
      <4>2. AllScroll(<< Item(ScrollBy(scrollKeys[d[1]]), d) >>)
        BY <4>1, ScrollTask
      <4> QED BY <3>1, <4>2
    <3>2. CASE ~(Len(d) = 1 /\ d[1] \in DOMAIN scrollKeys)
      <4>1. q = <<>>
        BY <3>2
      <4> QED BY <4>1, NoTasks DEF AllScroll
    <3> QED BY <3>1, <3>2
  <2> HIDE DEF q
  <2>3. AllScroll(todo')
    BY <2>1, <2>2, LiveShape, MoreScrolls
  <2>4. pk' \in BOOLEAN /\ (pk' => pk)
    BY <2>1
  <2>5. Shaped(todo', nav', pk')
    BY <2>1, <2>3, ShapeScrolls
  <2> QED BY <2>1, <2>4, <2>5 DEF Knows
<1>6. CASE PasteImage(d)
  <2>1. PICK p \in Images :
          todo' = (Live(d) \o << Item(Picture(p), d) >>) \o Rest(d, "img")
    BY <1>6 DEF PasteImage
  <2>2. nav = FALSE /\ nav' = FALSE /\ pk' = (pk /\ ~Resets(d))
    BY <1>6 DEF PasteImage
  <2> DEFINE x == << Item(Picture(p), d) >>  y == Rest(d, "img")  l == Live(d)
  <2>3. AllOther(x, d)
    BY PictureTyping, KeysNotTurning, OneTask
  <2>4. AllOther(y, d)
    BY <1>0, RestShape
  <2>5. AllScroll(l)
    BY LiveShape
  <2>6. todo' = (l \o x) \o y
    BY <2>1
  <2> HIDE DEF x, y
  <2>7. AllOther(x \o y, d)
    BY <2>3, <2>4, MoreOthers
  <2>8. (l \o x) \o y = l \o (x \o y)
    BY <2>3, <2>4, <2>5, RegroupTasks DEF AllOther, AllScroll
  <2>9. Shaped(Live(d) \o (x \o y), FALSE, pk')
    BY <2>2, <2>7, ShapeLive
  <2>10. pk' \in BOOLEAN /\ (pk' => pk)
    BY <2>2
  <2> QED BY <2>2, <2>6, <2>8, <2>9, <2>10 DEF Knows
<1>7. CASE Type(d)
  <2>1. nav = FALSE /\ nav' = FALSE /\ pk' = (pk /\ ~Resets(d)) /\ todo' = Live(d) \o << Item(Keys(d), d) >>
    BY <1>7 DEF Type
  <2>2. AllOther(<< Item(Keys(d), d) >>, d)
    BY <1>0, KeysTyping, KeysNotTurning, OneTask
  <2>3. Shaped(todo', FALSE, pk')
    BY <2>1, <2>2, ShapeLive
  <2>4. pk' \in BOOLEAN /\ (pk' => pk)
    BY <2>1
  <2> QED BY <2>1, <2>3, <2>4 DEF Knows
<1> QED BY <1>1, <1>2, <1>3, <1>4, <1>5, <1>6, <1>7

-----------------------------------------------------------------------------
(***************************************************************************)
(* Types.                                                                  *)
(***************************************************************************)
TypeInv == TypeOK /\ LowView(view) /\ todo \in Seq(Tasks) /\ Knows(cfg, pk)

LEMMA ItemSpoken ==
  ASSUME NEW it \in Items
  PROVE  Spoken(Bytes(it), Effects(it)) /\ Bytes(it) \in Seq(Byte)
<1>1. Spoken(Bytes(it), Effects(it))
  BY TypingSpoken, ScrollSpoken, ImageSpoken, ResizeSpoken DEF Items
<1> QED BY <1>1 DEF Spoken

LEMMA WebBytes ==
  ASSUME NEW it \in Web
  PROVE  Bytes(it) \in Seq(Byte)
<1>1. it.kind = "image" /\ it.data \in Seq(Byte) /\ IsHead(HeadBytes(it.len), it.len)
  BY TakenIs, HeadIs
<1>2. HeadBytes(it.len) \in Seq(Byte)
  BY <1>1 DEF IsHead
<1>3. HeadBytes(it.len) \o it.data \in Seq(Byte)
  BY <1>1, <1>2
<1> QED BY <1>1, <1>3, ImageBytes

LEMMA SendTypes ==
  ASSUME wire \in Seq(Byte), astray \in BOOLEAN, NEW it \in Items \cup Web, NEW v, Send(it, v)
  PROVE  wire' \in Seq(Byte) /\ astray' \in BOOLEAN
<1>1. Bytes(it) \in Seq(Byte)
  BY ItemSpoken, WebBytes
<1>2. wire' = wire \o Bytes(it) /\ astray' = (astray \/ Misleads(it))
  BY DEF Send
<1>3. astray' \in BOOLEAN
  <2> HIDE DEF Misleads
  <2>1. (astray \/ Misleads(it)) \in BOOLEAN
    OBVIOUS
  <2> QED BY <1>2, <2>1
<1> QED BY <1>1, <1>2, <1>3

LEMMA ConnKept ==
  ASSUME ParseTypeOK, wire' \in Seq(Byte), astray' \in BOOLEAN, UNCHANGED <<buf, parsing, viewVars>>
  PROVE  ParseTypeOK'
<1>1. wire' \in Seq(0 .. 255)
  BY DEF Byte
<1> QED BY <1>1 DEF ParseTypeOK, viewVars, HasMagic, Head2

LEMMA TypeInit == Init => TypeInv
<1> SUFFICES ASSUME Init PROVE TypeInv
  OBVIOUS
<1>0. /\ HistMax \in Nat /\ ScreenRows \in Nat /\ HistMax + ScreenRows <= 32767
      /\ MaxInputs \in Nat /\ MaxResizes \in Nat
  BY ClientInputAssumption, SocketClientAssumption
<1>1. size \in Sizes /\ wire = Bytes(ResizeTo(size)) /\ buf = <<>> /\ parsing = FALSE /\ astray = FALSE
  BY DEF Init
<1>2. wire \in Seq(Byte)
  BY <1>1, ResizeTyping, ItemSpoken DEF Items
<1>3. NewView \in View
  BY DEF NewView, View
<1>4. view \in View /\ view.lastMaxOy <= ScreenRows /\ view.follow
  <2>1. view = Rendered(NewView, ScreenRows, ScreenRows) /\ NewView.follow
    BY DEF Init, NewView
  <2> QED BY <1>0, <1>3, <2>1, RenderedProps
<1>5. ParseTypeOK
  <2>1. wire \in Seq(0 .. 255) /\ buf \in Seq(0 .. 255)
    BY <1>1, <1>2 DEF Byte
  <2>2. hist = 0 /\ rows = ScreenRows
    BY DEF Init
  <2>3. hist \in 0 .. HistMax /\ rows \in Nat
    BY <1>0, <2>2
  <2> QED BY <1>1, <1>4, <2>1, <2>3 DEF ParseTypeOK
<1>6. TypeOK
  <2>1. /\ cfg \in Settings /\ nav = FALSE /\ pk = FALSE /\ watching = FALSE /\ winch = FALSE
        /\ unseen = FALSE /\ taken = 0 /\ inputs = 0 /\ resizes = 0
    BY DEF Init
  <2>2. inputs \in 0 .. MaxInputs /\ resizes \in 0 .. MaxResizes
    BY <1>0, <2>1
  <2> QED BY <1>1, <1>5, <2>1, <2>2 DEF TypeOK
<1>7. LowView(view)
  <2>1. view.lastMaxOy \in Nat
    BY <1>4 DEF View
  <2> QED BY <1>0, <1>4, <2>1 DEF LowView
<1>8. todo \in Seq(Tasks) /\ Knows(cfg, pk)
  BY NoTasks DEF Init, Knows
<1> QED BY <1>6, <1>7, <1>8 DEF TypeInv

\* The parts of TypeOK that are not the parser's.
ClientTypes == /\ cfg \in Settings /\ nav \in BOOLEAN /\ pk \in BOOLEAN
         /\ inputs \in 0 .. MaxInputs /\ todo \in Seq(Tasks) /\ Knows(cfg, pk)
SizeTypes == /\ watching \in BOOLEAN /\ winch \in BOOLEAN /\ unseen \in BOOLEAN
         /\ size \in Sizes /\ taken \in Sizes \cup {0} /\ resizes \in 0 .. MaxResizes

LEMMA TypeParts == TypeInv <=> ParseTypeOK /\ LowView(view) /\ ClientTypes /\ SizeTypes
  BY DEF TypeInv, TypeOK, ClientTypes, SizeTypes

LEMMA ParseTypes ==
  ASSUME ParseTypeOK, LowView(view), Parse
  PROVE  ParseTypeOK' /\ LowView(view)'
<1>1. buf \in Seq(Byte) /\ wire \in Seq(Byte) /\ ViewTypes
  BY DEF ParseTypeOK, Byte, ViewTypes
<1>2. TurnTypes
  BY <1>1, TurnType
<1>3. /\ buf' = SubSeq(buf, Turn.len + 1, Len(buf)) /\ Show(Turn.do) /\ parsing' = ~Turn.return
      /\ wire' = wire /\ hist' = hist /\ astray' = (astray \/ HalfMagic)
  BY DEF Parse
<1>4. rows' \in Nat /\ view' \in View /\ LowView(view')
  BY <1>1, <1>2, <1>3, ShowStep DEF TurnTypes
<1>5. Turn.len \in 0 .. Len(buf) /\ Turn.return \in BOOLEAN /\ Len(buf) \in Nat
  BY <1>1, <1>2 DEF TurnTypes
<1>6. buf' \in Seq(Byte) /\ Len(buf') = Len(buf) - Turn.len
  <2> DEFINE n == Turn.len
  <2>1. n \in 0 .. Len(buf) /\ buf' = SubSeq(buf, n + 1, Len(buf)) /\ buf \in Seq(Byte)
    BY <1>1, <1>3, <1>5
  <2> HIDE DEF n
  <2>2. buf' \in Seq(Byte) /\ Len(buf') = Len(buf) - n
    BY ONLY <2>1, FrontAndBack
  <2> QED BY <2>2 DEF n
<1>7. ~parsing' /\ buf' # <<>> => HasMagic'
  <2> SUFFICES ASSUME ~parsing', buf' # <<>> PROVE HasMagic'
    OBVIOUS
  <2>1. Turn.len = Len(buf) \/ (Turn.len = 0 /\ HasMagic)
    BY <1>2, <1>3 DEF TurnTypes
  <2>2. Turn.len # Len(buf)
    <3>1. Len(buf') # 0
      BY <1>6
    <3> QED BY <1>5, <1>6, <3>1
  <2>3. buf' = buf
    <3>1. Turn.len + 1 = 1
      BY <2>1, <2>2
    <3>2. SubSeq(buf, 1, Len(buf)) = buf
      BY <1>1
    <3> QED BY <1>3, <3>1, <3>2
  <2> QED BY <2>1, <2>2, <2>3 DEF HasMagic, Magic, Head2
<1>8. parsing' \in BOOLEAN /\ astray' \in BOOLEAN
  <2> HIDE DEF HalfMagic
  <2>1. (~Turn.return) \in BOOLEAN
    OBVIOUS
  <2>2. (astray \/ HalfMagic) \in BOOLEAN
    BY Zenon
  <2> QED BY <1>3, <2>1, <2>2, Zenon
<1>9. wire' \in Seq(0 .. 255) /\ buf' \in Seq(0 .. 255)
  BY <1>1, <1>3, <1>6 DEF Byte
<1> QED BY <1>1, <1>3, <1>4, <1>7, <1>8, <1>9 DEF ParseTypeOK

LEMMA ReadTypes ==
  ASSUME ParseTypeOK, LowView(view), NEW n \in 1 .. Len(wire), Read(n)
  PROVE  ParseTypeOK' /\ LowView(view)'
<1>1. buf \in Seq(Byte) /\ wire \in Seq(Byte) /\ n \in 0 .. Len(wire)
  BY DEF ParseTypeOK, Byte
<1>2. /\ buf' = buf \o SubSeq(wire, 1, n) /\ wire' = SubSeq(wire, n + 1, Len(wire))
      /\ parsing' = TRUE /\ hist' = hist /\ rows' = rows /\ view' = view /\ astray' = astray
  BY DEF Read, viewVars
<1>3. SubSeq(wire, 1, n) \in Seq(Byte) /\ SubSeq(wire, n + 1, Len(wire)) \in Seq(Byte)
  BY ONLY <1>1, FrontAndBack
<1>4. buf' \in Seq(Byte) /\ wire' \in Seq(Byte)
  BY <1>1, <1>2, <1>3
<1>5. buf' \in Seq(0 .. 255) /\ wire' \in Seq(0 .. 255)
  BY <1>4 DEF Byte
<1> QED BY <1>2, <1>5 DEF ParseTypeOK, LowView

LEMMA SumsLow == \A h, m, r \in Nat : h <= m => h + r \in Nat /\ h + r <= m + r
  OBVIOUS

LEMMA OutputTypes ==
  ASSUME ParseTypeOK, LowView(view), Output
  PROVE  ParseTypeOK' /\ LowView(view)' /\ (view.follow => view'.follow)
<1>1. /\ HistMax \in Nat /\ ScreenRows \in Nat /\ hist \in 0 .. HistMax /\ rows \in Nat /\ view \in View
  BY ClientInputAssumption DEF ParseTypeOK
<1>2. /\ hist' \in 0 .. HistMax /\ view' = Rendered(view, hist' + ScreenRows, rows)
      /\ wire' = wire /\ buf' = buf /\ parsing' = parsing /\ rows' = rows /\ astray' = astray
  BY <1>1 DEF Output
<1> DEFINE total == hist' + ScreenRows
<1>3. total \in Nat /\ total <= HistMax + ScreenRows
  <2>1. hist' \in Nat /\ hist' <= HistMax
    BY <1>1, <1>2
  <2> QED BY <1>1, <2>1, SumsLow
<1>4. view' = Rendered(view, total, rows)
  BY <1>2
<1> HIDE DEF total
<1>5. view' \in View /\ view'.lastMaxOy <= total /\ (view.follow => view'.follow)
  BY <1>1, <1>3, <1>4, RenderedProps
<1>6. LowView(view')
  <2>1. view'.lastMaxOy \in Nat
    BY <1>5 DEF View
  <2> QED BY <1>1, <1>3, <1>5, <2>1 DEF LowView
<1>7. ParseTypeOK'
  BY <1>2, <1>5 DEF ParseTypeOK, HasMagic, Head2
<1> QED BY <1>5, <1>6, <1>7

LEMMA ClientKept == ASSUME ClientTypes, UNCHANGED keyVars PROVE ClientTypes'
  BY DEF ClientTypes, keyVars

LEMMA SizeKept == ASSUME SizeTypes, UNCHANGED sizeVars PROVE SizeTypes'
  BY DEF SizeTypes, sizeVars

LEMMA ViewKept == ASSUME LowView(view), UNCHANGED viewVars PROVE LowView(view)'
  BY DEF LowView, viewVars

LEMMA StepCases ==
  ASSUME [Next]_vars
  PROVE  \/ Parse /\ UNCHANGED <<keyVars, sizeVars>>
         \/ (\E n \in 1 .. Len(wire) : Read(n)) /\ UNCHANGED <<keyVars, sizeVars>>
         \/ Output /\ UNCHANGED <<keyVars, sizeVars>>
         \/ \E d \in Reads : ProcessStdin(d)
         \/ WriteNext \/ WebClient \/ SizeChanges \/ watchResize \/ GetSize \/ WriteSize
         \/ UNCHANGED vars
  BY DEF Next, Server, Terminal

LEMMA HeadTask ==
  ASSUME NEW q \in Seq(Tasks), q # <<>>
  PROVE  /\ Head(q) \in Tasks /\ Tail(q) \in Seq(Tasks) /\ Len(q) \in Nat \ {0}
         /\ Head(q) = q[1] /\ Len(Tail(q)) = Len(q) - 1
         /\ \A i \in 1 .. Len(q) - 1 : Tail(q)[i] = q[i + 1]
         /\ Head(q).it \in Typing \cup Turning \cup Pasting /\ Head(q).typed \in BOOLEAN
<1>1. /\ Head(q) \in Tasks /\ Tail(q) \in Seq(Tasks) /\ Len(q) \in Nat \ {0}
      /\ Head(q) = q[1] /\ Len(Tail(q)) = Len(q) - 1
      /\ \A i \in 1 .. Len(q) - 1 : Tail(q)[i] = q[i + 1]
  OBVIOUS
<1>2. Head(q).it \in Typing \cup Turning \cup Pasting /\ Head(q).typed \in BOOLEAN
  BY <1>1 DEF Tasks
<1> QED BY <1>1, <1>2

LEMMA ShapedTasks ==
  ASSUME NEW q, NEW n2, NEW p2, Shaped(q, n2, p2)
  PROVE  q \in Seq(Tasks)
<1>1. PICK p \in Seq(Tasks), z \in Seq(Tasks) : q = p \o z
  BY DEF Shaped, Ordered
<1> QED BY <1>1

LEMMA TypeStep == TypeInv /\ [Next]_vars => TypeInv'
<1> SUFFICES ASSUME TypeInv, [Next]_vars PROVE TypeInv'
  OBVIOUS
<1>0. /\ ParseTypeOK /\ LowView(view) /\ ClientTypes /\ SizeTypes
      /\ wire \in Seq(Byte) /\ astray \in BOOLEAN
  BY TypeParts DEF ParseTypeOK, Byte
<1>q. ParseTypeOK' /\ LowView(view)' /\ ClientTypes' /\ SizeTypes' => TypeInv'
  BY DEF TypeInv, TypeOK, ClientTypes, SizeTypes
<1>1. CASE Parse /\ UNCHANGED <<keyVars, sizeVars>>
  BY <1>0, <1>1, <1>q, ParseTypes, ClientKept, SizeKept
<1>2. CASE (\E n \in 1 .. Len(wire) : Read(n)) /\ UNCHANGED <<keyVars, sizeVars>>
  BY <1>0, <1>2, <1>q, ReadTypes, ClientKept, SizeKept
<1>3. CASE Output /\ UNCHANGED <<keyVars, sizeVars>>
  BY <1>0, <1>3, <1>q, OutputTypes, ClientKept, SizeKept
<1>4. ASSUME NEW d \in Reads, ProcessStdin(d) PROVE TypeInv'
  <2>1. /\ UNCHANGED viewVars /\ UNCHANGED <<buf, parsing>> /\ wire' = wire /\ UNCHANGED sizeVars
        /\ cfg' = cfg /\ todo = <<>> /\ inputs < MaxInputs /\ inputs' = inputs + 1
        /\ astray' = astray
    BY <1>4 DEF ProcessStdin, connVars
  <2>2. \/ WheelScroll(d) \/ PageKeyScroll(d) \/ NavOn(d) \/ NavOff(d) \/ NavKeys(d)
        \/ PasteImage(d) \/ Type(d)
    BY <1>4 DEF ProcessStdin
  <2>3. nav' \in BOOLEAN /\ pk' \in BOOLEAN /\ Knows(cfg, pk') /\ todo' \in Seq(Tasks)
    BY <1>0, <2>1, <2>2, StdinShape, ShapedTasks DEF ClientTypes
  <2>4. inputs' \in 0 .. MaxInputs
    BY <1>0, <2>1, SocketClientAssumption DEF ClientTypes
  <2>5. ClientTypes'
    BY <1>0, <2>1, <2>3, <2>4 DEF ClientTypes
  <2> QED BY <1>0, <1>q, <2>1, <2>5, ConnKept, ViewKept, SizeKept
<1>5. CASE WriteNext
  <2>1. /\ UNCHANGED viewVars /\ UNCHANGED <<buf, parsing>> /\ UNCHANGED sizeVars
        /\ cfg' = cfg /\ nav' = nav /\ pk' = pk /\ inputs' = inputs
        /\ todo # <<>> /\ todo' = Tail(todo) /\ Send(Head(todo).it, Head(todo).typed)
    BY <1>5 DEF WriteNext
  <2>2. Head(todo).it \in Typing \cup Turning \cup Pasting /\ todo' \in Seq(Tasks)
    BY <1>0, <2>1, HeadTask DEF ClientTypes
  <2>3. wire' \in Seq(Byte) /\ astray' \in BOOLEAN
    <3>1. Head(todo).it \in Items
      BY <2>2, PastingTells DEF Items
    <3> QED BY <1>0, <2>1, <3>1, SendTypes
  <2>4. ClientTypes'
    BY <1>0, <2>1, <2>2 DEF ClientTypes
  <2> QED BY <1>0, <1>q, <2>1, <2>3, <2>4, ConnKept, ViewKept, SizeKept
<1>6. CASE WebClient
  <2>1. /\ UNCHANGED viewVars /\ UNCHANGED <<buf, parsing>> /\ UNCHANGED sizeVars
        /\ cfg' = cfg /\ nav' = nav /\ pk' = pk /\ todo' = todo
        /\ inputs < MaxInputs /\ inputs' = inputs + 1
    BY <1>6 DEF WebClient
  <2>2. PICK it \in WebItems : Send(it, FALSE)
    BY <1>6 DEF WebClient
  <2>3. wire' \in Seq(Byte) /\ astray' \in BOOLEAN
    BY <1>0, <2>2, SendTypes, WebTyping
  <2>4. inputs' \in 0 .. MaxInputs
    BY <1>0, <2>1, SocketClientAssumption DEF ClientTypes
  <2>5. ClientTypes'
    BY <1>0, <2>1, <2>4 DEF ClientTypes
  <2> QED BY <1>0, <1>q, <2>1, <2>3, <2>5, ConnKept, ViewKept, SizeKept
<1>7. CASE SizeChanges \/ watchResize \/ GetSize
  <2>1. /\ UNCHANGED viewVars /\ UNCHANGED <<buf, parsing>> /\ UNCHANGED keyVars /\ wire' = wire
        /\ astray' = astray
    BY <1>7 DEF SizeChanges, watchResize, GetSize, SizeFrame
  <2>2. SizeTypes'
    <3>1. CASE SizeChanges
      <4>1. /\ resizes < MaxResizes /\ resizes' = resizes + 1 /\ size' \in Sizes
            /\ winch' = watching /\ unseen' = (unseen \/ ~watching)
            /\ watching' = watching /\ taken' = taken
        BY <3>1 DEF SizeChanges
      <4>2. resizes' \in 0 .. MaxResizes
        BY <1>0, <4>1, SocketClientAssumption DEF SizeTypes
      <4> QED BY <1>0, <4>1, <4>2 DEF SizeTypes
    <3>2. CASE watchResize \/ GetSize
      BY <1>0, <3>2 DEF SizeTypes, watchResize, GetSize
    <3> QED BY <1>7, <3>1, <3>2
  <2> QED BY <1>0, <1>q, <2>1, <2>2, ConnKept, ViewKept, ClientKept
<1>8. CASE WriteSize
  <2>1. /\ UNCHANGED viewVars /\ UNCHANGED <<buf, parsing>> /\ UNCHANGED keyVars
        /\ taken # 0 /\ taken' = 0 /\ Send(ResizeTo(taken), FALSE)
        /\ UNCHANGED <<size, watching, winch, unseen, resizes>>
    BY <1>8 DEF WriteSize, SizeFrame
  <2>2. taken \in Sizes
    BY <1>0, <2>1 DEF SizeTypes
  <2>3. wire' \in Seq(Byte) /\ astray' \in BOOLEAN
    <3>1. ResizeTo(taken) \in Items
      BY <2>2, ResizeTyping DEF Items
    <3> QED BY <1>0, <2>1, <3>1, SendTypes
  <2>4. SizeTypes'
    BY <1>0, <2>1 DEF SizeTypes
  <2> QED BY <1>0, <1>q, <2>1, <2>3, <2>4, ConnKept, ViewKept, ClientKept
<1>9. CASE UNCHANGED vars
  <2>1. /\ UNCHANGED viewVars /\ UNCHANGED <<buf, parsing>> /\ UNCHANGED keyVars /\ UNCHANGED sizeVars
        /\ wire' = wire /\ astray' = astray
    BY <1>9 DEF vars, connVars
  <2> QED BY <1>0, <1>q, <2>1, ConnKept, ViewKept, ClientKept, SizeKept
<1> QED BY <1>1, <1>2, <1>3, <1>4, <1>5, <1>6, <1>7, <1>8, <1>9, StepCases

LEMMA Typed == Spec => []TypeInv
  BY TypeInit, TypeStep, PTL DEF Spec

\* Types, and the carry-over of the parser: what waits between two reads begins
\* with a magic (parseClientInput keeps nothing else back).
THEOREM SocketClientTypeOK == Spec => []TypeOK
<1>1. TypeInv => TypeOK
  BY DEF TypeInv
<1> QED BY <1>1, Typed, PTL

-----------------------------------------------------------------------------
(***************************************************************************)
(* What is on its way decides what will be shown, and at which height.     *)
(***************************************************************************)
\* Of the first n things asked for the last of w's kind is w; or there is none,
\* and b.
Latest(a, w, b, n) ==
  \/ \E j \in 1 .. n : a[j].do = w /\ \A k \in j + 1 .. n : a[k].do[1] # w[1]
  \/ b /\ \A k \in 1 .. n : a[k].do[1] # w[1]

\* y is done, and b becomes b2.
Doing(a, y) ==
  /\ y \in Seq(Effect) /\ TurnKinds(y) /\ Len(y) \in 0 .. Len(a)
  /\ \A i \in 1 .. Len(y) : y[i] = a[i].do
Becomes(y, w, b, b2) ==
  /\ w[1] \in {"scroll", "resize"}
  /\ (\A i \in DOMAIN y : y[i][1] # w[1]) => (b => b2)
  /\ y = <<w>> => b2

LEMMA LatestParse ==
  ASSUME NEW a \in Seq(Entries), NEW y, Doing(a, y), NEW w, NEW b, NEW b2, Becomes(y, w, b, b2),
         NEW n \in Len(y) .. Len(a), Latest(a, w, b, n)
  PROVE  Latest(After(a, Len(y)), w, b2, n - Len(y))
<1>a. /\ y \in Seq(Effect) /\ TurnKinds(y) /\ Len(y) \in 0 .. Len(a)
      /\ \A i \in 1 .. Len(y) : y[i] = a[i].do
      /\ w[1] \in {"scroll", "resize"}
      /\ (\A i \in DOMAIN y : y[i][1] # w[1]) => (b => b2)
      /\ y = <<w>> => b2
  BY DEF Doing, Becomes
<1> DEFINE m == Len(y)  c == After(a, m)
<1>1. /\ c \in Seq(Entries) /\ Len(c) = Len(a) - m /\ Len(a) \in Nat
      /\ \A i \in 1 .. Len(a) - m : c[i] = a[m + i]
  BY <1>a, AfterProps
<1>2. m \in Nat /\ DOMAIN y = 1 .. m /\ n \in Nat /\ m <= n /\ n <= Len(a) /\ n - m \in Nat
  BY <1>1, <1>a DEF TurnKinds
<1>3. \A i \in 1 .. n - m : c[i] = a[m + i]
  BY <1>1, <1>2
<1> HIDE DEF c
<1>4. CASE b /\ \A k \in 1 .. n : a[k].do[1] # w[1]
  <2>1. \A i \in DOMAIN y : y[i][1] # w[1]
    BY <1>2, <1>4, <1>a
  <2>2. \A k \in 1 .. n - m : c[k].do[1] # w[1]
    <3> SUFFICES ASSUME NEW k \in 1 .. n - m PROVE c[k].do[1] # w[1]
      OBVIOUS
    <3>1. m + k \in 1 .. n /\ c[k] = a[m + k]
      BY <1>2, <1>3
    <3> QED BY <1>4, <3>1
  <2> QED BY <1>4, <1>a, <2>1, <2>2 DEF Latest, c
<1>5. ASSUME NEW j \in 1 .. n, a[j].do = w, \A k \in j + 1 .. n : a[k].do[1] # w[1]
      PROVE  Latest(c, w, b2, n - m)
  <2>1. CASE j <= m
    <3>1. j \in 1 .. m /\ y[j] = w
      BY <1>2, <1>5, <1>a, <2>1
    <3>2. m = 1 /\ j = 1
      <4>1. ~(\A i \in DOMAIN y : y[i][1] = "forward")
        BY <1>2, <1>a, <3>1
      <4>2. m = 1
        BY <1>a, <4>1 DEF TurnKinds
      <4> QED BY <3>1, <4>2
    <3>3. y = <<w>>
      BY <1>2, <1>a, <3>1, <3>2
    <3>4. \A k \in 1 .. n - m : c[k].do[1] # w[1]
      <4> SUFFICES ASSUME NEW k \in 1 .. n - m PROVE c[k].do[1] # w[1]
        OBVIOUS
      <4>1. m + k \in j + 1 .. n /\ c[k] = a[m + k]
        BY <1>2, <1>3, <3>2
      <4> QED BY <1>5, <4>1
    <3> QED BY <1>a, <3>3, <3>4 DEF Latest
  <2>2. CASE j > m
    <3>1. j - m \in 1 .. n - m /\ m + (j - m) = j
      BY <1>2, <2>2
    <3>2. c[j - m].do = w
      BY <1>3, <1>5, <3>1
    <3>3. \A k \in (j - m) + 1 .. n - m : c[k].do[1] # w[1]
      <4> SUFFICES ASSUME NEW k \in (j - m) + 1 .. n - m PROVE c[k].do[1] # w[1]
        OBVIOUS
      <4>1. m + k \in j + 1 .. n /\ k \in 1 .. n - m
        BY <1>2, <3>1
      <4>2. c[k] = a[m + k]
        BY <1>3, <4>1
      <4> QED BY <1>5, <4>1, <4>2
    <3> QED BY <3>1, <3>2, <3>3 DEF Latest
  <2>3. j <= m \/ j > m
    BY <1>2
  <2> QED BY <2>1, <2>2, <2>3
<1> QED BY <1>4, <1>5 DEF Latest, c

\* More is asked for.
LEMMA LatestSame ==
  ASSUME NEW a \in Seq(Entries), NEW z \in Seq(Entries), NEW w, NEW b, NEW n \in 0 .. Len(a),
         Latest(a, w, b, n)
  PROVE  Latest(a \o z, w, b, n)
<1> DEFINE c == a \o z
<1>1. Len(a) \in Nat /\ \A i \in 1 .. Len(a) : c[i] = a[i]
  BY JoinedEntries
<1>2. \A i \in 1 .. n : c[i] = a[i]
  BY <1>1
<1> HIDE DEF c
<1>3. CASE b /\ \A k \in 1 .. n : a[k].do[1] # w[1]
  <2>1. \A k \in 1 .. n : c[k].do[1] # w[1]
    BY <1>2, <1>3
  <2> QED BY <1>3, <2>1 DEF Latest, c
<1>4. ASSUME NEW j \in 1 .. n, a[j].do = w, \A k \in j + 1 .. n : a[k].do[1] # w[1]
      PROVE  Latest(c, w, b, n)
  <2>1. c[j].do = w
    BY <1>2, <1>4
  <2>2. \A k \in j + 1 .. n : k \in 1 .. n
    BY <1>1
  <2>3. \A k \in j + 1 .. n : c[k].do[1] # w[1]
    BY <1>2, <1>4, <2>2
  <2> QED BY <2>1, <2>3 DEF Latest
<1> QED BY <1>3, <1>4 DEF Latest, c

LEMMA LatestOther ==
  ASSUME NEW a \in Seq(Entries), NEW z \in Seq(Entries), NEW w, NEW b, NEW m \in 0 .. Len(z),
         \A i \in 1 .. Len(z) : z[i].do[1] # w[1], Latest(a, w, b, Len(a))
  PROVE  Latest(a \o z, w, b, Len(a) + m)
<1> DEFINE c == a \o z  n == Len(a)
<1>1. /\ n \in Nat /\ Len(z) \in Nat /\ m \in Nat /\ m <= Len(z)
      /\ \A i \in 1 .. n : c[i] = a[i]
      /\ \A i \in 1 .. Len(z) : c[n + i] = z[i]
  BY JoinedEntries
<1>2. Latest(a, w, b, n)
  OBVIOUS
<1> HIDE DEF c, n
<1>3. ASSUME NEW k \in n + 1 .. n + m PROVE c[k].do[1] # w[1]
  <2> DEFINE i == k - n
  <2>1. i \in 1 .. Len(z) /\ n + i = k
    BY <1>1
  <2> HIDE DEF i
  <2>2. c[k] = z[i] /\ z[i].do[1] # w[1]
    BY <1>1, <2>1
  <2> QED BY <2>2, Zenon
<1>4. CASE b /\ \A k \in 1 .. n : a[k].do[1] # w[1]
  <2>1. \A k \in 1 .. n + m : k \in 1 .. n \/ k \in n + 1 .. n + m
    BY <1>1
  <2>2. \A k \in 1 .. n + m : c[k].do[1] # w[1]
    BY <1>1, <1>3, <1>4, <2>1
  <2> QED BY <1>4, <2>2 DEF Latest, c, n
<1>5. ASSUME NEW j \in 1 .. n, a[j].do = w, \A k \in j + 1 .. n : a[k].do[1] # w[1]
      PROVE  Latest(c, w, b, n + m)
  <2>1. c[j].do = w /\ j \in 1 .. n + m
    BY <1>1, <1>5
  <2>2. \A k \in j + 1 .. n + m : (k \in j + 1 .. n /\ k \in 1 .. n) \/ k \in n + 1 .. n + m
    BY <1>1
  <2>3. \A k \in j + 1 .. n + m : c[k].do[1] # w[1]
    BY <1>1, <1>3, <1>5, <2>2
  <2> QED BY <2>1, <2>3 DEF Latest
<1> QED BY <1>2, <1>4, <1>5 DEF Latest, c, n

LEMMA LatestNew ==
  ASSUME NEW a \in Seq(Entries), NEW z \in Seq(Entries), NEW w, NEW b, Len(z) = 1, z[1].do = w
  PROVE  Latest(a \o z, w, b, Len(a) + 1)
<1> DEFINE c == a \o z  n == Len(a)
<1>1. n \in Nat /\ \A i \in 1 .. Len(z) : c[n + i] = z[i]
  BY JoinedEntries
<1> HIDE DEF c, n
<1>2. c[n + 1] = z[1] /\ n + 1 \in 1 .. n + 1
  <2>1. 1 \in 1 .. Len(z)
    OBVIOUS
  <2> QED BY <1>1, <2>1
<1>3. \A k \in (n + 1) + 1 .. n + 1 : FALSE
  BY <1>1
<1> QED BY <1>2, <1>3 DEF Latest, c, n

LEMMA LatestMore ==
  ASSUME NEW a, NEW w, NEW b, NEW b2, b => b2, NEW n, Latest(a, w, b, n)
  PROVE  Latest(a, w, b2, n)
  BY DEF Latest

\* The same of what is still to be written: l is what holds when it is.
ThenLive(l, q, n) ==
  \/ \E j \in 1 .. n : q[j].it = Follow /\ \A k \in j + 1 .. n : q[k].it.kind # "scroll"
  \/ l /\ \A k \in 1 .. n : q[k].it.kind # "scroll"

LEMMA ThenNow == ASSUME NEW l, NEW q PROVE ThenLive(l, q, 0) <=> l
<1>1. 1 .. 0 = {}
  OBVIOUS
<1> QED BY <1>1, Zenon DEF ThenLive

LEMMA ThenMore ==
  ASSUME NEW l, NEW l2, l => l2, NEW q, NEW n, ThenLive(l, q, n)
  PROVE  ThenLive(l2, q, n)
  BY DEF ThenLive

\* One of them is written.
LEMMA ThenTail ==
  ASSUME NEW q \in Seq(Tasks), q # <<>>, NEW l, NEW l2, NEW n \in 0 .. Len(q) - 1,
         q[1].it = Follow => l2, q[1].it.kind # "scroll" /\ l => l2,
         ThenLive(l, q, n + 1)
  PROVE  ThenLive(l2, Tail(q), n)
<1> DEFINE t == Tail(q)
<1>1. Len(q) \in Nat \ {0} /\ \A i \in 1 .. Len(q) - 1 : t[i] = q[i + 1]
  BY HeadTask
<1>2. n \in Nat /\ \A i \in 1 .. n : i + 1 \in 1 .. n + 1 /\ t[i] = q[i + 1]
  BY <1>1
<1> HIDE DEF t
<1>3. CASE l /\ \A k \in 1 .. n + 1 : q[k].it.kind # "scroll"
  <2>1. l2
    <3>1. 1 \in 1 .. n + 1
      BY <1>2
    <3> QED BY <1>3, <3>1
  <2>2. \A k \in 1 .. n : t[k].it.kind # "scroll"
    BY <1>2, <1>3
  <2> QED BY <2>1, <2>2 DEF ThenLive, t
<1>4. ASSUME NEW j \in 1 .. n + 1, q[j].it = Follow, \A k \in j + 1 .. n + 1 : q[k].it.kind # "scroll"
      PROVE  ThenLive(l2, t, n)
  <2>1. CASE j = 1
    <3>1. \A k \in 1 .. n : k + 1 \in j + 1 .. n + 1
      BY <1>2, <2>1
    <3>2. \A k \in 1 .. n : t[k].it.kind # "scroll"
      BY <1>2, <1>4, <3>1
    <3> QED BY <1>4, <2>1, <3>2 DEF ThenLive
  <2>2. CASE j # 1
    <3> DEFINE i == j - 1
    <3>1. i \in 1 .. n /\ i + 1 = j
      BY <1>2, <2>2
    <3> HIDE DEF i
    <3>2. t[i].it = Follow
      BY <1>2, <1>4, <3>1
    <3>3. \A k \in i + 1 .. n : k \in 1 .. n /\ k + 1 \in j + 1 .. n + 1
      BY <1>2, <3>1
    <3>4. \A k \in i + 1 .. n : t[k].it.kind # "scroll"
      BY <1>2, <1>4, <3>3
    <3> QED BY <3>1, <3>2, <3>4 DEF ThenLive
  <2> QED BY <2>1, <2>2
<1> QED BY <1>3, <1>4 DEF ThenLive, t

LEMMA JoinedTasks ==
  ASSUME NEW a \in Seq(Tasks), NEW b \in Seq(Tasks)
  PROVE  /\ a \o b \in Seq(Tasks) /\ Len(a \o b) = Len(a) + Len(b)
         /\ Len(a) \in Nat /\ Len(b) \in Nat
         /\ \A i \in 1 .. Len(a) : (a \o b)[i] = a[i]
         /\ \A i \in 1 .. Len(b) : (a \o b)[Len(a) + i] = b[i]
  OBVIOUS

\* Scrolls, the last of them back to the live view, and then no more.
LEMMA ThenShaped ==
  ASSUME NEW p, NEW z, p \in Seq(Tasks), z \in Seq(Tasks), NoScroll(z),
         NEW l, IF p = <<>> THEN l ELSE p[Len(p)].it = Follow,
         NEW n \in 0 .. Len(z)
  PROVE  ThenLive(l, p \o z, Len(p) + n)
<1> DEFINE c == p \o z  m == Len(p)
<1>1. /\ m \in Nat /\ Len(z) \in Nat /\ n \in Nat /\ n <= Len(z)
      /\ \A i \in 1 .. m : c[i] = p[i]
      /\ \A i \in 1 .. Len(z) : c[m + i] = z[i]
  BY JoinedTasks
<1>2. (p = <<>> <=> m = 0) /\ p[m] = p[Len(p)]
  OBVIOUS
<1> HIDE DEF c, m
<1>3. ASSUME NEW k \in m + 1 .. m + n PROVE c[k].it.kind # "scroll"
  <2> DEFINE i == k - m
  <2>1. i \in 1 .. Len(z) /\ m + i = k
    BY <1>1
  <2> HIDE DEF i
  <2>2. c[k] = z[i] /\ z[i].it.kind # "scroll"
    BY <1>1, <2>1 DEF NoScroll
  <2> QED BY <2>2, Zenon
<1>4. CASE p = <<>>
  <2>1. m = 0 /\ m + n = n
    BY <1>1, <1>2, <1>4
  <2>2. \A k \in 1 .. m + n : c[k].it.kind # "scroll"
    BY <1>3, <2>1
  <2> QED BY <1>4, <2>2 DEF ThenLive, c, m
<1>5. CASE p # <<>>
  <2>1. m \in 1 .. m /\ m \in 1 .. m + n
    BY <1>1, <1>2, <1>5
  <2>2. c[m].it = Follow
    BY <1>1, <1>2, <1>5, <2>1
  <2> QED BY <1>3, <2>1, <2>2 DEF ThenLive, c, m
<1> QED BY <1>4, <1>5

-----------------------------------------------------------------------------
(***************************************************************************)
(* The inductive invariant.                                                *)
(***************************************************************************)
LiveAfter(a, v, n) == Latest(a, <<"scroll", 32767>>, v.follow, n)

AskedLive(a, v) ==
  \A i \in 1 .. Len(a) : a[i].typed /\ a[i].do[1] = "forward" => LiveAfter(a, v, i - 1)
TodoLive(l, q) ==
  \A i \in 1 .. Len(q) : q[i].typed /\ q[i].it.kind = "keys" => ThenLive(l, q, i - 1)

\* Whatever is typed will find the live view, and so does whoever types next
\* while the client knows of no scrolling.
Ahead(a, v, q, n, p) ==
  /\ AskedLive(a, v) /\ TodoLive(LiveAfter(a, v, Len(a)), q)
  /\ ~n /\ ~p => ThenLive(LiveAfter(a, v, Len(a)), q, Len(q))

\* The height is on its way to the server.
SizeAhead(a, r, z) == Latest(a, <<"resize", z>>, r = z, Len(a))
Sized(a, r, z, w, t, u) == ~w /\ ~u => IF t = 0 THEN SizeAhead(a, r, z) ELSE t = z

StreamInv == asked \in Seq(Entries) /\ Streaming(buf, wire, asked, parsing)
AheadInv  == Ahead(asked, view, todo, nav, pk)
SizedInv  == Sized(asked, rows, size, winch, taken, unseen)

\* As long as the parser is in step with the items.
InStep   == TypeInv /\ StreamInv /\ AheadInv /\ SizedInv
InputInv == TypeInv /\ (astray \/ InStep)

\* What an item asks for, by its kind.
Asks(z, it, v) ==
  /\ z \in Seq(Entries)
  /\ it \in Typing => \A i \in 1 .. Len(z) : z[i].do[1] = "forward" /\ z[i].typed = v
  /\ it \in Turning => Len(z) = 1 /\ z[1].do = <<"scroll", it.dy>>
  /\ it \in Telling => \A i \in 1 .. Len(z) : z[i].do[1] \in {"image", "forward"} /\ z[i].typed = v
  /\ it \in Pasting => \A i \in 1 .. Len(z) : z[i].do[1] = "image"
  /\ it \in Resizing => Len(z) = 1 /\ z[1].do = <<"resize", it.rows>>

LEMMA AsksWhat ==
  ASSUME NEW it \in Items, NEW v \in BOOLEAN
  PROVE  Asks(Sent(Effects(it), v), it, v)
<1> DEFINE x == Effects(it)  z == Sent(x, v)
<1>1. x \in Seq(Effect)
  BY ItemSpoken DEF Spoken
<1>2. /\ z \in Seq(Entries) /\ Len(z) = Len(x) /\ Len(x) \in Nat /\ DOMAIN x = 1 .. Len(x)
      /\ \A i \in 1 .. Len(x) : z[i].do = x[i] /\ z[i].typed = v
  BY <1>1, SentProps
<1>3. /\ it \in Typing => \A i \in DOMAIN x : x[i][1] = "forward"
      /\ it \in Turning => x = << <<"scroll", it.dy>> >>
      /\ it \in Telling => \A i \in DOMAIN x : x[i][1] \in {"image", "forward"}
      /\ it \in Pasting => \A i \in DOMAIN x : x[i][1] = "image"
      /\ it \in Resizing => x = << <<"resize", it.rows>> >>
  BY TypingSpoken, ScrollSpoken, ImageSpoken, ResizeSpoken, PastingTells
<1> HIDE DEF x, z
<1>4. it \in Typing => \A i \in 1 .. Len(z) : z[i].do[1] = "forward" /\ z[i].typed = v
  BY <1>2, <1>3
<1>5. it \in Pasting => \A i \in 1 .. Len(z) : z[i].do[1] = "image"
  BY <1>2, <1>3
<1>7. it \in Telling => \A i \in 1 .. Len(z) : z[i].do[1] \in {"image", "forward"} /\ z[i].typed = v
  BY <1>2, <1>3
<1>6. ASSUME NEW e, x = <<e>> PROVE Len(z) = 1 /\ z[1].do = e
  <2>1. Len(x) = 1 /\ x[1] = e
    BY <1>6
  <2> QED BY <1>2, <2>1
<1> QED BY <1>2, <1>3, <1>4, <1>5, <1>6, <1>7 DEF Asks, z, x

LEMMA KindsApart ==
  ASSUME NEW it \in Items
  PROVE  /\ it.kind = "keys" <=> it \in Typing
         /\ it.kind = "scroll" <=> it \in Turning
         /\ it \notin Turning => it \in Typing \/ it \in Telling \/ it \in Resizing
         /\ it \in Resizing => it.kind = "resize"
<1>1. it \in Resizing => it.kind = "resize"
  BY DEF Resizing
<1>2. /\ it \in Typing => it.kind = "keys"
      /\ it \in Turning => it.kind = "scroll"
      /\ it \in Telling => it.kind = "image"
  BY Kinds
<1>3. it \in Typing \/ it \in Turning \/ it \in Telling \/ it \in Resizing
  BY DEF Items
<1> QED BY <1>1, <1>2, <1>3

LEMMA AsksLive ==
  ASSUME NEW a \in Seq(Entries), NEW v, NEW it \in Items, NEW z, NEW t \in BOOLEAN, Asks(z, it, t)
  PROVE  /\ it \notin Turning /\ LiveAfter(a, v, Len(a)) => LiveAfter(a \o z, v, Len(a \o z))
         /\ it = Follow => LiveAfter(a \o z, v, Len(a \o z))
<1> DEFINE w == <<"scroll", 32767>>
<1>1. w[1] = "scroll"
  OBVIOUS
<1>2. z \in Seq(Entries)
  BY DEF Asks
<1>3. Len(a \o z) = Len(a) + Len(z) /\ Len(z) \in 0 .. Len(z)
  BY <1>2
<1>4. ASSUME it \notin Turning, LiveAfter(a, v, Len(a)) PROVE LiveAfter(a \o z, v, Len(a) + Len(z))
  <2>1. it \in Typing \/ it \in Telling \/ it \in Resizing
    BY <1>4, KindsApart
  <2>2. \A i \in 1 .. Len(z) : z[i].do[1] # w[1]
    <3>1. CASE it \in Typing
      BY <1>1, <3>1 DEF Asks
    <3>2. CASE it \in Telling
      BY <1>1, <3>2 DEF Asks
    <3>3. CASE it \in Resizing
      <4>1. Len(z) = 1 /\ z[1].do[1] = "resize"
        BY <3>3 DEF Asks
      <4> QED BY <1>1, <4>1
    <3> QED BY <2>1, <3>1, <3>2, <3>3
  <2>3. Latest(a, w, v.follow, Len(a))
    BY <1>4 DEF LiveAfter
  <2> HIDE DEF w
  <2>4. Latest(a \o z, w, v.follow, Len(a) + Len(z))
    BY <1>2, <1>3, <2>2, <2>3, LatestOther
  <2> QED BY <2>4 DEF LiveAfter, w
<1>5. ASSUME it = Follow PROVE LiveAfter(a \o z, v, Len(a) + Len(z))
  <2>1. Len(z) = 1 /\ z[1].do = w
    BY <1>5, FollowIs DEF Asks
  <2> HIDE DEF w
  <2>2. Latest(a \o z, w, v.follow, Len(a) + 1)
    BY <1>2, <2>1, LatestNew
  <2> QED BY <2>1, <2>2 DEF LiveAfter, w
<1> QED BY <1>3, <1>4, <1>5

LEMMA AsksSize ==
  ASSUME NEW a \in Seq(Entries), NEW r, NEW s, NEW it \in Items, NEW z, NEW t \in BOOLEAN, Asks(z, it, t)
  PROVE  /\ it \notin Resizing /\ SizeAhead(a, r, s) => SizeAhead(a \o z, r, s)
         /\ it \in Resizing /\ it.rows = s => SizeAhead(a \o z, r, s)
<1> DEFINE w == <<"resize", s>>  b == r = s
<1>1. w[1] = "resize"
  OBVIOUS
<1>2. z \in Seq(Entries)
  BY DEF Asks
<1>3. Len(a \o z) = Len(a) + Len(z) /\ Len(z) \in 0 .. Len(z)
  BY <1>2
<1>4. ASSUME it \notin Resizing, SizeAhead(a, r, s) PROVE Latest(a \o z, w, b, Len(a) + Len(z))
  <2>2. \A i \in 1 .. Len(z) : z[i].do[1] # w[1]
    <3>1. CASE it \in Typing
      BY <1>1, <3>1 DEF Asks
    <3>2. CASE it \in Telling
      BY <1>1, <3>2 DEF Asks
    <3>3. CASE it \in Turning
      <4>1. Len(z) = 1 /\ z[1].do[1] = "scroll"
        BY <3>3 DEF Asks
      <4> QED BY <1>1, <4>1
    <3> QED BY <1>4, <3>1, <3>2, <3>3 DEF Items
  <2>3. Latest(a, w, b, Len(a))
    BY <1>4 DEF SizeAhead
  <2> HIDE DEF w, b
  <2> QED BY <1>2, <1>3, <2>2, <2>3, LatestOther
<1>5. ASSUME it \in Resizing, it.rows = s PROVE Latest(a \o z, w, b, Len(a) + Len(z))
  <2>1. Len(z) = 1 /\ z[1].do = w
    BY <1>5 DEF Asks
  <2> HIDE DEF w, b
  <2>2. Latest(a \o z, w, b, Len(a) + 1)
    BY <1>2, <2>1, LatestNew
  <2> QED BY <2>1, <2>2
<1> QED BY <1>3, <1>4, <1>5 DEF SizeAhead

LEMMA AsksTyped ==
  ASSUME NEW a \in Seq(Entries), NEW v, NEW it \in Items, NEW z, NEW t \in BOOLEAN, Asks(z, it, t),
         AskedLive(a, v), t /\ it \in Typing => LiveAfter(a, v, Len(a)),
         t /\ it \in Telling => it \in Pasting
  PROVE  AskedLive(a \o z, v)
<1> DEFINE c == a \o z  n == Len(a)  w == <<"scroll", 32767>>
<1>1. z \in Seq(Entries)
  BY DEF Asks
<1>2. /\ n \in Nat /\ Len(z) \in Nat /\ Len(c) = n + Len(z)
      /\ \A i \in 1 .. n : c[i] = a[i]
      /\ \A i \in 1 .. Len(z) : c[n + i] = z[i]
  BY <1>1, JoinedEntries
<1>3. ASSUME NEW k \in 0 .. n, LiveAfter(a, v, k) PROVE LiveAfter(c, v, k)
  <2>1. Latest(a, w, v.follow, k)
    BY <1>3 DEF LiveAfter
  <2> HIDE DEF w
  <2>2. Latest(a \o z, w, v.follow, k)
    BY <1>1, <1>3, <2>1, LatestSame
  <2> QED BY <2>2 DEF LiveAfter, w
<1>4. ASSUME NEW m \in 0 .. Len(z), it \in Typing, t PROVE LiveAfter(c, v, n + m)
  <2>1. \A i \in 1 .. Len(z) : z[i].do[1] # w[1]
    <3>1. \A i \in 1 .. Len(z) : z[i].do[1] = "forward"
      BY <1>4 DEF Asks
    <3>2. w[1] = "scroll"
      OBVIOUS
    <3> HIDE DEF w
    <3> QED BY <3>1, <3>2
  <2>2. Latest(a, w, v.follow, Len(a))
    BY <1>4 DEF LiveAfter
  <2> HIDE DEF w
  <2>3. Latest(a \o z, w, v.follow, Len(a) + m)
    BY <1>1, <2>1, <2>2, LatestOther
  <2> QED BY <2>3 DEF LiveAfter, w
<1>5. \A i \in 1 .. n : a[i].typed /\ a[i].do[1] = "forward" => LiveAfter(a, v, i - 1)
  BY DEF AskedLive
<1> HIDE DEF c, n
<1>6. ASSUME NEW i \in 1 .. Len(c), c[i].typed, c[i].do[1] = "forward" PROVE LiveAfter(c, v, i - 1)
  <2>1. CASE i \in 1 .. n
    <3>1. i - 1 \in 0 .. n /\ c[i] = a[i]
      BY <1>2, <2>1
    <3> QED BY <1>3, <1>5, <1>6, <2>1, <3>1
  <2>2. CASE i \notin 1 .. n
    <3> DEFINE m == i - n
    <3>1. m \in 1 .. Len(z) /\ n + m = i /\ m - 1 \in 0 .. Len(z) /\ n + (m - 1) = i - 1
      BY <1>2, <2>2
    <3> HIDE DEF m
    <3>2. c[i] = z[m]
      BY <1>2, <3>1
    <3>3. it \in Typing /\ t
      <4>1. it \in Typing
        <5>1. it \in Turning => Len(z) = 1 /\ z[1].do[1] = "scroll"
          BY DEF Asks
        <5>2. it \in Resizing => Len(z) = 1 /\ z[1].do[1] = "resize"
          BY DEF Asks
        <5>3. it \notin Telling
          <6> SUFFICES ASSUME it \in Telling PROVE FALSE
            OBVIOUS
          <6>1. z[m].typed = t
            BY <3>1 DEF Asks
          <6>2. it \in Pasting
            BY <1>6, <3>2, <6>1
          <6>3. z[m].do[1] = "image"
            BY <3>1, <6>2 DEF Asks
          <6> QED BY <1>6, <3>2, <6>3
        <5>4. Len(z) = 1 => m = 1
          BY <3>1
        <5>5. z[m].do[1] = "forward"
          BY <1>6, <3>2
        <5>6. it \notin Turning /\ it \notin Resizing /\ it \notin Telling
          BY <5>1, <5>2, <5>3, <5>4, <5>5
        <5> QED BY <5>6 DEF Items
      <4>2. z[m].typed = t
        BY <3>1, <4>1 DEF Asks
      <4> QED BY <1>6, <3>2, <4>1, <4>2
    <3>4. LiveAfter(c, v, n + (m - 1))
      BY <1>4, <3>1, <3>3
    <3> QED BY <3>1, <3>4
  <2> QED BY <2>1, <2>2
<1> QED BY <1>6 DEF AskedLive, c

-----------------------------------------------------------------------------
(***************************************************************************)
(* It holds at first.                                                      *)
(***************************************************************************)
LEMMA FirstFrame ==
  ASSUME NEW r \in Sizes, NEW a, a = << [do |-> <<"resize", r>>, typed |-> FALSE] >>
  PROVE  /\ a \in Seq(Entries) /\ Dos(a) = Effects(ResizeTo(r)) /\ Len(a) = 1
         /\ a[1].do = <<"resize", r>> /\ a[1].typed = FALSE
<1>1. r \in Int /\ ResizeTo(r) \in Resizing /\ ResizeTo(r).rows = r
  BY ResizeTyping
<1>2. Effects(ResizeTo(r)) = << <<"resize", r>> >>
  BY <1>1, ResizeSpoken
<1>3. <<"resize", r>> \in Effect
  BY <1>1 DEF Effect
<1> DEFINE e == [do |-> <<"resize", r>>, typed |-> FALSE]  w == <<"resize", r>>
<1>4. e \in Entries /\ e.do = w /\ e.typed = FALSE
  BY <1>3 DEF Entries
<1>5. a = <<e>> /\ w \in Effect
  BY <1>3
<1> HIDE DEF e, w
<1>6. a \in Seq(Entries) /\ Len(a) = 1 /\ a[1] = e
  BY ONLY <1>4, <1>5
<1>7. /\ Dos(a) \in Seq(Effect) /\ Len(Dos(a)) = 1 /\ Dos(a)[1] = w
  <2>1. /\ Dos(a) \in Seq(Effect) /\ Len(Dos(a)) = Len(a)
        /\ \A i \in 1 .. Len(a) : Dos(a)[i] = a[i].do
    BY <1>6, DosType
  <2>2. 1 \in 1 .. Len(a)
    BY <1>6
  <2> QED BY <1>4, <1>6, <2>1, <2>2
<1>8. Dos(a) = <<w>>
  <2>1. <<w>> \in Seq(Effect) /\ Len(<<w>>) = 1 /\ <<w>>[1] = w
    BY <1>5
  <2>2. \A i \in 1 .. 1 : Dos(a)[i] = <<w>>[i]
    BY <1>7, <2>1
  <2> QED BY <1>7, <2>1, <2>2, SeqEqual
<1> QED BY <1>2, <1>4, <1>6, <1>8 DEF w

LEMMA InputInit == Init => InputInv
<1> SUFFICES ASSUME Init PROVE InputInv
  OBVIOUS
<1>1. TypeInv
  BY TypeInit
<1>2. /\ size \in Sizes /\ wire = Bytes(ResizeTo(size)) /\ buf = <<>> /\ parsing = FALSE
      /\ asked = << [do |-> <<"resize", size>>, typed |-> FALSE] >>
      /\ todo = <<>> /\ taken = 0 /\ view = Rendered(NewView, ScreenRows, ScreenRows)
  BY DEF Init
<1>3. /\ asked \in Seq(Entries) /\ Dos(asked) = Effects(ResizeTo(size)) /\ Len(asked) = 1
      /\ asked[1].do = <<"resize", size>> /\ asked[1].typed = FALSE
  BY <1>2, FirstFrame
<1>4. StreamInv
  <2> DEFINE f == Effects(ResizeTo(size))
  <2>1. Spoken(wire, f) /\ f \in Seq(Effect)
    BY <1>2, ResizeTyping, ResizeSpoken DEF Spoken
  <2>2. Pending(<<>>, wire, f)
    BY <2>1 DEF Pending
  <2> HIDE DEF f
  <2>3. buf = <<>> \o <<>> /\ f = <<>> \o f /\ <<>> \in Seq(Byte) /\ <<>> \in Seq(Effect)
    BY <1>2, <2>1, ConcatEmptySeq
  <2>4. Dos(asked) = f
    BY <1>3 DEF f
  <2>5. Streaming(buf, wire, asked, parsing)
    BY <2>1, <2>2, <2>3, <2>4, SpokenEmpty DEF Streaming
  <2> QED BY <1>3, <2>5 DEF StreamInv
<1>5. view.follow
  <2>1. NewView \in View /\ NewView.follow /\ ScreenRows \in Nat
    BY ClientInputAssumption DEF NewView, View
  <2> QED BY <1>2, <2>1, RenderedProps
<1>6. LiveAfter(asked, view, Len(asked))
  <2>1. \A k \in 1 .. 1 : asked[k].do[1] # <<"scroll", 32767>>[1]
    BY <1>3
  <2> QED BY <1>3, <1>5, <2>1 DEF LiveAfter, Latest
<1>7. AheadInv
  <2>1. AskedLive(asked, view)
    BY <1>3 DEF AskedLive
  <2>2. Len(todo) = 0 /\ TodoLive(LiveAfter(asked, view, Len(asked)), todo)
    BY <1>2 DEF TodoLive
  <2>3. ThenLive(LiveAfter(asked, view, Len(asked)), todo, Len(todo))
    BY <1>6, <2>2, ThenNow
  <2> QED BY <2>1, <2>2, <2>3 DEF AheadInv, Ahead
<1>8. SizedInv
  <2>1. \A k \in 1 + 1 .. 1 : FALSE
    OBVIOUS
  <2>2. 1 \in 1 .. 1 /\ asked[1].do = <<"resize", size>>
    BY <1>3
  <2>3. SizeAhead(asked, rows, size)
    BY <1>3, <2>1, <2>2 DEF SizeAhead, Latest
  <2> QED BY <1>2, <2>3 DEF SizedInv, Sized
<1> QED BY <1>1, <1>4, <1>7, <1>8 DEF InputInv, InStep

-----------------------------------------------------------------------------
(***************************************************************************)
(* Every step keeps it.                                                    *)
(***************************************************************************)
LEMMA ParseStep ==
  ASSUME InStep, ~HalfMagic, Parse, UNCHANGED <<keyVars, sizeVars>>
  PROVE  StreamInv' /\ AheadInv' /\ SizedInv'
<1>0. /\ TypeInv /\ asked \in Seq(Entries) /\ Streaming(buf, wire, asked, parsing)
      /\ Ahead(asked, view, todo, nav, pk) /\ Sized(asked, rows, size, winch, taken, unseen)
  BY DEF InStep, StreamInv, AheadInv, SizedInv
<1>1. buf \in Seq(Byte) /\ wire \in Seq(Byte) /\ ViewTypes
  BY <1>0 DEF TypeInv, TypeOK, ParseTypeOK, Byte, ViewTypes
<1> DEFINE y == Turn.do  m == Len(y)  v == view  v2 == view'  a == asked  a2 == asked'
           u == <<"scroll", 32767>>  w == <<"resize", size>>
<1>2. TurnAsked(asked) /\ asked' \in Seq(Entries) /\ Streaming(buf', wire', asked', parsing')
  BY <1>0, <1>1, ParseStream
<1>3. Show(y) /\ a2 = After(a, m)
  BY DEF Parse, After
<1>4. TurnKinds(y)
  BY <1>1, TurnType DEF TurnTypes
<1>5. ViewMoves(y, v, v2) /\ RowsMove(y, rows, rows')
  BY <1>1, <1>3, <1>4, ShowStep
<1>6. /\ y \in Seq(Effect) /\ m \in 0 .. Len(a) /\ \A i \in 1 .. m : y[i] = a[i].do
  BY <1>2 DEF TurnAsked
<1>7. /\ a2 \in Seq(Entries) /\ Len(a2) = Len(a) - m /\ Len(a) \in Nat
      /\ \A i \in 1 .. Len(a) - m : a2[i] = a[m + i]
  BY <1>0, <1>3, <1>6, AfterProps
<1>8. u[1] = "scroll" /\ w[1] = "resize"
  OBVIOUS
<1>d. Doing(a, y)
  BY <1>4, <1>6 DEF Doing
<1>9. ASSUME NEW n \in m .. Len(a), LiveAfter(a, v, n) PROVE LiveAfter(a2, v2, n - m)
  <2>1. Latest(a, u, v.follow, n)
    BY <1>9 DEF LiveAfter
  <2>2. Becomes(y, u, v.follow, v2.follow)
    BY <1>5, <1>8 DEF ViewMoves, Becomes
  <2>3. n \in Len(y) .. Len(a)
    OBVIOUS
  <2> HIDE DEF u, y
  <2>4. Latest(After(a, Len(y)), u, v2.follow, n - Len(y))
    BY <1>0, <1>d, <2>1, <2>2, <2>3, LatestParse
  <2> QED BY <1>3, <2>4 DEF LiveAfter, u
<1>10. ASSUME SizeAhead(a, rows, size) PROVE SizeAhead(a2, rows', size)
  <2> DEFINE b == rows = size  b2 == rows' = size
  <2>1. Latest(a, w, b, Len(a))
    BY <1>10 DEF SizeAhead
  <2>2. Becomes(y, w, b, b2)
    BY <1>5, <1>8 DEF RowsMove, Becomes
  <2>5. Len(a) \in Len(y) .. Len(a)
    BY <1>6, <1>7
  <2> HIDE DEF w, y, b, b2
  <2>4. Latest(After(a, Len(y)), w, b2, Len(a) - Len(y))
    BY <1>0, <1>d, <2>1, <2>2, <2>5, LatestParse
  <2> QED BY <1>3, <1>7, <2>4 DEF SizeAhead, w, b2
<1>11. keyVars' = keyVars /\ sizeVars' = sizeVars
  OBVIOUS
<1>12. /\ todo' = todo /\ nav' = nav /\ pk' = pk
       /\ size' = size /\ winch' = winch /\ taken' = taken /\ unseen' = unseen
  BY <1>11 DEF keyVars, sizeVars
<1> HIDE DEF y, m
<1>13. AskedLive(a2, v2)
  <2> SUFFICES ASSUME NEW i \in 1 .. Len(a2), a2[i].typed, a2[i].do[1] = "forward"
               PROVE  LiveAfter(a2, v2, i - 1)
    BY DEF AskedLive
  <2> DEFINE j == m + i
  <2>1. j \in 1 .. Len(a) /\ a2[i] = a[j] /\ j - 1 \in m .. Len(a) /\ (j - 1) - m = i - 1
    BY <1>6, <1>7
  <2> HIDE DEF j
  <2>2. LiveAfter(a, v, j - 1)
    BY <1>0, <2>1 DEF Ahead, AskedLive
  <2> QED BY <1>9, <2>1, <2>2
<1>14. LiveAfter(a, v, Len(a)) => LiveAfter(a2, v2, Len(a2))
  <2>1. Len(a) \in m .. Len(a)
    BY <1>6, <1>7
  <2> QED BY <1>7, <1>9, <2>1
<1>15. Ahead(a2, v2, todo, nav, pk)
  BY <1>0, <1>13, <1>14, ThenMore DEF Ahead, TodoLive
<1>16. Sized(a2, rows', size, winch, taken, unseen)
  BY <1>0, <1>10 DEF Sized
<1> QED BY <1>2, <1>12, <1>15, <1>16 DEF StreamInv, AheadInv, SizedInv

\* A write of a whole item, by whichever goroutine or client.
LEMMA SendStep ==
  ASSUME TypeInv, StreamInv, NEW it \in Items, NEW t \in BOOLEAN, Send(it, t),
         UNCHANGED <<buf, parsing>>
  PROVE  /\ StreamInv' /\ asked' = asked \o Sent(Effects(it), t)
         /\ Asks(Sent(Effects(it), t), it, t) /\ asked \in Seq(Entries)
<1>1. wire \in Seq(Byte)
  BY DEF TypeInv, TypeOK, ParseTypeOK, Byte
<1>2. asked \in Seq(Entries) /\ Streaming(buf, wire, asked, parsing)
  BY DEF StreamInv
<1>3. Spoken(Bytes(it), Effects(it))
  BY ItemSpoken
<1>4. /\ asked' \in Seq(Entries) /\ asked' = asked \o Sent(Effects(it), t)
      /\ Streaming(buf', wire', asked', parsing')
  BY <1>1, <1>2, <1>3, SendStream
<1>5. Asks(Sent(Effects(it), t), it, t)
  BY AsksWhat
<1> QED BY <1>2, <1>4, <1>5 DEF StreamInv

\* One that nobody typed and that moves no view.
LEMMA OtherStep ==
  ASSUME InStep, NEW it \in Items, it \notin Turning, Send(it, FALSE),
         UNCHANGED <<buf, parsing, viewVars, todo, nav, pk>>
  PROVE  StreamInv' /\ AheadInv' /\ asked \in Seq(Entries)
<1> DEFINE z == Sent(Effects(it), FALSE)
           l == LiveAfter(asked, view, Len(asked))
           l2 == LiveAfter(asked \o z, view, Len(asked \o z))
<1>1. StreamInv' /\ asked' = asked \o z /\ Asks(z, it, FALSE) /\ asked \in Seq(Entries)
  BY SendStep DEF InStep
<1>2. Ahead(asked, view, todo, nav, pk)
  BY DEF InStep, AheadInv
<1>3. view' = view /\ todo' = todo /\ nav' = nav /\ pk' = pk
  BY DEF viewVars
<1> HIDE DEF z
<1>4. AskedLive(asked \o z, view)
  BY <1>1, <1>2, AsksTyped DEF Ahead
<1>5. l => l2
  BY <1>1, AsksLive
<1>6. TodoLive(l, todo) /\ (~nav /\ ~pk => ThenLive(l, todo, Len(todo)))
  BY <1>2 DEF Ahead
<1> HIDE DEF l, l2
<1>7. TodoLive(l2, todo)
  BY <1>5, <1>6, ThenMore DEF TodoLive
<1>8. ~nav /\ ~pk => ThenLive(l2, todo, Len(todo))
  BY <1>5, <1>6, ThenMore
<1>9. Ahead(asked \o z, view, todo, nav, pk)
  BY <1>4, <1>7, <1>8 DEF Ahead, l2
<1> QED BY <1>1, <1>3, <1>9 DEF AheadInv

LEMMA WriteStep ==
  ASSUME InStep, WriteNext
  PROVE  StreamInv' /\ AheadInv' /\ SizedInv'
<1> DEFINE it == Head(todo).it  t == Head(todo).typed  z == Sent(Effects(it), t)
           l == LiveAfter(asked, view, Len(asked))
           l2 == LiveAfter(asked \o z, view, Len(asked \o z))
<1>1. /\ todo # <<>> /\ todo' = Tail(todo) /\ Send(it, t) /\ UNCHANGED <<buf, parsing>>
      /\ view' = view /\ rows' = rows /\ nav' = nav /\ pk' = pk
      /\ size' = size /\ winch' = winch /\ taken' = taken /\ unseen' = unseen
  BY DEF WriteNext, viewVars, sizeVars
<1>0. /\ todo \in Seq(Tasks) /\ Ahead(asked, view, todo, nav, pk)
      /\ Sized(asked, rows, size, winch, taken, unseen)
  BY DEF InStep, TypeInv, AheadInv, SizedInv
<1>2. /\ Head(todo) = todo[1] /\ Len(todo) \in Nat \ {0} /\ Len(Tail(todo)) = Len(todo) - 1
      /\ \A i \in 1 .. Len(todo) - 1 : Tail(todo)[i] = todo[i + 1]
      /\ it \in Typing \cup Turning \cup Pasting /\ t \in BOOLEAN
      /\ it = todo[1].it /\ t = todo[1].typed
  BY <1>0, <1>1, HeadTask
<1>3. it \in Items /\ (it \in Telling => it \in Pasting)
  <2>1. it \in Items
    BY <1>2, PastingTells DEF Items
  <2>2. it \in Telling => it.kind = "image"
    BY Kinds
  <2>3. (it \in Typing => it.kind = "keys") /\ (it \in Turning => it.kind = "scroll")
    BY Kinds
  <2> QED BY <1>2, <2>1, <2>2, <2>3
<1>4. StreamInv' /\ asked' = asked \o z /\ Asks(z, it, t) /\ asked \in Seq(Entries)
  BY <1>1, <1>2, <1>3, SendStep DEF InStep
<1>5. it \notin Resizing /\ (it.kind = "keys" <=> it \in Typing) /\ (it.kind = "scroll" <=> it \in Turning)
  <2>1. /\ it \in Typing => it.kind = "keys"
        /\ it \in Turning => it.kind = "scroll"
        /\ it \in Pasting => it.kind = "image"
        /\ it \in Resizing => it.kind = "resize"
    BY <1>3, Kinds, KindsApart
  <2> QED BY <1>2, <2>1
<1>6. /\ AskedLive(asked, view) /\ TodoLive(l, todo)
      /\ ~nav /\ ~pk => ThenLive(l, todo, Len(todo))
  BY <1>0 DEF Ahead
<1>7. (it = Follow => l2) /\ (it.kind # "scroll" /\ l => l2)
  <2> HIDE DEF it, z, t
  <2> QED BY <1>2, <1>3, <1>4, <1>5, AsksLive
<1>8. t /\ it \in Typing => l
  <2>1. 1 \in 1 .. Len(todo) /\ 1 - 1 = 0
    BY <1>2
  <2>2. todo[1].typed /\ todo[1].it.kind = "keys" => ThenLive(l, todo, 0)
    BY <1>6, <2>1 DEF TodoLive
  <2> HIDE DEF l
  <2>3. ThenLive(l, todo, 0) => l
    BY ThenNow
  <2> QED BY <1>2, <1>5, <2>2, <2>3
<1>9. AskedLive(asked \o z, view)
  <2> HIDE DEF it, z, t
  <2> QED BY <1>2, <1>3, <1>4, <1>6, <1>8, AsksTyped
<1> HIDE DEF l, l2, it, t, z
<1>10. ASSUME NEW n \in 0 .. Len(todo) - 1, ThenLive(l, todo, n + 1)
       PROVE  ThenLive(l2, Tail(todo), n)
  <2>1. (todo[1].it = Follow => l2) /\ (todo[1].it.kind # "scroll" /\ l => l2)
    BY <1>2, <1>7
  <2> QED BY <1>0, <1>1, <1>10, <2>1, ThenTail
<1>11. TodoLive(l2, Tail(todo))
  <2> SUFFICES ASSUME NEW i \in 1 .. Len(Tail(todo)),
                      Tail(todo)[i].typed, Tail(todo)[i].it.kind = "keys"
               PROVE  ThenLive(l2, Tail(todo), i - 1)
    BY DEF TodoLive
  <2>1. /\ i + 1 \in 1 .. Len(todo) /\ Tail(todo)[i] = todo[i + 1]
        /\ i - 1 \in 0 .. Len(todo) - 1 /\ (i + 1) - 1 = (i - 1) + 1
    BY <1>2
  <2>2. ThenLive(l, todo, (i + 1) - 1)
    BY <1>6, <2>1 DEF TodoLive
  <2> QED BY <1>10, <2>1, <2>2
<1>12. ~nav /\ ~pk => ThenLive(l2, Tail(todo), Len(Tail(todo)))
  <2>1. Len(todo) - 1 \in 0 .. Len(todo) - 1 /\ (Len(todo) - 1) + 1 = Len(todo)
    BY <1>2
  <2> QED BY <1>2, <1>6, <1>10, <2>1
<1>13. Ahead(asked \o z, view, Tail(todo), nav, pk)
  BY <1>9, <1>11, <1>12 DEF Ahead, l2
<1>14. SizeAhead(asked, rows, size) => SizeAhead(asked \o z, rows, size)
  BY <1>2, <1>3, <1>4, <1>5, AsksSize
<1>15. Sized(asked \o z, rows, size, winch, taken, unseen)
  BY <1>0, <1>14 DEF Sized
<1> QED BY <1>1, <1>4, <1>13, <1>15 DEF AheadInv, SizedInv

LEMMA StdinStep ==
  ASSUME InStep, NEW d \in Reads, ProcessStdin(d)
  PROVE  StreamInv' /\ AheadInv' /\ SizedInv'
<1> DEFINE l == LiveAfter(asked, view, Len(asked))
<1>1. /\ wire' = wire /\ buf' = buf /\ parsing' = parsing /\ asked' = asked
      /\ view' = view /\ rows' = rows
      /\ size' = size /\ winch' = winch /\ taken' = taken /\ unseen' = unseen
      /\ todo = <<>>
      /\ \/ WheelScroll(d) \/ PageKeyScroll(d) \/ NavOn(d) \/ NavOff(d) \/ NavKeys(d)
         \/ PasteImage(d) \/ Type(d)
  BY DEF ProcessStdin, connVars, viewVars, sizeVars
<1>0. /\ nav \in BOOLEAN /\ pk \in BOOLEAN /\ Knows(cfg, pk)
      /\ AskedLive(asked, view) /\ (~nav /\ ~pk => ThenLive(l, todo, Len(todo)))
  BY TypeParts DEF InStep, ClientTypes, AheadInv, Ahead
<1>2. ~nav /\ ~pk => l
  <2>1. Len(todo) = 0
    BY <1>1
  <2> HIDE DEF l
  <2> QED BY <1>0, <2>1, ThenNow
<1>3. Shaped(todo', nav', pk')
  BY <1>0, <1>1, StdinShape
<1> DEFINE q == todo'  n2 == nav'  p2 == pk'
<1>4. PICK p \in Seq(Tasks), z \in Seq(Tasks) : q = p \o z /\ Ordered(p, z, n2, p2)
  BY <1>3 DEF Shaped
<1>5. /\ Scrolls(p) /\ NoScroll(z)
      /\ IsTyped(z) \/ (~n2 /\ ~p2) => IF p = <<>> THEN ~nav /\ ~pk ELSE p[Len(p)].it = Follow
  BY <1>4 DEF Ordered
<1>6. /\ Len(p) \in Nat /\ Len(z) \in Nat /\ Len(p \o z) = Len(p) + Len(z)
      /\ \A i \in 1 .. Len(p) : (p \o z)[i] = p[i]
      /\ \A i \in 1 .. Len(z) : (p \o z)[Len(p) + i] = z[i]
  <2>1. p \in Seq(Tasks) /\ z \in Seq(Tasks)
    OBVIOUS
  <2> QED BY ONLY <2>1, JoinedTasks
<1> HIDE DEF l, q, n2, p2
<1>7. ASSUME NEW n \in 0 .. Len(z), IsTyped(z) \/ (~n2 /\ ~p2) PROVE ThenLive(l, p \o z, Len(p) + n)
  <2>1. IF p = <<>> THEN l ELSE p[Len(p)].it = Follow
    BY <1>2, <1>5, <1>7
  <2>2. p \in Seq(Tasks) /\ z \in Seq(Tasks)
    OBVIOUS
  <2> QED BY <1>5, <1>7, <2>1, <2>2, ThenShaped
<1>8. TodoLive(l, p \o z)
  <2> SUFFICES ASSUME NEW i \in 1 .. Len(p \o z), (p \o z)[i].typed, (p \o z)[i].it.kind = "keys"
               PROVE  ThenLive(l, p \o z, i - 1)
    BY DEF TodoLive
  <2> DEFINE m == i - Len(p)
  <2>1. i \notin 1 .. Len(p)
    <3>1. i \in 1 .. Len(p) => (p \o z)[i].it.kind = "scroll"
      BY <1>5, <1>6 DEF Scrolls
    <3> QED BY <3>1
  <2>2. m \in 1 .. Len(z) /\ Len(p) + m = i /\ m - 1 \in 0 .. Len(z) /\ Len(p) + (m - 1) = i - 1
    BY <1>6, <2>1
  <2> HIDE DEF m
  <2>3. (p \o z)[i] = z[m]
    BY <1>6, <2>2
  <2>4. IsTyped(z)
    BY <2>2, <2>3 DEF IsTyped
  <2> QED BY <1>7, <2>2, <2>4
<1>9. ~n2 /\ ~p2 => ThenLive(l, p \o z, Len(p \o z))
  <2>1. Len(z) \in 0 .. Len(z)
    BY <1>6
  <2> QED BY <1>6, <1>7, <2>1
<1>10. Ahead(asked, view, q, n2, p2)
  BY <1>0, <1>4, <1>8, <1>9 DEF Ahead, l
<1> QED BY <1>1, <1>10 DEF InStep, StreamInv, AheadInv, SizedInv, q, n2, p2

\* What the other goroutines do neither sends nor shows anything.
LEMMA QuietStep ==
  ASSUME InStep, UNCHANGED <<wire, buf, parsing, asked, viewVars, todo, nav, pk>>
  PROVE  StreamInv' /\ AheadInv' /\ asked' = asked /\ rows' = rows
<1>1. /\ wire' = wire /\ buf' = buf /\ parsing' = parsing /\ asked' = asked
      /\ view' = view /\ rows' = rows /\ todo' = todo /\ nav' = nav /\ pk' = pk
  BY DEF viewVars
<1> QED BY <1>1 DEF InStep, StreamInv, AheadInv

LEMMA ReadStep ==
  ASSUME InStep, NEW n \in 1 .. Len(wire), Read(n), UNCHANGED <<keyVars, sizeVars>>
  PROVE  StreamInv' /\ AheadInv' /\ SizedInv'
<1>1. wire \in Seq(Byte)
  BY DEF InStep, TypeInv, TypeOK, ParseTypeOK, Byte
<1>2. asked \in Seq(Entries) /\ Streaming(buf, wire, asked, parsing)
  BY DEF InStep, StreamInv
<1>3. Streaming(buf', wire', asked', parsing')
  BY <1>1, <1>2, ReadStream
<1>4. /\ asked' = asked /\ view' = view /\ rows' = rows /\ todo' = todo /\ nav' = nav /\ pk' = pk
      /\ size' = size /\ winch' = winch /\ taken' = taken /\ unseen' = unseen
  BY DEF Read, viewVars, keyVars, sizeVars
<1>5. StreamInv'
  BY <1>2, <1>3, <1>4 DEF StreamInv
<1> QED BY <1>4, <1>5 DEF InStep, AheadInv, SizedInv

LEMMA OutputStep ==
  ASSUME InStep, Output, UNCHANGED <<keyVars, sizeVars>>
  PROVE  StreamInv' /\ AheadInv' /\ SizedInv'
<1>1. view.follow => view'.follow
  BY OutputTypes DEF InStep, TypeInv, TypeOK
<1>2. /\ wire' = wire /\ buf' = buf /\ parsing' = parsing
      /\ asked' = asked /\ rows' = rows /\ todo' = todo /\ nav' = nav /\ pk' = pk
      /\ size' = size /\ winch' = winch /\ taken' = taken /\ unseen' = unseen
  BY DEF Output, keyVars, sizeVars
<1> DEFINE v == view  v2 == view'
<1>3. ASSUME NEW n, LiveAfter(asked, v, n) PROVE LiveAfter(asked, v2, n)
  <2>1. Latest(asked, <<"scroll", 32767>>, v.follow, n)
    BY <1>3 DEF LiveAfter
  <2>2. Latest(asked, <<"scroll", 32767>>, v2.follow, n)
    BY <1>1, <2>1, LatestMore
  <2> QED BY <2>2 DEF LiveAfter
<1>4. Ahead(asked, v, todo, nav, pk)
  BY DEF InStep, AheadInv
<1>5. Ahead(asked, v2, todo, nav, pk)
  <2> HIDE DEF v, v2
  <2>1. AskedLive(asked, v2)
    BY <1>3, <1>4 DEF Ahead, AskedLive
  <2> DEFINE l == LiveAfter(asked, v, Len(asked))  l2 == LiveAfter(asked, v2, Len(asked))
  <2>2. l => l2
    BY <1>3
  <2>3. TodoLive(l, todo) /\ (~nav /\ ~pk => ThenLive(l, todo, Len(todo)))
    BY <1>4 DEF Ahead
  <2> HIDE DEF l, l2
  <2>4. TodoLive(l2, todo) /\ (~nav /\ ~pk => ThenLive(l2, todo, Len(todo)))
    BY <2>2, <2>3, ThenMore DEF TodoLive
  <2> QED BY <2>1, <2>4 DEF Ahead, l2
<1> QED BY <1>2, <1>5 DEF InStep, StreamInv, AheadInv, SizedInv

LEMMA WebStep ==
  ASSUME InStep, WebClient, NEW it \in WebItems, ~Misleads(it), Send(it, FALSE)
  PROVE  StreamInv' /\ AheadInv' /\ SizedInv'
<1>2. /\ UNCHANGED <<buf, parsing, viewVars, todo, nav, pk>> /\ rows' = rows
      /\ size' = size /\ winch' = winch /\ taken' = taken /\ unseen' = unseen
  BY DEF WebClient, viewVars, sizeVars
<1>3. it \in Telling /\ it \in Items
  BY WebTyping DEF Telling, Items
<1>4. it \notin Turning /\ it \notin Resizing
  BY <1>3, Kinds, KindsApart
<1>5. StreamInv' /\ AheadInv'
  BY <1>2, <1>3, <1>4, OtherStep
<1> DEFINE z == Sent(Effects(it), FALSE)
<1>6. asked' = asked \o z /\ Asks(z, it, FALSE) /\ asked \in Seq(Entries)
  BY <1>2, <1>3, SendStep DEF InStep
<1>7. Sized(asked, rows, size, winch, taken, unseen)
  BY DEF InStep, SizedInv
<1> HIDE DEF z
<1>8. SizeAhead(asked, rows, size) => SizeAhead(asked \o z, rows, size)
  BY <1>3, <1>4, <1>6, AsksSize
<1>9. Sized(asked \o z, rows, size, winch, taken, unseen)
  BY <1>7, <1>8 DEF Sized
<1> QED BY <1>2, <1>5, <1>6, <1>9 DEF SizedInv

LEMMA SizeStep ==
  ASSUME InStep, SizeChanges \/ watchResize \/ GetSize
  PROVE  StreamInv' /\ AheadInv' /\ SizedInv'
<1>1. UNCHANGED <<wire, buf, parsing, asked, viewVars, todo, nav, pk>>
  BY DEF SizeChanges, watchResize, GetSize, SizeFrame, keyVars
<1>2. StreamInv' /\ AheadInv' /\ asked' = asked /\ rows' = rows
  BY <1>1, QuietStep
<1>3. /\ Sized(asked, rows, size, winch, taken, unseen)
      /\ size # 0 /\ watching \in BOOLEAN
  BY TypeParts, StepsAssumption DEF InStep, SizedInv, SizeTypes
<1>4. CASE SizeChanges
  BY <1>2, <1>3, <1>4 DEF SizeChanges, SizedInv, Sized
<1>5. CASE watchResize
  <2>1. size' = size /\ winch' = winch /\ taken' = taken /\ unseen' = unseen
    BY <1>5 DEF watchResize
  <2> QED BY <1>2, <1>3, <2>1 DEF SizedInv
<1>6. CASE GetSize
  BY <1>2, <1>3, <1>6 DEF GetSize, SizedInv, Sized
<1> QED BY <1>4, <1>5, <1>6

LEMMA WriteSizeStep ==
  ASSUME InStep, WriteSize
  PROVE  StreamInv' /\ AheadInv' /\ SizedInv'
<1> DEFINE it == ResizeTo(taken)  z == Sent(Effects(it), FALSE)
<1>1. /\ taken # 0 /\ taken' = 0 /\ Send(it, FALSE)
      /\ UNCHANGED <<buf, parsing, viewVars, todo, nav, pk>> /\ rows' = rows
      /\ size' = size /\ winch' = winch /\ unseen' = unseen
  BY DEF WriteSize, SizeFrame, viewVars, keyVars
<1>2. taken \in Sizes
  BY <1>1, TypeParts DEF InStep, SizeTypes
<1>3. it \in Resizing /\ it \in Items /\ it.rows = taken /\ it.kind = "resize"
  BY <1>2, ResizeTyping DEF Items
<1>4. it \notin Turning
  BY <1>3, KindsApart
<1>7. Sized(asked, rows, size, winch, taken, unseen)
  BY DEF InStep, SizedInv
<1> HIDE DEF it
<1>5. StreamInv' /\ AheadInv'
  BY <1>1, <1>3, <1>4, OtherStep
<1>6. asked' = asked \o z /\ Asks(z, it, FALSE) /\ asked \in Seq(Entries)
  BY <1>1, <1>3, SendStep DEF InStep
<1> HIDE DEF z
<1>8. taken = size => SizeAhead(asked \o z, rows, size)
  BY <1>3, <1>6, AsksSize
<1>9. Sized(asked \o z, rows, size, winch, 0, unseen)
  BY <1>1, <1>7, <1>8 DEF Sized
<1> QED BY <1>1, <1>5, <1>6, <1>9 DEF SizedInv

LEMMA AstrayStays ==
  ASSUME astray, [Next]_vars
  PROVE  astray'
<1>1. ASSUME NEW it, NEW v, Send(it, v) PROVE astray'
  BY <1>1 DEF Send
<1>2. CASE Parse
  BY <1>2 DEF Parse
<1>3. CASE (\E n \in 1 .. Len(wire) : Read(n)) \/ Output
  BY <1>3 DEF Read, Output
<1>4. CASE \E d \in Reads : ProcessStdin(d)
  BY <1>4 DEF ProcessStdin, connVars
<1>5. CASE WriteNext \/ WebClient \/ WriteSize
  BY <1>1, <1>5 DEF WriteNext, WebClient, WriteSize
<1>6. CASE SizeChanges \/ watchResize \/ GetSize
  BY <1>6 DEF SizeChanges, watchResize, GetSize
<1>7. CASE UNCHANGED vars
  BY <1>7 DEF vars, connVars
<1> QED BY <1>2, <1>3, <1>4, <1>5, <1>6, <1>7, StepCases

LEMMA InputStep == InputInv /\ [Next]_vars => InputInv'
<1> SUFFICES ASSUME InputInv, [Next]_vars PROVE InputInv'
  OBVIOUS
<1>1. TypeInv'
  BY TypeStep DEF InputInv
<1>q. astray' \/ (StreamInv' /\ AheadInv' /\ SizedInv') => InputInv'
  BY <1>1 DEF InputInv, InStep
<1>a. CASE astray
  BY <1>a, <1>q, AstrayStays
<1>b. CASE InStep
  <2>2. CASE Parse /\ UNCHANGED <<keyVars, sizeVars>>
    <3>1. CASE HalfMagic
      BY <1>q, <2>2, <3>1 DEF Parse
    <3>2. CASE ~HalfMagic
      BY <1>b, <1>q, <2>2, <3>2, ParseStep
    <3> QED BY <3>1, <3>2
  <2>3. CASE (\E n \in 1 .. Len(wire) : Read(n)) /\ UNCHANGED <<keyVars, sizeVars>>
    BY <1>b, <1>q, <2>3, ReadStep
  <2>4. CASE Output /\ UNCHANGED <<keyVars, sizeVars>>
    BY <1>b, <1>q, <2>4, OutputStep
  <2>5. CASE \E d \in Reads : ProcessStdin(d)
    BY <1>b, <1>q, <2>5, StdinStep
  <2>6. CASE WriteNext
    BY <1>b, <1>q, <2>6, WriteStep
  <2>7. CASE WebClient
    <3>1. PICK it \in WebItems : Send(it, FALSE)
      BY <2>7 DEF WebClient
    <3>2. CASE Misleads(it)
      BY <1>q, <3>1, <3>2 DEF Send
    <3>3. CASE ~Misleads(it)
      BY <1>b, <1>q, <2>7, <3>1, <3>3, WebStep
    <3> QED BY <3>2, <3>3
  <2>8. CASE SizeChanges \/ watchResize \/ GetSize
    BY <1>b, <1>q, <2>8, SizeStep
  <2>9. CASE WriteSize
    BY <1>b, <1>q, <2>9, WriteSizeStep
  <2>10. CASE UNCHANGED vars
    <3>1. /\ UNCHANGED <<wire, buf, parsing, asked, viewVars, todo, nav, pk>>
          /\ size' = size /\ winch' = winch /\ taken' = taken /\ unseen' = unseen
      BY <2>10 DEF vars, connVars, keyVars, sizeVars
    <3>2. StreamInv' /\ AheadInv' /\ asked' = asked /\ rows' = rows
      BY <1>b, <3>1, QuietStep
    <3>3. SizedInv'
      BY <1>b, <3>1, <3>2 DEF InStep, SizedInv
    <3> QED BY <1>q, <3>2, <3>3
  <2> QED BY <2>2, <2>3, <2>4, <2>5, <2>6, <2>7, <2>8, <2>9, <2>10, StepCases
<1> QED BY <1>a, <1>b DEF InputInv

LEMMA Inputs == Spec => []InputInv
  BY InputInit, InputStep, PTL DEF Spec

-----------------------------------------------------------------------------
(***************************************************************************)
(* What it says.                                                           *)
(***************************************************************************)
\* The i-th effect of the turn is the i-th that was asked for.
Matches(i) == i <= Len(asked) /\ Turn.do[i] = asked[i].do

\* When a read ends inside a magic, one byte too many is forwarded.
LEMMA HalfAsked ==
  ASSUME asked \in Seq(Entries), Streaming(buf, wire, asked, parsing), buf \in Seq(Byte),
         wire \in Seq(Byte), HalfMagic
  PROVE  \A i \in 1 .. Len(Turn.do) : Matches(i) \/ i = Len(buf)
<1>1. ~HasMagic /\ Cut = Len(buf) /\ Len(buf) \in Nat
  BY DEF HalfMagic
<1>2. Turn = Forward
  BY <1>1 DEF Turn, HasMagic, Magic
<1>3. Turn.do = Forwarded(Len(buf))
  BY <1>1, <1>2 DEF Forward, Take
<1>4. /\ Len(Turn.do) = Len(buf)
      /\ \A i \in 1 .. Len(buf) : Turn.do[i] = <<"forward", buf[i]>>
  <2>1. Len(buf) \in 0 .. Len(buf)
    BY <1>1
  <2> HIDE DEF Forwarded
  <2> QED BY <1>3, <2>1, ForwardedIs
<1>5. Quiet(buf, Len(buf))
  BY <1>1, CutProps
<1>6. PICK s \in Seq(Byte), t \in Seq(Byte), e \in Seq(Effect), f \in Seq(Effect) :
        /\ buf = s \o t /\ Dos(asked) = e \o f
        /\ Spoken(s, e) /\ Pending(t, wire, f)
  BY DEF Streaming
<1> DEFINE n == Len(s)  m == Len(t)
<1>7. /\ n \in Nat /\ m \in Nat /\ Len(buf) = n + m
      /\ \A i \in 1 .. n : buf[i] = s[i]
      /\ \A i \in 1 .. m : buf[n + i] = t[i]
  BY <1>6, Joined
<1>8. m <= 1
  <2> SUFFICES ASSUME m >= 2 PROVE FALSE
    BY <1>7
  <2>1. Starts(t \o wire, f, Len(t))
    BY <1>6 DEF Pending
  <2>2. t[1] = 255 /\ t[2] \in {255, 254, 253}
    BY <2>1, MagicAtFront
  <2> HIDE DEF n, m
  <2> DEFINE i == n + 1
  <2>3. buf[i] = 255 /\ buf[i + 1] \in {255, 254, 253} /\ i \in 1 .. Len(buf) /\ i + 1 <= Len(buf)
    <3>1. buf[n + 1] = t[1] /\ buf[n + 2] = t[2]
      <4>1. 1 \in 1 .. m /\ 2 \in 1 .. m
        BY <1>7
      <4> QED BY ONLY <1>7, <4>1
    <3>2. i + 1 = n + 2 /\ i \in 1 .. Len(buf) /\ i + 1 <= Len(buf)
      BY <1>7
    <3> QED BY <2>2, <3>1, <3>2
  <2> HIDE DEF i
  <2> QED BY <1>5, <2>3 DEF Quiet
<1>9. Quiet(s, n)
  <2> SUFFICES ASSUME NEW i \in 1 .. n, i + 1 <= Len(s), s[i] = 255, s[i + 1] \in {255, 254, 253}
               PROVE  FALSE
    BY DEF Quiet
  <2>1. i \in 1 .. n /\ i + 1 \in 1 .. n /\ i + 1 <= Len(buf) /\ i \in 1 .. Len(buf)
    BY <1>7
  <2>2. buf[i] = 255 /\ buf[i + 1] \in {255, 254, 253}
    BY <1>7, <2>1
  <2> QED BY <1>5, <2>1, <2>2 DEF Quiet
<1>10. PICK k \in Seq(Byte), r \in Seq(Byte), g \in Seq(Effect) :
         Len(k) = n /\ s = k \o r /\ e = Forwards(k) \o g
  <2>1. n \in 0 .. Len(s)
    BY <1>7
  <2>2. Run(s, e, n)
    BY <1>6, <1>9, <2>1, KeyRun
  <2> QED BY <2>2 DEF Run
<1> DEFINE h == Forwards(k)
<1>11. h \in Seq(Effect) /\ Len(h) = n /\ \A i \in 1 .. n : h[i] = <<"forward", k[i]>>
  BY <1>10, ForwardsType
<1> HIDE DEF n, m, h
<1>12. \A i \in 1 .. n : s[i] = k[i]
  BY <1>10, Joined
<1>13. Dos(asked) = h \o (g \o f)
  <2>1. h \in Seq(Effect) /\ g \in Seq(Effect) /\ f \in Seq(Effect)
    BY <1>11
  <2>2. (h \o g) \o f = h \o (g \o f)
    <3>1. Grouped(h, g, f)
      BY ONLY <2>1, RegroupThree
    <3> QED BY ONLY <3>1 DEF Grouped
  <2>3. e = h \o g
    BY <1>10 DEF h
  <2> QED BY <1>6, <2>2, <2>3, Zenon
<1>14. Len(h) \in 0 .. Len(asked) /\ \A i \in 1 .. Len(h) : h[i] = asked[i].do
  <2>1. g \o f \in Seq(Effect)
    OBVIOUS
  <2>2. asked \in Seq(Entries)
    OBVIOUS
  <2> QED BY ONLY <1>11, <1>13, <2>1, <2>2, DosDrop
<1>15. ASSUME NEW i \in 1 .. n PROVE Matches(i)
  <2>1. i \in 1 .. Len(buf) /\ buf[i] = s[i] /\ s[i] = k[i]
    <3>1. n + m >= n
      BY <1>7
    <3> QED BY ONLY <1>7, <1>12, <3>1, i \in 1 .. n
  <2>2. Turn.do[i] = <<"forward", k[i]>> /\ h[i] = <<"forward", k[i]>>
    BY <1>4, <1>11, <2>1
  <2>3. i \in 1 .. Len(h) /\ i <= Len(asked)
    <3>1. Len(asked) \in Nat
      OBVIOUS
    <3> QED BY <1>7, <1>11, <1>14, <3>1
  <2> QED BY <1>14, <2>2, <2>3 DEF Matches
<1>16. ASSUME NEW i \in 1 .. Len(buf), i \notin 1 .. n PROVE i = Len(buf)
  BY <1>7, <1>8, <1>16
<1> QED BY <1>4, <1>15, <1>16

LEMMA TurnNow ==
  ASSUME InStep
  PROVE  /\ TurnKinds(Turn.do) /\ DOMAIN Turn.do = 1 .. Len(Turn.do) /\ Len(Turn.do) \in Nat
         /\ asked \in Seq(Entries) /\ Len(asked) \in Nat
         /\ \A i \in 1 .. Len(Turn.do) : Matches(i) \/ (HalfMagic /\ i = Len(buf))
         /\ HalfMagic => Len(Turn.do) <= Len(buf)
<1>1. buf \in Seq(Byte) /\ wire \in Seq(Byte)
  BY DEF InStep, TypeInv, TypeOK, ParseTypeOK, Byte
<1>2. asked \in Seq(Entries) /\ Streaming(buf, wire, asked, parsing)
  BY DEF InStep, StreamInv
<1>3. ASSUME ~HalfMagic PROVE \A i \in 1 .. Len(Turn.do) : Matches(i)
  <2> DEFINE n == Len(Turn.do)  m == Len(asked)
  <2>1. n \in 0 .. m /\ \A i \in 1 .. n : Turn.do[i] = asked[i].do
    BY <1>1, <1>2, <1>3, ParseStream DEF TurnAsked
  <2>2. m \in Nat
    BY <1>2
  <2> HIDE DEF n, m
  <2>3. \A i \in 1 .. n : i <= m
    BY ONLY <2>1, <2>2
  <2> QED BY <2>1, <2>3 DEF Matches, n, m
<1>4. TurnKinds(Turn.do)
  BY <1>1, TurnType DEF TurnTypes
<1>5. Len(asked) \in Nat
  BY <1>2
<1>6. ASSUME HalfMagic PROVE \A i \in 1 .. Len(Turn.do) : Matches(i) \/ i = Len(buf)
  BY <1>1, <1>2, <1>6, HalfAsked
<1>7. ASSUME HalfMagic PROVE Len(Turn.do) <= Len(buf)
  <2>1. ~HasMagic /\ Cut = Len(buf)
    BY <1>7 DEF HalfMagic
  <2>2. Turn.do = Forwarded(Len(buf))
    BY <2>1 DEF Turn, HasMagic, Magic, Forward, Take
  <2>3. Len(buf) \in Nat /\ Len(buf) \in 0 .. Len(buf)
    BY <1>1
  <2> HIDE DEF Forwarded
  <2>4. Len(Turn.do) = Len(buf)
    BY <1>1, <2>2, <2>3, ForwardedIs
  <2> QED BY <2>3, <2>4
<1>8. \A i \in 1 .. Len(Turn.do) : Matches(i) \/ (HalfMagic /\ i = Len(buf))
  BY <1>3, <1>6, Zenon
<1> QED BY <1>2, <1>4, <1>5, <1>7, <1>8 DEF TurnKinds

LEMMA AskedHolds == InputInv => OnlyAsked
<1> SUFFICES ASSUME InStep, NEW i \in DOMAIN Turn.do
             PROVE  \/ i <= Len(asked) /\ Turn.do[i] = asked[i].do
                    \/ HalfMagic /\ i = Len(buf)
  BY DEF InputInv, OnlyAsked
<1>1. i \in 1 .. Len(Turn.do)
  BY TurnNow
<1>2. Matches(i) \/ (HalfMagic /\ i = Len(buf))
  BY <1>1, TurnNow
<1> QED BY <1>2 DEF Matches

LEMMA TypedHolds == InputInv => TypedLive
<1> SUFFICES ASSUME InStep, NEW i \in DOMAIN Turn.do,
                    i <= Len(asked), asked[i].typed, asked[i].do[1] = "forward"
             PROVE  view.follow
  BY DEF InputInv, TypedLive
<1> DEFINE es == Turn.do  n == Len(es)  m == Len(asked)
<1>1. /\ n \in Nat /\ m \in Nat /\ TurnKinds(es) /\ DOMAIN es = 1 .. n
      /\ \A k \in 1 .. n : Matches(k) \/ (HalfMagic /\ k = Len(buf))
      /\ HalfMagic => n <= Len(buf)
  BY TurnNow
<1>2. i \in DOMAIN es /\ asked[i].typed /\ asked[i].do[1] = "forward" /\ i <= m
  OBVIOUS
<1>3. AskedLive(asked, view)
  BY DEF InStep, AheadInv, Ahead
<1>4. ASSUME Matches(1) PROVE es[1] = asked[1].do
  BY <1>4 DEF Matches
<1>5. \A k \in 1 .. n : Matches(k) => es[k] = asked[k].do
  BY DEF Matches
<1> HIDE DEF es
<1>6. i \in 1 .. n /\ i \in 1 .. m
  <2>1. i \in 1 .. n
    BY <1>1, <1>2
  <2> HIDE DEF n, m
  <2> QED BY <1>1, <1>2, <2>1
<1>7. LiveAfter(asked, view, i - 1)
  BY <1>2, <1>3, <1>6 DEF AskedLive
<1> HIDE DEF n, m
<1>8. \A k \in 1 .. i - 1 : asked[k].do[1] = "forward"
  <2> SUFFICES ASSUME NEW k \in 1 .. i - 1 PROVE asked[k].do[1] = "forward"
    OBVIOUS
  <2>1. k \in 1 .. n /\ k < n /\ n > 1
    BY <1>1, <1>6
  <2>2. Matches(k)
    <3>1. HalfMagic => k # Len(buf)
      <4> SUFFICES ASSUME HalfMagic, k = Len(buf) PROVE FALSE
        OBVIOUS
      <4>1. n <= k
        BY <1>1
      <4> QED BY <1>1, <2>1, <4>1
    <3> QED BY <1>1, <2>1, <3>1
  <2>3. es[k] = asked[k].do
    BY <1>5, <2>1, <2>2
  <2>4. Len(es) # 1
    BY <1>1, <2>1 DEF n
  <2>5. \A j \in DOMAIN es : es[j][1] = "forward"
    BY <1>1, <2>4 DEF TurnKinds
  <2>6. es[k][1] = "forward"
    BY <1>1, <2>1, <2>5
  <2> QED BY <2>3, <2>6
<1> DEFINE w == <<"scroll", 32767>>
<1>9. w[1] = "scroll"
  OBVIOUS
<1>10. Latest(asked, w, view.follow, i - 1)
  BY <1>7 DEF LiveAfter
<1> HIDE DEF w
<1>11. \A k \in 1 .. i - 1 : asked[k].do # w
  BY <1>8, <1>9
<1> QED BY <1>10, <1>11 DEF Latest

\* A stream that has ended has been done.
LEMMA Ended ==
  ASSUME asked \in Seq(Entries), buf \in Seq(Byte), Streaming(buf, <<>>, asked, FALSE)
  PROVE  buf = <<>> /\ asked = <<>>
<1>1. PICK s \in Seq(Byte), t \in Seq(Byte), e \in Seq(Effect), f \in Seq(Effect) :
        /\ buf = s \o t /\ Dos(asked) = e \o f
        /\ Spoken(s, e) /\ Pending(t, <<>>, f) /\ s = <<>>
  BY DEF Streaming
<1>2. e = <<>>
  BY <1>1, SpokenNothing
<1>3. ~Starts(t \o <<>>, f, Len(t))
  <2> SUFFICES ASSUME NEW b \in Seq(Byte), NEW r \in Seq(Byte), t \o <<>> = b \o r, Len(t) < Len(b)
               PROVE  FALSE
    BY DEF Starts
  <2>1. t \in Seq(Byte) /\ b \in Seq(Byte) /\ r \in Seq(Byte)
    OBVIOUS
  <2>2. t \o <<>> = t
    BY ONLY <2>1, ConcatEmptySeq
  <2>3. Len(b \o r) = Len(b) + Len(r) /\ Len(b) \in Nat /\ Len(r) \in Nat
    BY ONLY <2>1, Joined
  <2>4. Len(t) = Len(b \o r)
    BY <2>2, Zenon
  <2> DEFINE k == Len(t)  m == Len(b)  n == Len(r)
  <2>5. k = m + n /\ k < m /\ m \in Nat /\ n \in Nat
    BY <2>3, <2>4
  <2> HIDE DEF k, m, n
  <2> QED BY ONLY <2>5
<1>4. t = <<>> /\ Spoken(<<>>, f)
  BY <1>1, <1>3 DEF Pending
<1>5. f = <<>>
  BY <1>4, SpokenNothing
<1>6. Dos(asked) = <<>> /\ buf = <<>>
  <2>1. <<>> \o <<>> = <<>>
    OBVIOUS
  <2> QED BY <1>1, <1>2, <1>4, <1>5, <2>1, Zenon
<1>7. Len(Dos(asked)) = Len(asked)
  BY DosType
<1>8. Len(asked) = 0
  BY <1>6, <1>7
<1> QED BY <1>6, <1>8

LEMMA CaughtHolds == InputInv => CaughtUp
<1> SUFFICES ASSUME InStep, wire = <<>>, ~parsing, todo = <<>>
             PROVE  /\ buf = <<>> /\ asked = <<>>
                    /\ ~winch /\ taken = 0 /\ ~unseen => rows = size
                    /\ ~view.follow => nav \/ pk
  BY DEF InputInv, CaughtUp
<1>1. buf \in Seq(Byte) /\ asked \in Seq(Entries) /\ parsing = FALSE
  BY DEF InStep, TypeInv, TypeOK, ParseTypeOK, StreamInv, Byte
<1>2. Streaming(buf, <<>>, asked, FALSE)
  BY <1>1 DEF InStep, StreamInv
<1>3. buf = <<>> /\ asked = <<>>
  BY <1>1, <1>2, Ended
<1>4. Len(asked) = 0 /\ Len(todo) = 0
  BY <1>3
<1>5. ASSUME NEW w, NEW b, Latest(asked, w, b, Len(asked)) PROVE b
  <2>1. 1 .. Len(asked) = {}
    BY <1>4
  <2> QED BY <1>5, <2>1 DEF Latest
<1>6. ASSUME ~winch, taken = 0, ~unseen PROVE rows = size
  <2>1. SizeAhead(asked, rows, size)
    BY <1>6 DEF InStep, SizedInv, Sized
  <2>2. Latest(asked, <<"resize", size>>, rows = size, Len(asked))
    BY <2>1 DEF SizeAhead
  <2> QED BY <1>5, <2>2
<1>7. ASSUME ~nav, ~pk PROVE view.follow
  <2> DEFINE l == LiveAfter(asked, view, Len(asked))
  <2>1. ThenLive(l, todo, 0)
    BY <1>4, <1>7 DEF InStep, AheadInv, Ahead
  <2> HIDE DEF l
  <2>2. l
    BY <2>1, ThenNow
  <2>3. Latest(asked, <<"scroll", 32767>>, view.follow, Len(asked))
    BY <2>2 DEF l, LiveAfter
  <2> QED BY <1>5, <2>3
<1> QED BY <1>3, <1>6, <1>7

\* Whatever the chunking and whoever writes in between, the server does exactly
\* what the items ask for, in their order (clientReader, parseClientInput), and
\* of a picture with an invalid or too short length what is left over is typed;
\* until a read ends between the two bytes of a magic or a picture misleads, and
\* of that read only the first byte of the magic is forwarded unasked.
THEOREM NothingButAsked == Spec => []OnlyAsked
  BY AskedHolds, Inputs, PTL

\* What the user types reaches claude only while the live screen is shown to
\* them: a return to it is on its way before every key that processStdin writes,
\* and nothing scrolls back in between (while the parser is in step).
THEOREM TypedFindsLive == Spec => []TypedLive
  BY TypedHolds, Inputs, PTL

\* When nothing is on its way any more, everything has been done, the server has
\* the height of the terminal unless it changed before watchResize, and a view
\* that is scrolled back is one the client knows of (nav mode or pkScrolled); all
\* that while the parser is in step.
THEOREM NothingLeft == Spec => []CaughtUp
  BY CaughtHolds, Inputs, PTL

-----------------------------------------------------------------------------
(***************************************************************************)
(* PtyFlow, for every number of clients, every capacity of the pty and     *)
(* every length of chunks and bursts.  Whoever writes holds the write lock *)
(* from the first unit of a chunk to its last; so while a chunk is being   *)
(* written it is at the end of what the pty has got, and no chunk is       *)
(* written twice.                                                          *)
(***************************************************************************)
\* A source has the write lock exactly while it is inside its call of Write.
WriteLocked == \A s \in Source : wlock = s <=> st[s] = "write"

\* The host goroutine has Server.mu exactly while it forwards, and nobody else
\* ever waits for it.
HostLocked ==
  /\ \A s \in Host : mu = s <=> st[s] \in {"wantFd", "write"}
  /\ \A s \in Source : st[s] = "wantMu" => s \in Host

\* A chunk on its way has been counted and is not finished.
Underway ==
  \A s \in Source : st[s] # "read" => sent[s] \in 1 .. MaxChunks /\ left[s] \in 1 .. ChunkLen

\* Of a chunk that is still to be written nothing is in the pty.
Unwritten ==
  \A s \in Source, i \in DOMAIN stream :
    stream[i][1] = s => IF st[s] \in {"wantMu", "wantFd"} THEN stream[i][2] < sent[s]
                        ELSE stream[i][2] <= sent[s]

\* Nothing follows in the pty on what there is of a chunk being written.
AtEnd ==
  \A s \in Source, i \in DOMAIN stream :
    st[s] = "write" /\ stream[i] = <<s, sent[s]>>
      => \A k \in i .. Len(stream) : stream[k] = stream[i]

FlowInv == FlowTypeOK /\ WriteLocked /\ HostLocked /\ Underway /\ Unwritten /\ AtEnd /\ ChunksContiguous

-----------------------------------------------------------------------------
LEMMA FlowCases ==
  ASSUME [FlowNext]_flowVars
  PROVE  \/ \E s \in Source : Receive(s) \/ HostLock(s) \/ WriteStart(s) \/ WriteUnit(s)
         \/ PumpRead \/ PumpRender \/ ClaudeReads \/ ClaudeDraws \/ ClaudeWrites
         \/ UNCHANGED flowVars
  BY DEF FlowNext, Writer, Pump

LEMMA FlowTypesKept == FlowTypeOK /\ HostLocked /\ Underway /\ [FlowNext]_flowVars => FlowTypeOK'
<1> SUFFICES ASSUME FlowTypeOK, HostLocked, Underway, [FlowNext]_flowVars PROVE FlowTypeOK'
  OBVIOUS
<1> USE FlowAssumption DEF FlowTypeOK
<1>1. ASSUME NEW s \in Source, Receive(s) PROVE FlowTypeOK'
  <2>1. sent' \in [Source -> 0 .. MaxChunks] /\ left' \in [Source -> 0 .. ChunkLen]
    <3>1. sent[s] + 1 \in 0 .. MaxChunks /\ ChunkLen \in 0 .. ChunkLen
      BY <1>1 DEF Receive
    <3>2. /\ sent' = [sent EXCEPT ![s] = sent[s] + 1]
          /\ left' = [left EXCEPT ![s] = ChunkLen]
      BY <1>1 DEF Receive
    <3> QED BY <3>1, <3>2
  <2> DEFINE place == IF s \in Host THEN "wantMu" ELSE "wantFd"
  <2>2. place \in {"read", "wantMu", "wantFd", "write"} /\ st' = [st EXCEPT ![s] = place]
    BY <1>1 DEF Receive
  <2> HIDE DEF place
  <2>3. st' \in [Source -> {"read", "wantMu", "wantFd", "write"}]
    BY <2>2
  <2> QED BY <1>1, <2>1, <2>3 DEF Receive
<1>2. ASSUME NEW s \in Source, HostLock(s) PROVE FlowTypeOK'
  <2>1. s \in Host
    BY <1>2 DEF HostLock, HostLocked
  <2> QED BY <1>2, <2>1 DEF HostLock
<1>3. ASSUME NEW s \in Source, WriteStart(s) PROVE FlowTypeOK'
  BY <1>3 DEF WriteStart
<1>4. ASSUME NEW s \in Source, WriteUnit(s) PROVE FlowTypeOK'
  <2>1. sent[s] \in 1 .. MaxChunks /\ left[s] \in 1 .. ChunkLen
    BY <1>4 DEF WriteUnit, Underway
  <2>2. stream' \in Seq(Source \X (1 .. MaxChunks))
    BY <1>4, <2>1, AppendProperties DEF WriteUnit
  <2>3. left' \in [Source -> 0 .. ChunkLen] /\ unread' \in 0 .. InCap
    <3>0. ChunkLen \in Nat
      BY FlowAssumption
    <3>1. left' = [left EXCEPT ![s] = left[s] - 1] /\ left[s] - 1 \in 0 .. ChunkLen
      <4>1. left' = [left EXCEPT ![s] = left[s] - 1]
        BY <1>4, Zenon DEF WriteUnit
      <4>2. left[s] - 1 \in 0 .. ChunkLen
        BY ONLY <2>1, <3>0
      <4> QED BY <4>1, <4>2
    <3>2. left' \in [Source -> 0 .. ChunkLen]
      BY <3>1
    <3>3. unread' \in 0 .. InCap
      BY <1>4 DEF WriteUnit
    <3> QED BY <3>2, <3>3
  <2>4. /\ mu' \in Host \cup {Free} /\ wlock' \in Source \cup {Free}
        /\ st' \in [Source -> {"read", "wantMu", "wantFd", "write"}]
    BY <1>4 DEF WriteUnit
  <2> QED BY <1>4, <2>2, <2>3, <2>4 DEF WriteUnit
<1>5. CASE PumpRead \/ PumpRender
  BY <1>5 DEF PumpRead, PumpRender
<1>6. CASE ClaudeReads \/ ClaudeDraws \/ ClaudeWrites
  <2>1. CASE ClaudeReads
    BY <2>1 DEF ClaudeReads
  <2>2. CASE ClaudeDraws
    BY <2>2 DEF ClaudeDraws
  <2>3. CASE ClaudeWrites
    BY <2>3 DEF ClaudeWrites
  <2> QED BY <1>6, <2>1, <2>2, <2>3
<1>7. CASE UNCHANGED flowVars
  BY <1>7 DEF flowVars
<1> QED BY <1>1, <1>2, <1>3, <1>4, <1>5, <1>6, <1>7, FlowCases

\* The two locks, and where each source is.
LEMMA FlowLocksKept ==
  FlowTypeOK /\ WriteLocked /\ HostLocked /\ Underway /\ [FlowNext]_flowVars
    => WriteLocked' /\ HostLocked' /\ Underway'
<1> SUFFICES ASSUME FlowTypeOK, WriteLocked, HostLocked, Underway, [FlowNext]_flowVars
             PROVE  WriteLocked' /\ HostLocked' /\ Underway'
  OBVIOUS
<1> USE FlowAssumption DEF FlowTypeOK, WriteLocked, HostLocked, Underway, Source
<1>1. ASSUME NEW s \in Source, Receive(s) PROVE WriteLocked' /\ HostLocked' /\ Underway'
  <2>1. /\ UNCHANGED <<mu, wlock>> /\ st[s] = "read"
        /\ \A t \in Source : t # s => UNCHANGED <<st[t], sent[t], left[t]>>
    BY <1>1 DEF Receive
  <2>2. /\ st'[s] \in {"wantMu", "wantFd"} /\ (st'[s] = "wantFd" => s \notin Host)
        /\ st'[s] = "wantMu" => s \in Host
    BY <1>1 DEF Receive
  <2>3. sent'[s] \in 1 .. MaxChunks /\ left'[s] \in 1 .. ChunkLen
    <3>1. sent'[s] = sent[s] + 1 /\ left'[s] = ChunkLen /\ sent[s] < MaxChunks
      BY <1>1 DEF Receive
    <3>2. sent[s] \in Nat /\ MaxChunks \in Nat /\ ChunkLen \in Nat \ {0}
      OBVIOUS
    <3> QED BY <3>1, <3>2
  <2>4. WriteLocked'
    BY <2>1, <2>2
  <2>5. HostLocked'
    BY <2>1, <2>2
  <2>6. Underway'
    BY <2>1, <2>3
  <2> QED BY <2>4, <2>5, <2>6
<1>2. ASSUME NEW s \in Source, HostLock(s) PROVE WriteLocked' /\ HostLocked' /\ Underway'
  BY <1>2 DEF HostLock
<1>3. ASSUME NEW s \in Source, WriteStart(s) PROVE WriteLocked' /\ HostLocked' /\ Underway'
  BY <1>3 DEF WriteStart
<1>4. ASSUME NEW s \in Source, WriteUnit(s) PROVE WriteLocked' /\ HostLocked' /\ Underway'
  <2>1. left[s] \in 1 .. ChunkLen /\ sent[s] \in 1 .. MaxChunks /\ ChunkLen \in Nat
    BY <1>4 DEF WriteUnit
  <2>2. CASE left[s] > 1
    <3>1. UNCHANGED <<mu, wlock, st, sent>> /\ left' = [left EXCEPT ![s] = @ - 1]
      BY <1>4, <2>1, <2>2 DEF WriteUnit
    <3>2. left'[s] \in 1 .. ChunkLen
      BY <2>1, <2>2, <3>1
    <3> QED BY <3>1, <3>2
  <2>3. CASE left[s] = 1
    <3>1. /\ wlock' = Free /\ st' = [st EXCEPT ![s] = "read"] /\ wlock = s
          /\ mu' = (IF mu = s THEN Free ELSE mu) /\ sent' = sent
          /\ left' = [left EXCEPT ![s] = @ - 1]
      BY <1>4, <2>1, <2>3 DEF WriteUnit
    <3> QED BY <3>1
  <2> QED BY <2>1, <2>2, <2>3
<1>5. CASE PumpRead \/ PumpRender \/ ClaudeReads \/ ClaudeDraws \/ ClaudeWrites
  BY <1>5 DEF PumpRead, PumpRender, ClaudeReads, ClaudeDraws, ClaudeWrites
<1>6. CASE UNCHANGED flowVars
  BY <1>6 DEF flowVars
<1> QED BY <1>1, <1>2, <1>3, <1>4, <1>5, <1>6, FlowCases

-----------------------------------------------------------------------------
Contiguous == Unwritten /\ AtEnd /\ ChunksContiguous

\* A unit is appended to the units of its own chunk, or it is the first of them.
LEMMA UnitAtEnd ==
  ASSUME FlowInv, NEW s \in Source, WriteUnit(s)
  PROVE  Contiguous'
<1> DEFINE e == <<s, sent[s]>>  n == Len(stream)
<1>1. /\ st[s] = "write" /\ e \in Source \X (1 .. MaxChunks)
      /\ stream \in Seq(Source \X (1 .. MaxChunks)) /\ n \in Nat
  BY DEF WriteUnit, FlowInv, FlowTypeOK, Underway
<1>2. /\ stream' = Append(stream, e) /\ sent' = sent
      /\ DOMAIN stream = 1 .. n /\ DOMAIN stream' = 1 .. n + 1 /\ Len(stream') = n + 1
      /\ \A i \in 1 .. n : stream'[i] = stream[i]
      /\ stream'[n + 1] = e
  BY <1>1, AppendProperties DEF WriteUnit
<1>3. /\ st' \in [Source -> {"read", "write"} \cup {"wantMu", "wantFd"}] /\ st'[s] \in {"read", "write"}
      /\ \A r \in Source \ {s} : st'[r] = st[r] /\ st[r] # "write"
  BY <1>1 DEF WriteUnit, FlowInv, FlowTypeOK, WriteLocked
<1>4. \A i \in 1 .. n : stream[i] = e => \A k \in i .. n : stream[k] = e
  BY <1>1, <1>2 DEF FlowInv, AtEnd
<1> HIDE DEF e, n
<1>5. ASSUME NEW i \in 1 .. n + 1, stream'[i] = e, NEW k \in i .. n + 1 PROVE stream'[k] = e
  <2>1. CASE k = n + 1
    BY <1>2, <2>1
  <2>2. CASE k # n + 1
    <3>1. i \in 1 .. n /\ k \in i .. n /\ k \in 1 .. n
      BY <1>1, <1>5, <2>2
    <3> QED BY <1>2, <1>4, <1>5, <3>1
  <2> QED BY <2>1, <2>2
<1>6. Unwritten'
  <2> SUFFICES ASSUME NEW r \in Source, NEW i \in 1 .. n + 1, stream'[i][1] = r
               PROVE  IF st'[r] \in {"wantMu", "wantFd"} THEN stream'[i][2] < sent[r]
                      ELSE stream'[i][2] <= sent[r]
    BY <1>2 DEF Unwritten
  <2>1. CASE i = n + 1
    BY <1>1, <1>2, <1>3, <2>1 DEF e
  <2>2. CASE i \in 1 .. n
    BY <1>1, <1>2, <1>3, <2>2 DEF FlowInv, Unwritten
  <2> QED BY <1>1, <2>1, <2>2
<1>7. AtEnd'
  <2> SUFFICES ASSUME NEW r \in Source, NEW i \in 1 .. n + 1,
                      st'[r] = "write", stream'[i] = <<r, sent[r]>>, NEW k \in i .. n + 1
               PROVE  stream'[k] = stream'[i]
    BY <1>2 DEF AtEnd
  <2>1. r = s
    BY <1>3
  <2> QED BY <1>5, <2>1 DEF e
<1>8. ChunksContiguous'
  <2> SUFFICES ASSUME NEW i \in 1 .. n + 1, NEW j \in 1 .. n + 1, i < j, stream'[i] = stream'[j],
                      NEW k \in i .. j
               PROVE  stream'[k] = stream'[i]
    BY <1>2 DEF ChunksContiguous
  <2>1. CASE j = n + 1
    <3>1. stream'[i] = e /\ k \in i .. n + 1
      BY <1>1, <1>2, <2>1
    <3> QED BY <1>5, <3>1
  <2>2. CASE j \in 1 .. n
    <3>1. i \in 1 .. n /\ k \in 1 .. n /\ stream[i] = stream[j]
      BY <1>1, <1>2, <2>2
    <3> QED BY <1>2, <2>2, <3>1 DEF FlowInv, ChunksContiguous
  <2> QED BY <1>1, <2>1, <2>2
<1> QED BY <1>6, <1>7, <1>8 DEF Contiguous

\* A source that moves on without writing.
LEMMA MovesOn ==
  ASSUME FlowInv, NEW s \in Source, UNCHANGED stream,
         st' \in [Source -> {"read", "wantMu", "wantFd", "write"}], sent' \in [Source -> Nat],
         \A r \in Source \ {s} : st'[r] = st[r] /\ sent'[r] = sent[r],
         \/ st[s] = "read" /\ sent'[s] = sent[s] + 1 /\ st'[s] # "write"
         \/ st[s] \in {"wantMu", "wantFd"} /\ sent'[s] = sent[s]
  PROVE  Contiguous'
<1>1. /\ stream \in Seq(Source \X (1 .. MaxChunks)) /\ sent \in [Source -> 0 .. MaxChunks]
      /\ st \in [Source -> {"read", "wantMu", "wantFd", "write"}]
      /\ \A i \in DOMAIN stream : stream[i] \in Source \X (1 .. MaxChunks)
  BY ElementOfSeq DEF FlowInv, FlowTypeOK
<1>2. MaxChunks \in Nat
  BY FlowAssumption
<1>3. Unwritten'
  <2> SUFFICES ASSUME NEW r \in Source, NEW i \in DOMAIN stream, stream[i][1] = r
               PROVE  IF st'[r] \in {"wantMu", "wantFd"} THEN stream[i][2] < sent'[r]
                      ELSE stream[i][2] <= sent'[r]
    BY DEF Unwritten
  <2>1. stream[i][2] \in Nat /\ sent[r] \in Nat
    BY <1>1, <1>2
  <2>2. IF st[r] \in {"wantMu", "wantFd"} THEN stream[i][2] < sent[r] ELSE stream[i][2] <= sent[r]
    BY DEF FlowInv, Unwritten
  <2> QED BY <2>1, <2>2
<1>4. AtEnd'
  <2> SUFFICES ASSUME NEW r \in Source, NEW i \in DOMAIN stream,
                      st'[r] = "write", stream[i] = <<r, sent'[r]>>
               PROVE  \A k \in i .. Len(stream) : stream[k] = stream[i]
    BY DEF AtEnd
  <2>1. r # s
    <3> SUFFICES ASSUME r = s PROVE FALSE
      OBVIOUS
    <3>1. st[s] \in {"wantMu", "wantFd"} /\ stream[i] = <<s, sent[s]>>
      OBVIOUS
    <3>2. stream[i][1] = s /\ stream[i][2] = sent[s]
      BY <3>1
    <3>3. stream[i][2] < sent[s]
      BY <3>1, <3>2 DEF FlowInv, Unwritten
    <3>4. sent[s] \in Nat
      BY <1>1, <1>2
    <3> QED BY <3>2, <3>3, <3>4
  <2> QED BY <2>1 DEF FlowInv, AtEnd
<1>5. ChunksContiguous'
  BY DEF FlowInv, ChunksContiguous
<1> QED BY <1>3, <1>4, <1>5 DEF Contiguous

LEMMA ContiguousKept == FlowInv /\ [FlowNext]_flowVars => Contiguous'
<1> SUFFICES ASSUME FlowInv, [FlowNext]_flowVars PROVE Contiguous'
  OBVIOUS
<1>0. /\ sent \in [Source -> Nat] /\ FlowTypeOK'
      /\ st \in [Source -> {"read", "wantMu", "wantFd", "write"}]
      /\ st' \in [Source -> {"read", "wantMu", "wantFd", "write"}] /\ sent' \in [Source -> Nat]
  <2>1. FlowTypeOK /\ FlowTypeOK' /\ MaxChunks \in Nat
    BY FlowTypesKept, FlowAssumption DEF FlowInv
  <2>2. 0 .. MaxChunks \subseteq Nat
    BY <2>1
  <2>3. sent \in [Source -> 0 .. MaxChunks] /\ sent' \in [Source -> 0 .. MaxChunks]
    BY <2>1 DEF FlowTypeOK
  <2>4. sent \in [Source -> Nat] /\ sent' \in [Source -> Nat]
    BY <2>2, <2>3
  <2> QED BY <2>1, <2>4 DEF FlowTypeOK
<1>1. ASSUME NEW s \in Source, Receive(s) PROVE Contiguous'
  BY <1>0, <1>1, MovesOn DEF Receive
<1>2. ASSUME NEW s \in Source, HostLock(s) PROVE Contiguous'
  BY <1>0, <1>2, MovesOn DEF HostLock
<1>3. ASSUME NEW s \in Source, WriteStart(s) PROVE Contiguous'
  BY <1>0, <1>3, MovesOn DEF WriteStart
<1>4. ASSUME NEW s \in Source, WriteUnit(s) PROVE Contiguous'
  BY <1>4, UnitAtEnd
<1>5. ASSUME UNCHANGED <<st, sent, stream>> PROVE Contiguous'
  BY <1>5 DEF FlowInv, Contiguous, Unwritten, AtEnd, ChunksContiguous
<1>6. CASE PumpRead \/ PumpRender \/ ClaudeReads \/ ClaudeDraws \/ ClaudeWrites
  BY <1>5, <1>6 DEF PumpRead, PumpRender, ClaudeReads, ClaudeDraws, ClaudeWrites
<1>7. CASE UNCHANGED flowVars
  BY <1>5, <1>7 DEF flowVars
<1> QED BY <1>1, <1>2, <1>3, <1>4, <1>6, <1>7, FlowCases

-----------------------------------------------------------------------------
LEMMA FlowInitial == FlowInit => FlowInv
<1> SUFFICES ASSUME FlowInit PROVE FlowInv
  OBVIOUS
<1>1. stream = <<>> /\ DOMAIN stream = {} /\ stream \in Seq(Source \X (1 .. MaxChunks))
  BY DEF FlowInit
<1>2. FlowTypeOK
  BY <1>1, FlowAssumption DEF FlowInit, FlowTypeOK
<1>3. WriteLocked /\ HostLocked /\ Underway
  BY FlowAssumption DEF FlowInit, WriteLocked, HostLocked, Underway, Source
<1> QED BY <1>1, <1>2, <1>3 DEF FlowInv, Unwritten, AtEnd, ChunksContiguous

LEMMA FlowInductive == FlowInv /\ [FlowNext]_flowVars => FlowInv'
  BY FlowTypesKept, FlowLocksKept, ContiguousKept DEF FlowInv, Contiguous

\* Every variable stays in the range the code gives it: in particular the kernel
\* takes no more than its buffers hold, and no chunk is written beyond its end.
THEOREM PtyFlowTypeOK == FlowSpec => []FlowTypeOK
<1>1. FlowInv => FlowTypeOK
  BY DEF FlowInv
<1> QED BY <1>1, FlowInitial, FlowInductive, PTL DEF FlowSpec

\* Only the host goroutine ever has Server.mu across a write, and at most one
\* goroutine is inside a write to the master.
THEOREM PtyFlowLocks == FlowSpec => [](WriteLocked /\ HostLocked)
<1>1. FlowInv => WriteLocked /\ HostLocked
  BY DEF FlowInv
<1> QED BY <1>1, FlowInitial, FlowInductive, PTL DEF FlowSpec

\* Chunks of different sources are never mixed in the pty, for any number of
\* sources and any capacity, although socket clients write without Server.mu.
THEOREM PtyFlowContiguous == FlowSpec => []ChunksContiguous
<1>1. FlowInv => ChunksContiguous
  BY DEF FlowInv
<1> QED BY <1>1, FlowInitial, FlowInductive, PTL DEF FlowSpec

\* Gridlock is no delay: once everyone waits for everyone, no step of the model
\* ends it.
THEOREM GridlockIsForever == FlowSpec => [][Gridlock => Gridlock']_flowVars
<1>1. FlowTypeOK /\ [FlowNext]_flowVars => [Gridlock => Gridlock']_flowVars
  <2> SUFFICES ASSUME FlowTypeOK, [FlowNext]_flowVars, Gridlock PROVE Gridlock'
    OBVIOUS
  <2> USE FlowAssumption DEF Gridlock, FlowTypeOK, Source
  <2>1. ASSUME NEW s \in Source, Receive(s) \/ HostLock(s) \/ WriteStart(s) \/ WriteUnit(s)
        PROVE  Gridlock'
    BY <2>1 DEF Receive, HostLock, WriteStart, WriteUnit
  <2>2. CASE PumpRead \/ PumpRender \/ ClaudeReads \/ ClaudeDraws \/ ClaudeWrites
    BY <2>2 DEF PumpRead, PumpRender, ClaudeReads, ClaudeDraws, ClaudeWrites
  <2>3. CASE UNCHANGED flowVars
    BY <2>3 DEF flowVars
  <2> QED BY <2>1, <2>2, <2>3, FlowCases
<1> QED BY <1>1, PtyFlowTypeOK, PTL DEF FlowSpec
=============================================================================
