---------------------------- MODULE OutputProofs ----------------------------
(***************************************************************************)
(* Proofs about what becomes of a program's output: SessionLog, where the  *)
(* proxy files it, and TtySync, where `tmux-wrap` passes it on.            *)
(*                                                                         *)
(* SessionLog, for every history size, read size and cap.  A read scrolls  *)
(* out at most ChunkMax <= HistMax lines, so the lines since the last      *)
(* capture are still in the window hist or were erased; the capture        *)
(* therefore takes a run of consecutive numbers that starts after          *)
(* everything in the file.                                                 *)
(*                                                                         *)
(* TtySync, for all streams of whole sequences, however they are read, and *)
(* for all settings and limits.  A terminal that reads what the program    *)
(* writes (Terminal) runs beside the two parsers: outside strings          *)
(* ansiParser is where the terminal is (ParserAt), and tailTracker is where*)
(* it is exactly until a sequence is let go in parts (TrackerIs), and in a *)
(* string only when it is even after that (TrackerNear).  So the tracker's *)
(* start is where the last sequence or character that is not complete      *)
(* begins (Cut), what is kept back erases nothing (Held), and an erased    *)
(* screen in the buffer has set holdActive.  From these:                   *)
(*   - Timely, by adding up the ticks since each timer was set and the     *)
(*     ticks it has left (Timers);                                         *)
(*   - Intact, because stripSyncMarkers drops only bytes of the program's  *)
(*     markers, which stays so of every rest of the stream (Labels);       *)
(*   - OnlyBetween, because a stream cut where a sequence ends is as well  *)
(*     marked as the whole (Marked): no marker lies across the cut, and    *)
(*     dropping the markers before it leaves the end of a sequence last.   *)
(***************************************************************************)
EXTENDS SessionLog, TtySync, SequenceTheorems, WellFoundedInduction, TLAPS

(***************************************************************************)
(* SessionLog.                                                             *)
(***************************************************************************)
\* h holds consecutive lines, the first of them f + 1.
IsWindow(h, f) == h \in Seq(Nat) /\ \A i \in 1 .. Len(h) : h[i] = f + i

\* The lines after the l-th are still in the window after f, or lost.
Kept(f, l, T, gone) == \A n \in l + 1 .. T : n \in gone \/ n > f

\* Every line after the a-th up to the l-th is in the file s, or lost.
Covered(a, l, s, gone) == \A n \in a + 1 .. l : n \in Elems(s) \cup gone

\* Progress of the flusher against the terminal.
Flusher ==
  /\ FirstIdx \in Nat /\ lastTotal <= histTotal /\ start <= lastTotal
  /\ ~armed => lastTotal = 0 /\ log = <<>> /\ open
  /\ armed => histTotal - lastTotal <= fed
  /\ armed /\ ~feeding => lastTotal = histTotal
  /\ ~open => ~feeding /\ armed

\* What the file holds, and where the lines not yet captured are.
Filed ==
  /\ LogInOrder
  /\ open => \A i \in 1 .. Len(log) : log[i] <= lastTotal
  /\ Covered(start, lastTotal, log, lost)
  /\ armed => Kept(FirstIdx, lastTotal, histTotal, lost)

IInv == TypeOK /\ IsWindow(hist, FirstIdx) /\ Flusher /\ Filed

-----------------------------------------------------------------------------
(* Sequences of consecutive numbers. *)

Ordered(s) == \A i, j \in DOMAIN s : i < j => s[i] < s[j]

\* Appending a run of numbers above all of a sequence keeps it in order.
LEMMA AppendRun ==
  ASSUME NEW s \in Seq(Nat), NEW t \in Seq(Nat), NEW l \in Nat, Ordered(s),
         \A i \in 1 .. Len(s) : s[i] <= l,
         \A i \in 1 .. Len(t) : t[i] = l + i
  PROVE  /\ s \o t \in Seq(Nat) /\ Ordered(s \o t)
         /\ \A i \in 1 .. Len(s \o t) : (s \o t)[i] <= l + Len(t)
         /\ Elems(s \o t) = Elems(s) \cup Elems(t)
<1>1. s \o t \in Seq(Nat) /\ Len(s \o t) = Len(s) + Len(t)
  OBVIOUS
<1>2. \A i \in 1 .. Len(s) : (s \o t)[i] = s[i]
  OBVIOUS
<1>3. \A i \in 1 .. Len(t) : (s \o t)[Len(s) + i] = t[i]
  OBVIOUS
<1>4. \A i \in 1 .. Len(s \o t) :
        \/ i \in 1 .. Len(s)
        \/ i - Len(s) \in 1 .. Len(t) /\ (s \o t)[i] = t[i - Len(s)]
  BY <1>1, <1>3
<1>5. Len(s) \in Nat /\ Len(t) \in Nat /\ DOMAIN s = 1 .. Len(s) /\ DOMAIN t = 1 .. Len(t)
      /\ DOMAIN (s \o t) = 1 .. Len(s \o t)
  BY <1>1
<1>6. \A i \in 1 .. Len(s) : s[i] \in Nat
  OBVIOUS
<1>7. Ordered(s \o t)
  <2> SUFFICES ASSUME NEW i \in 1 .. Len(s \o t), NEW j \in 1 .. Len(s \o t), i < j
               PROVE  (s \o t)[i] < (s \o t)[j]
    BY <1>5 DEF Ordered
  <2>1. CASE j \in 1 .. Len(s)
    <3>1. i \in 1 .. Len(s)
      BY <1>1, <1>5, <2>1
    <3> QED BY <1>2, <1>5, <2>1, <3>1 DEF Ordered
  <2>2. CASE i \in 1 .. Len(s) /\ j - Len(s) \in 1 .. Len(t) /\ (s \o t)[j] = t[j - Len(s)]
    <3>1. (s \o t)[i] <= l /\ (s \o t)[i] \in Nat
      BY <1>2, <1>6, <2>2
    <3> DEFINE k == j - Len(s)
               x == (s \o t)[i]
               y == (s \o t)[j]
    <3>2. k \in 1 .. Len(t) /\ y = l + k
      BY <2>2
    <3> HIDE DEF k
    <3>3. k \in Nat /\ k > 0
      BY <1>5, <3>2
    <3>4. x <= l /\ x \in Nat
      BY <3>1
    <3> HIDE DEF x, y
    <3>5. x < y
      BY <3>2, <3>3, <3>4
    <3> QED BY <3>5 DEF x, y
  <2>3. CASE i \notin 1 .. Len(s)
    <3>1. /\ i - Len(s) \in 1 .. Len(t) /\ (s \o t)[i] = t[i - Len(s)]
          /\ j - Len(s) \in 1 .. Len(t) /\ (s \o t)[j] = t[j - Len(s)]
      BY <1>1, <1>4, <1>5, <2>3
    <3> DEFINE a == i - Len(s)
               b == j - Len(s)
    <3>2. (s \o t)[i] = l + a /\ (s \o t)[j] = l + b
      BY <3>1
    <3>3. a \in Nat /\ b \in Nat /\ a < b
      BY <1>1, <1>5, <3>1
    <3> HIDE DEF a, b
    <3> QED BY <3>2, <3>3
  <2> QED BY <1>4, <2>1, <2>2, <2>3
<1>8. \A i \in 1 .. Len(s \o t) : (s \o t)[i] <= l + Len(t)
  <2> TAKE i \in 1 .. Len(s \o t)
  <2>1. CASE i \in 1 .. Len(s)
    <3>1. (s \o t)[i] \in Nat /\ (s \o t)[i] <= l
      BY <1>2, <1>6, <2>1
    <3> QED BY <1>5, <3>1
  <2>2. CASE i - Len(s) \in 1 .. Len(t) /\ (s \o t)[i] = t[i - Len(s)]
    <3> DEFINE k == i - Len(s)
    <3>1. k \in 1 .. Len(t) /\ (s \o t)[i] = l + k
      BY <2>2
    <3> HIDE DEF k
    <3> QED BY <1>5, <3>1
  <2> QED BY <1>4, <2>1, <2>2
<1>9. Elems(s \o t) = Elems(s) \cup Elems(t)
  <2>1. \A i \in 1 .. Len(s \o t) : (s \o t)[i] \in Elems(s) \cup Elems(t)
    BY <1>2, <1>4, <1>5 DEF Elems
  <2>2. \A i \in 1 .. Len(s) : s[i] \in Elems(s \o t)
    BY <1>1, <1>2, <1>5 DEF Elems
  <2>3. \A i \in 1 .. Len(t) : t[i] \in Elems(s \o t)
    <3> TAKE i \in 1 .. Len(t)
    <3>1. Len(s) + i \in 1 .. Len(s \o t)
      BY <1>1, <1>5
    <3> QED BY <1>3, <1>5, <3>1 DEF Elems
  <2> QED BY <1>5, <2>1, <2>2, <2>3 DEF Elems
<1> QED BY <1>1, <1>7, <1>8, <1>9

\* The part of a sequence after its first p elements, n long.
LEMMA Part ==
  ASSUME NEW s \in Seq(Nat), NEW p \in Nat, NEW n \in Nat, NEW a, NEW b,
         a = p + 1, b = p + n, b <= Len(s)
  PROVE  /\ SubSeq(s, a, b) \in Seq(Nat) /\ Len(SubSeq(s, a, b)) = n
         /\ \A i \in 1 .. n : SubSeq(s, a, b)[i] = s[p + i]
<1>1. a \in Int /\ b \in Int /\ \A i \in a .. b : s[i] \in Nat
  OBVIOUS
<1>2. b - a + 1 = n /\ (n = 0 <=> ~(a <= b)) /\ \A i \in 1 .. n : a + i - 1 = p + i
  OBVIOUS
<1>3. /\ SubSeq(s, a, b) \in Seq(Nat)
      /\ Len(SubSeq(s, a, b)) = IF a <= b THEN b - a + 1 ELSE 0
      /\ \A i \in 1 .. b - a + 1 : SubSeq(s, a, b)[i] = s[a + i - 1]
  BY <1>1, SubSeqProperties
<1> QED BY <1>2, <1>3

-----------------------------------------------------------------------------
(* The window of the terminal. *)

\* The next line extends the window.
LEMMA WindowGrows ==
  ASSUME NEW f \in Nat, NEW h, IsWindow(h, f), NEW x, x = f + (Len(h) + 1)
  PROVE  IsWindow(Append(h, x), f) /\ Len(Append(h, x)) = Len(h) + 1
<1> DEFINE n == Len(h)
           g == Append(h, x)
<1>1. h \in Seq(Nat) /\ n \in Nat /\ x \in Nat
  BY DEF IsWindow
<1>2. /\ g \in Seq(Nat) /\ Len(g) = n + 1 /\ g[n + 1] = x
      /\ \A i \in 1 .. n : g[i] = h[i]
  BY <1>1
<1>3. \A i \in 1 .. n : h[i] = f + i
  BY DEF IsWindow
<1>4. x = f + (n + 1)
  OBVIOUS
<1> HIDE DEF g, n
<1>5. \A i \in 1 .. n + 1 : g[i] = f + i
  <2> TAKE i \in 1 .. n + 1
  <2>1. CASE i \in 1 .. n
    BY <1>2, <1>3, <2>1
  <2>2. CASE i = n + 1
    BY <1>2, <1>4, <2>2
  <2> QED BY <1>1, <2>1, <2>2
<1>6. IsWindow(g, f)
  BY <1>2, <1>5 DEF IsWindow
<1> QED BY <1>2, <1>6 DEF g, n

\* Dropping the oldest line leaves a window.
LEMMA WindowTrimmed ==
  ASSUME NEW f \in Nat, NEW h, IsWindow(h, f), NEW b, b = Len(h), b > 0
  PROVE  IsWindow(SubSeq(h, 2, b), f + 1) /\ Len(SubSeq(h, 2, b)) = b - 1
<1> DEFINE n == b - 1
           e == f + 1
           g == SubSeq(h, 2, b)
<1>1. h \in Seq(Nat) /\ b \in Nat /\ n \in Nat /\ e \in Nat
  BY DEF IsWindow
<1>2. \A i \in 1 .. b : h[i] = f + i
  BY DEF IsWindow
<1>3. \A i \in 2 .. b : h[i] \in Nat
  BY <1>1
<1>4. /\ g \in Seq(Nat) /\ Len(g) = IF 2 <= b THEN b - 2 + 1 ELSE 0
      /\ \A i \in 1 .. b - 2 + 1 : g[i] = h[2 + i - 1]
  BY <1>1, <1>3, SubSeqProperties
<1>5. Len(g) = n /\ b - 2 + 1 = n
  BY <1>1, <1>4
<1>6. \A i \in 1 .. n : 2 + i - 1 \in 1 .. b /\ f + (2 + i - 1) = e + i
  BY <1>1
<1> HIDE DEF n, e, g
<1>7. \A i \in 1 .. n : g[i] = e + i
  BY <1>2, <1>4, <1>5, <1>6
<1>8. IsWindow(g, e)
  BY <1>4, <1>5, <1>7 DEF IsWindow
<1> QED BY <1>5, <1>8 DEF g, e, n

\* Which lines a window holds.
LEMMA WindowElems ==
  ASSUME NEW f \in Nat, NEW h, IsWindow(h, f), NEW T, T = f + Len(h)
  PROVE  Elems(h) = f + 1 .. T
<1>1. Len(h) \in Nat /\ DOMAIN h = 1 .. Len(h) /\ \A i \in 1 .. Len(h) : h[i] = f + i
  BY DEF IsWindow
<1>2. ASSUME NEW n \in Elems(h) PROVE n \in f + 1 .. T
  <2>1. PICK i \in 1 .. Len(h) : n = h[i]
    BY <1>1 DEF Elems
  <2> QED BY <1>1, <2>1
<1>3. ASSUME NEW n \in f + 1 .. T PROVE n \in Elems(h)
  <2> DEFINE i == n - f
  <2>1. i \in 1 .. Len(h) /\ n = f + i
    BY <1>1
  <2> HIDE DEF i
  <2> QED BY <1>1, <2>1 DEF Elems
<1> QED BY <1>2, <1>3

\* A run is cut in two runs.
LEMMA WindowCut ==
  ASSUME NEW f \in Nat, NEW h, IsWindow(h, f), NEW n, n = Len(h), NEW k \in 0 .. n
  PROVE  /\ IsWindow(SubSeq(h, 1, k), f) /\ Len(SubSeq(h, 1, k)) = k
         /\ IsWindow(SubSeq(h, k + 1, n), f + k) /\ Len(SubSeq(h, k + 1, n)) = n - k
<1> DEFINE g == SubSeq(h, 1, k)
           a == k + 1
           m == n - k
           e == f + k
           r == SubSeq(h, a, n)
<1>1. /\ h \in Seq(Nat) /\ n \in Nat /\ k \in Nat /\ m \in Nat /\ e \in Nat /\ a \in Nat
      /\ \A i \in 1 .. n : h[i] = f + i
  BY DEF IsWindow
<1>2. IsWindow(g, f) /\ Len(g) = k
  <2>1. \A i \in 1 .. k : h[i] \in Nat /\ 1 + i - 1 = i /\ i \in 1 .. n
    BY <1>1
  <2>2. /\ g \in Seq(Nat) /\ Len(g) = IF 1 <= k THEN k - 1 + 1 ELSE 0
        /\ \A i \in 1 .. k - 1 + 1 : g[i] = h[1 + i - 1]
    BY <1>1, <2>1, SubSeqProperties
  <2>3. Len(g) = k /\ k - 1 + 1 = k
    BY <1>1, <2>2
  <2> QED BY <1>1, <2>1, <2>2, <2>3 DEF IsWindow
<1>3. IsWindow(r, e) /\ Len(r) = m
  <2>1. \A i \in a .. n : h[i] \in Nat
    BY <1>1
  <2>2. n - a + 1 = m /\ (m = 0 <=> ~(a <= n))
    BY <1>1
  <2>3. \A i \in 1 .. m : a + i - 1 \in 1 .. n /\ f + (a + i - 1) = e + i
    BY <1>1
  <2> HIDE DEF a, m, e
  <2>4. /\ r \in Seq(Nat) /\ Len(r) = IF a <= n THEN n - a + 1 ELSE 0
        /\ \A i \in 1 .. n - a + 1 : r[i] = h[a + i - 1]
    BY <1>1, <2>1, SubSeqProperties
  <2>5. Len(r) = m
    BY <2>2, <2>4
  <2> HIDE DEF r
  <2>6. \A i \in 1 .. m : r[i] = e + i
    BY <1>1, <2>2, <2>3, <2>4
  <2> QED BY <2>4, <2>5, <2>6 DEF IsWindow
<1> QED BY <1>2, <1>3

-----------------------------------------------------------------------------
(* What a capture takes. *)

\* The last line before those that a capture takes.
Base == IF armed THEN Lo ELSE histTotal

\* A capture takes every line after Base: the pending cap never bites.
LEMMA PendingIsRun ==
  ASSUME IInv
  PROVE  /\ Base \in Nat /\ lastTotal <= Base /\ Base + Len(Pending) = histTotal
         /\ armed /\ Base > lastTotal => Base = FirstIdx
         /\ IsWindow(Pending, Base)
<1>1. /\ histTotal \in Nat /\ lastTotal \in Nat /\ FirstIdx \in Nat
      /\ hist \in Seq(Nat) /\ Len(hist) \in Nat /\ FirstIdx + Len(hist) = histTotal
      /\ IsWindow(hist, FirstIdx)
  BY DEF IInv, TypeOK, Flusher, FirstIdx
<1>2. lastTotal <= histTotal
  BY DEF IInv, Flusher
<1>3. CASE ~armed
  <2>1. TakeNew = <<>> /\ Len(TakeNew) = 0
    BY <1>3 DEF TakeNew
  <2>2. Pending = <<>>
    BY <2>1, LogAssumption DEF Pending
  <2> QED BY <1>1, <1>2, <1>3, <2>2 DEF Base, IsWindow
<1>4. CASE armed
  <2> DEFINE f == FirstIdx
             n == Len(hist)
             k == Lo - f
  <2>1. Lo \in Nat /\ lastTotal <= Lo /\ f <= Lo /\ Lo <= histTotal
        /\ (Lo > lastTotal => Lo = f)
    BY <1>1, <1>2 DEF Lo
  <2>2. k \in 0 .. n /\ f + k = Lo /\ n - k = histTotal - Lo
    BY <1>1, <2>1
  <2>3. TakeNew = SubSeq(hist, k + 1, n)
    BY <1>4 DEF TakeNew
  <2>4. f \in Nat /\ IsWindow(hist, f) /\ n = Len(hist)
    BY <1>1
  <2> HIDE DEF f, n, k
  <2>5. IsWindow(SubSeq(hist, k + 1, n), f + k) /\ Len(SubSeq(hist, k + 1, n)) = n - k
    BY <2>2, <2>4, WindowCut
  <2>6. IsWindow(TakeNew, Lo) /\ Len(TakeNew) = histTotal - Lo
    BY <2>2, <2>3, <2>5
  <2>7. histTotal - Lo <= PendCap
    <3>1. histTotal - lastTotal <= ChunkMax
      BY <1>1, <1>4, LogAssumption DEF IInv, TypeOK, Flusher
    <3> QED BY <1>1, <2>1, <3>1, LogAssumption
  <2>8. Pending = TakeNew
    BY <1>1, <2>1, <2>6, <2>7, LogAssumption DEF Pending
  <2> QED BY <1>1, <1>4, <2>1, <2>6, <2>8 DEF Base, f
<1> QED BY <1>3, <1>4

\* The lines a capture takes are written, or lost.
LEMMA PendingSplit ==
  ASSUME IInv, NEW k \in 0 .. Len(Pending)
  PROVE  /\ IsWindow(Written(k), Base) /\ Len(Written(k)) = k
         /\ Elems(Written(k)) = Base + 1 .. Base + k
         /\ Unwritten(k) = Base + k + 1 .. histTotal
<1> DEFINE n == Len(Pending)
           b == Base
           e == b + k
<1>1. b \in Nat /\ b + n = histTotal /\ IsWindow(Pending, b)
  BY PendingIsRun
<1>2. n \in Nat /\ k \in Nat /\ e \in Nat
  BY <1>1 DEF IsWindow
<1> DEFINE r == SubSeq(Pending, k + 1, n)
<1>3. IsWindow(Written(k), b) /\ Len(Written(k)) = k
  <2> HIDE DEF b, n
  <2> QED BY <1>1, WindowCut DEF n, Written
<1>4. IsWindow(r, e) /\ Len(r) = n - k
  <2> HIDE DEF b
  <2> QED BY <1>1, WindowCut
<1>5. e + Len(r) = histTotal
  <2> HIDE DEF r
  <2> QED BY <1>1, <1>2, <1>4
<1> HIDE DEF b, e, r
<1>6. Elems(Written(k)) = b + 1 .. b + k
  BY <1>1, <1>3, WindowElems
<1>7. Elems(r) = e + 1 .. histTotal
  BY <1>2, <1>4, <1>5, WindowElems
<1> QED BY <1>3, <1>6, <1>7 DEF Unwritten, r, e, b

\* The file after a capture of which k lines were written.
LEMMA Recorded ==
  ASSUME IInv, open, NEW k \in 0 .. Len(Pending), NEW w, w = log \o Written(k)
  PROVE  /\ w \in Seq(Nat) /\ Ordered(w)
         /\ \A i \in 1 .. Len(w) : w[i] <= histTotal
         /\ Unwritten(k) \subseteq Nat
         /\ armed => Covered(start, histTotal, w, lost \cup Unwritten(k))
<1> DEFINE t == Written(k)
           b == Base
           e == b + k
<1>1. /\ b \in Nat /\ lastTotal <= b /\ b + Len(Pending) = histTotal
      /\ armed /\ b > lastTotal => b = FirstIdx
  BY PendingIsRun
<1>2. /\ IsWindow(t, b) /\ Len(t) = k /\ Elems(t) = b + 1 .. e
      /\ Unwritten(k) = e + 1 .. histTotal
  BY PendingSplit
<1>3. /\ log \in Seq(Nat) /\ Ordered(log) /\ histTotal \in Nat /\ lastTotal \in Nat
      /\ start \in Nat /\ FirstIdx \in Nat
  BY DEF IInv, TypeOK, Filed, Flusher, LogInOrder, Ordered
<1>4. e \in Nat /\ e <= histTotal
  BY <1>1, PendingIsRun DEF IsWindow
<1> HIDE DEF t, b, e
<1>5. \A i \in 1 .. Len(log) : log[i] <= b
  <2>1. \A i \in 1 .. Len(log) : log[i] <= lastTotal /\ log[i] \in Nat
    BY <1>3 DEF IInv, Filed
  <2> QED BY <1>1, <1>3, <2>1
<1>6. t \in Seq(Nat) /\ \A i \in 1 .. Len(t) : t[i] = b + i
  BY <1>2 DEF IsWindow
<1>7. w = log \o t
  BY DEF t
<1>8. /\ w \in Seq(Nat) /\ Ordered(w) /\ \A i \in 1 .. Len(w) : w[i] <= b + Len(t)
      /\ Elems(w) = Elems(log) \cup Elems(t)
  BY <1>1, <1>3, <1>5, <1>6, <1>7, AppendRun
<1>9. \A i \in 1 .. Len(w) : w[i] <= histTotal
  <2>1. \A i \in 1 .. Len(w) : w[i] <= e /\ w[i] \in Nat
    BY <1>2, <1>8 DEF e
  <2> QED BY <1>3, <1>4, <2>1
<1>10. Unwritten(k) \subseteq Nat
  BY <1>2, <1>4
<1>11. ASSUME armed PROVE Covered(start, histTotal, w, lost \cup Unwritten(k))
  <2> SUFFICES ASSUME NEW n \in start + 1 .. histTotal
               PROVE  n \in Elems(log) \/ n \in Elems(t) \/ n \in lost \/ n \in Unwritten(k)
    BY <1>8 DEF Covered
  <2>1. CASE n <= lastTotal
    <3>1. n \in start + 1 .. lastTotal
      BY <1>3, <2>1
    <3> QED BY <3>1 DEF IInv, Filed, Covered
  <2>2. CASE n > lastTotal /\ n <= b
    <3>1. n \in lastTotal + 1 .. histTotal /\ b = FirstIdx
      BY <1>1, <1>3, <1>11, <2>2
    <3>2. n \in lost \/ n > FirstIdx
      BY <1>11, <3>1 DEF IInv, Filed, Kept
    <3> QED BY <1>1, <1>3, <2>2, <3>1, <3>2
  <2>3. CASE n > b /\ n <= e
    BY <1>1, <1>2, <1>3, <1>4, <2>3
  <2>4. CASE n > e
    BY <1>2, <1>3, <1>4, <2>4
  <2> QED BY <1>1, <1>3, <1>4, <2>1, <2>2, <2>3, <2>4
<1> QED BY <1>8, <1>9, <1>10, <1>11

-----------------------------------------------------------------------------
(* The invariant. *)

LEMMA Initial == Init => IInv
<1> SUFFICES ASSUME Init PROVE IInv
  OBVIOUS
<1>1. hist = <<>> /\ log = <<>> /\ histTotal = 0 /\ fed = 0 /\ lastTotal = 0
      /\ finals = 0 /\ start = 0 /\ lost = {}
      /\ feeding = FALSE /\ armed = FALSE /\ open = TRUE
  BY Zenon DEF Init
<1>2. Len(hist) = 0 /\ hist \in Seq(Nat) /\ log \in Seq(Nat)
  BY <1>1
<1>6. TypeOK
  <2>1. Len(hist) <= HistMax /\ fed \in 0 .. ChunkMax /\ finals \in 0 .. 2
    BY <1>1, <1>2, LogAssumption
  <2>2. histTotal \in Nat /\ lastTotal \in Nat /\ start \in Nat /\ lost \in SUBSET Nat
    BY <1>1
  <2> QED BY <1>1, <1>2, <2>1, <2>2, Zenon DEF TypeOK
<1>3. FirstIdx = 0 /\ IsWindow(hist, FirstIdx)
  <2>1. FirstIdx = 0
    <3>1. FirstIdx = 0 - 0
      BY <1>1, <1>2, Zenon DEF FirstIdx
    <3> QED BY <3>1
  <2>2. \A i \in 1 .. Len(hist) : hist[i] = FirstIdx + i
    BY <1>2
  <2> QED BY <1>2, <2>1, <2>2 DEF IsWindow
<1>4. Flusher
  BY <1>3 DEF Init, Flusher
<1>5. Filed
  BY <1>1 DEF Init, Filed, LogInOrder, Covered, Kept
<1> QED BY <1>3, <1>4, <1>5, <1>6 DEF IInv

LEMMA StartReadKeeps == IInv /\ StartRead => IInv'
<1> SUFFICES ASSUME IInv, StartRead PROVE IInv'
  OBVIOUS
<1> USE DEF StartRead
<1>1. TypeOK'
  BY LogAssumption DEF IInv, TypeOK
<1>2. FirstIdx' = FirstIdx /\ IsWindow(hist, FirstIdx)'
  BY DEF IInv, FirstIdx, IsWindow
<1>3. Flusher'
  BY <1>2 DEF IInv, Flusher, TypeOK
<1>4. Filed'
  BY <1>2 DEF IInv, Filed, LogInOrder, Covered, Kept, Elems
<1> QED BY <1>1, <1>2, <1>3, <1>4 DEF IInv

LEMMA LineFeedKeeps == IInv /\ LineFeed => IInv'
<1> SUFFICES ASSUME IInv, LineFeed PROVE IInv'
  OBVIOUS
<1> DEFINE f == FirstIdx
           n == Len(hist)
           x == histTotal + 1
           all == Append(hist, x)
<1>1. /\ hist \in Seq(Nat) /\ n \in Nat /\ f \in Nat /\ x \in Nat /\ x = f + (n + 1)
      /\ n <= HistMax /\ IsWindow(hist, f) /\ HistMax \in Nat \ {0}
      /\ histTotal \in Nat /\ lastTotal \in Nat /\ fed \in Nat
  BY LogAssumption DEF IInv, TypeOK, Flusher, FirstIdx
<1>2. /\ histTotal' = x /\ fed' = fed + 1 /\ fed + 1 <= ChunkMax /\ feeding
      /\ hist' = IF Len(all) > HistMax THEN SubSeq(all, 2, Len(all)) ELSE all
      /\ UNCHANGED <<feeding, armed, lastTotal, log, open, finals, start, lost>>
  BY <1>1, LogAssumption DEF LineFeed, IInv, TypeOK
<1> HIDE DEF f, n, x
<1>3. IsWindow(all, f) /\ Len(all) = n + 1
  BY <1>1, WindowGrows DEF n
<1> HIDE DEF all
<1>4. \E g \in Nat, m \in Nat :
        /\ IsWindow(hist', g) /\ Len(hist') = m /\ m <= HistMax
        /\ x = g + m /\ (g = f \/ m = HistMax)
  <2>1. CASE Len(all) > HistMax
    <3> DEFINE b == Len(all)
    <3>1. hist' = SubSeq(all, 2, b) /\ b > 0 /\ b - 1 = n /\ n = HistMax
      BY <1>1, <1>2, <1>3, <2>1
    <3>2. f \in Nat /\ b = Len(all) /\ b > 0 /\ IsWindow(all, f)
      BY <1>1, <1>3, <3>1
    <3> HIDE DEF b
    <3>3. IsWindow(SubSeq(all, 2, b), f + 1) /\ Len(SubSeq(all, 2, b)) = b - 1
      BY <3>2, WindowTrimmed
    <3> DEFINE g == f + 1
    <3>4. g \in Nat /\ x = g + n
      BY <1>1
    <3>5. IsWindow(hist', g) /\ Len(hist') = n
      BY <3>1, <3>3
    <3> HIDE DEF g
    <3> QED BY <1>1, <3>1, <3>4, <3>5
  <2>2. CASE ~(Len(all) > HistMax)
    <3>1. hist' = all /\ n + 1 \in Nat /\ n + 1 <= HistMax
      BY <1>1, <1>2, <1>3, <2>2
    <3> QED BY <1>1, <1>3, <3>1
  <2> QED BY <2>1, <2>2
<1>5. PICK g \in Nat, m \in Nat :
        /\ IsWindow(hist', g) /\ Len(hist') = m /\ m <= HistMax
        /\ x = g + m /\ (g = f \/ m = HistMax)
  BY <1>4
<1>6. FirstIdx' = g
  <2>1. FirstIdx' = x - m
    BY <1>2, <1>5 DEF FirstIdx
  <2> QED BY <1>5, <2>1
<1>7. TypeOK'
  <2>1. hist' \in Seq(Nat) /\ Len(hist') <= HistMax
    BY <1>5 DEF IsWindow
  <2>2. fed' \in 0 .. ChunkMax
    BY <1>1, <1>2, LogAssumption
  <2> QED BY <1>1, <1>2, <2>1, <2>2 DEF IInv, TypeOK
<1>8. IsWindow(hist, FirstIdx)'
  BY <1>5, <1>6 DEF IsWindow
<1>9. armed => histTotal + 1 - lastTotal <= fed + 1
  BY <1>1 DEF IInv, Flusher
<1>10. Flusher'
  <2>1. FirstIdx' \in Nat /\ lastTotal <= x /\ start <= lastTotal
    BY <1>1, <1>5, <1>6 DEF IInv, Flusher, x
  <2>2. armed => x - lastTotal <= fed + 1
    BY <1>1, <1>9 DEF x
  <2> QED BY <1>2, <2>1, <2>2 DEF IInv, Flusher
<1>11. Filed'
  <2>1. LogInOrder' /\ Covered(start, lastTotal, log, lost)'
    BY <1>2 DEF IInv, Filed, LogInOrder, Covered, Elems
  <2>2. (open => \A i \in 1 .. Len(log) : log[i] <= lastTotal)'
    BY <1>2 DEF IInv, Filed
  <2>3. ASSUME armed, NEW i \in lastTotal + 1 .. x PROVE i \in lost \/ i > g
    <3>1. CASE g = f
      <4>1. CASE i = x
        BY <1>1, <1>5, <3>1, <4>1
      <4>2. CASE i # x
        <5>1. i \in lastTotal + 1 .. histTotal
          BY <1>1, <4>2 DEF x
        <5> QED BY <2>3, <3>1, <5>1 DEF IInv, Filed, Kept, f
      <4> QED BY <4>1, <4>2
    <3>2. CASE m = HistMax
      <4>1. x - lastTotal <= HistMax
        <5>1. x - lastTotal <= ChunkMax
          BY <1>1, <1>2, <1>9, <2>3, LogAssumption DEF x
        <5> QED BY <1>1, <5>1, LogAssumption
      <4> QED BY <1>1, <1>5, <3>2, <4>1
    <3> QED BY <1>5, <3>1, <3>2
  <2>4. (armed => Kept(FirstIdx, lastTotal, histTotal, lost))'
    BY <1>2, <1>6, <2>3 DEF Kept
  <2> QED BY <2>1, <2>2, <2>4 DEF Filed
<1> QED BY <1>7, <1>8, <1>10, <1>11 DEF IInv

LEMMA EraseKeeps == IInv /\ EraseScrollback => IInv'
<1> SUFFICES ASSUME IInv, EraseScrollback PROVE IInv'
  OBVIOUS
<1>1. /\ hist' = <<>> /\ feeding
      /\ lost' = lost \cup {n \in Elems(hist) : armed /\ n > lastTotal}
      /\ UNCHANGED <<histTotal, feeding, fed, armed, lastTotal, log, open, finals, start>>
  BY DEF EraseScrollback
<1>2. /\ histTotal \in Nat /\ lastTotal \in Nat /\ FirstIdx \in Nat /\ hist \in Seq(Nat)
      /\ histTotal = FirstIdx + Len(hist) /\ IsWindow(hist, FirstIdx)
  BY DEF IInv, TypeOK, Flusher, FirstIdx
<1> DEFINE f == FirstIdx
<1>3. Elems(hist) = f + 1 .. histTotal
  <2> HIDE DEF f
  <2> QED BY <1>2, WindowElems DEF f
<1>4. hist' \in Seq(Nat) /\ Len(hist') = 0
  BY <1>1
<1>5. FirstIdx' = histTotal
  <2>1. FirstIdx' = histTotal - 0
    BY <1>1, <1>4 DEF FirstIdx
  <2> QED BY <1>2, <2>1
<1>6. TypeOK'
  <2>1. lost' \in SUBSET Nat
    <3>1. Elems(hist) \subseteq Nat /\ lost \subseteq Nat
      BY <1>2, <1>3 DEF IInv, TypeOK
    <3>2. lost' = lost \cup {n \in Elems(hist) : armed /\ n > lastTotal}
      BY <1>1
    <3> QED BY <3>1, <3>2
  <2>2. Len(hist') <= HistMax
    BY <1>4, LogAssumption
  <2> QED BY <1>1, <1>4, <2>1, <2>2 DEF IInv, TypeOK
<1>7. IsWindow(hist, FirstIdx)'
  <2>1. \A i \in 1 .. Len(hist') : hist'[i] = FirstIdx' + i
    BY <1>4
  <2> QED BY <1>4, <2>1 DEF IsWindow
<1>8. Flusher'
  BY <1>1, <1>2, <1>5 DEF IInv, Flusher
<1>9. Filed'
  <2>1. LogInOrder'
    BY <1>1 DEF IInv, Filed, LogInOrder
  <2>2. (open => \A i \in 1 .. Len(log) : log[i] <= lastTotal)'
    BY <1>1 DEF IInv, Filed
  <2>3. Covered(start, lastTotal, log, lost)'
    BY <1>1 DEF IInv, Filed, Covered, Elems
  <2>4. ASSUME armed, NEW n \in lastTotal + 1 .. histTotal PROVE n \in lost'
    <3>1. n \in lost \/ n > f
      BY <2>4 DEF IInv, Filed, Kept
    <3>2. CASE n > f
      <4>1. n \in Elems(hist) /\ n > lastTotal
        BY <1>2, <1>3, <3>2
      <4> QED BY <1>1, <2>4, <4>1
    <3> QED BY <1>1, <3>1, <3>2
  <2>5. (armed => Kept(FirstIdx, lastTotal, histTotal, lost))'
    BY <1>1, <2>4 DEF Kept
  <2> QED BY <2>1, <2>2, <2>3, <2>5 DEF Filed
<1> QED BY <1>6, <1>7, <1>8, <1>9 DEF IInv

\* The screen's lines come after every line that scrolled out.
LEMMA ScreenIsRun ==
  ASSUME IInv, NEW c \in Nat
  PROVE  Screen(c) \in Seq(Nat) /\ \A i \in 1 .. Len(Screen(c)) : Screen(c)[i] = histTotal + i
<1>1. histTotal \in Nat
  BY DEF IInv, TypeOK
<1>2. \A i \in 1 .. c : histTotal + i \in Nat
  BY <1>1
<1> QED BY <1>2 DEF Screen

\* What both ends of a capture have in common.
LEMMA CaptureKeeps ==
  ASSUME IInv, Capture, UNCHANGED <<hist, histTotal>>,
         fed' = fed, feeding' = FALSE, finals' \in 0 .. 2, open' \in BOOLEAN,
         log' \in Seq(Nat), LogInOrder', lost' \in SUBSET Nat,
         open' => \A i \in 1 .. Len(log') : log'[i] <= histTotal,
         armed => Covered(start, histTotal, log', lost')
  PROVE  IInv'
<1>1. /\ histTotal \in Nat /\ lastTotal \in Nat /\ start \in Nat /\ fed \in Nat
      /\ FirstIdx \in Nat /\ lastTotal <= histTotal /\ start <= lastTotal
  BY LogAssumption DEF IInv, TypeOK, Flusher
<1>2. /\ armed' = TRUE /\ lastTotal' = histTotal /\ histTotal' = histTotal /\ hist' = hist
      /\ start' = IF armed THEN start ELSE histTotal
  BY DEF Capture
<1>3. start' \in Nat /\ start' <= histTotal
  BY <1>1, <1>2
<1>4. TypeOK'
  BY <1>1, <1>2, <1>3 DEF IInv, TypeOK
<1>5. FirstIdx' = FirstIdx /\ IsWindow(hist, FirstIdx)'
  BY <1>2 DEF IInv, FirstIdx, IsWindow
<1>6. Flusher'
  <2>1. histTotal - histTotal <= fed /\ histTotal <= histTotal
    BY <1>1
  <2> QED BY <1>1, <1>2, <1>3, <1>5, <2>1 DEF Flusher
<1>7. Filed'
  <2>1. Covered(start', histTotal, log', lost')
    <3>1. CASE armed
      BY <1>2, <3>1
    <3>2. CASE ~armed
      BY <1>1, <1>2, <3>2 DEF Covered
    <3> QED BY <3>1, <3>2
  <2>2. Covered(start, lastTotal, log, lost)'
    BY <1>2, <2>1 DEF Covered, Elems
  <2>3. (armed => Kept(FirstIdx, lastTotal, histTotal, lost))'
    BY <1>1, <1>2 DEF Kept
  <2> QED BY <1>2, <2>2, <2>3 DEF Filed
<1> QED BY <1>4, <1>5, <1>6, <1>7 DEF IInv

LEMMA EndFeedKeeps == IInv /\ EndFeed => IInv'
<1> SUFFICES ASSUME IInv, EndFeed PROVE IInv'
  OBVIOUS
<1>1. PICK k \in 0 .. Len(Pending) :
        log' = log \o Written(k) /\ lost' = lost \cup Unwritten(k)
  BY DEF EndFeed
<1>2. Capture /\ feeding /\ feeding' = FALSE /\ UNCHANGED <<hist, histTotal, fed, open, finals>>
  BY DEF EndFeed
<1>3. open /\ finals \in 0 .. 2 /\ lost \subseteq Nat
  BY <1>2 DEF IInv, TypeOK, Flusher
<1>4. /\ log' \in Seq(Nat) /\ Ordered(log') /\ \A i \in 1 .. Len(log') : log'[i] <= histTotal
      /\ Unwritten(k) \subseteq Nat /\ (armed => Covered(start, histTotal, log', lost'))
  BY <1>1, <1>3, Recorded
<1>5. LogInOrder'
  BY <1>4 DEF LogInOrder, Ordered
<1> QED BY <1>1, <1>2, <1>3, <1>4, <1>5, CaptureKeeps

LEMMA FinalizeKeeps == IInv /\ Finalize => IInv'
<1> SUFFICES ASSUME IInv, Finalize PROVE IInv'
  OBVIOUS
<1>1. /\ ~feeding /\ finals < 2 /\ finals' = finals + 1
      /\ UNCHANGED <<hist, histTotal, feeding, fed>>
  BY DEF Finalize
<1>2. finals' \in 0 .. 2 /\ lost \subseteq Nat /\ feeding' = FALSE
  BY <1>1 DEF IInv, TypeOK
<1>3. CASE ~open
  <2>1. UNCHANGED <<hist, histTotal, feeding, fed, open, armed, lastTotal, log, start, lost>>
    BY <1>1, <1>3 DEF Finalize
  <2>2. TypeOK'
    BY <1>2, <2>1 DEF IInv, TypeOK
  <2>3. FirstIdx' = FirstIdx /\ IsWindow(hist, FirstIdx)'
    BY <2>1 DEF IInv, FirstIdx, IsWindow
  <2>4. Flusher'
    BY <2>1, <2>3 DEF IInv, Flusher
  <2>5. Filed'
    BY <2>1, <2>3 DEF IInv, Filed, LogInOrder, Covered, Kept, Elems
  <2> QED BY <2>2, <2>3, <2>4, <2>5 DEF IInv
<1>4. CASE open
  <2>1. PICK k \in 0 .. Len(Pending), c \in 0 .. ScreenMax :
          log' = log \o Written(k) \o Screen(c) /\ lost' = lost \cup Unwritten(k)
    BY <1>4 DEF Finalize
  <2>2. Capture /\ open' = FALSE
    BY <1>4 DEF Finalize
  <2> DEFINE w == log \o Written(k)
             t == Screen(c)
  <2>3. /\ w \in Seq(Nat) /\ Ordered(w) /\ \A i \in 1 .. Len(w) : w[i] <= histTotal
        /\ Unwritten(k) \subseteq Nat
        /\ (armed => Covered(start, histTotal, w, lost'))
    BY <1>4, <2>1, Recorded
  <2>4. t \in Seq(Nat) /\ \A i \in 1 .. Len(t) : t[i] = histTotal + i
    BY ScreenIsRun, LogAssumption
  <2>5. log' = w \o t /\ histTotal \in Nat
    BY <2>1 DEF IInv, TypeOK
  <2> HIDE DEF w, t
  <2>6. log' \in Seq(Nat) /\ Ordered(log') /\ Elems(log') = Elems(w) \cup Elems(t)
    BY <2>3, <2>4, <2>5, AppendRun
  <2>7. LogInOrder'
    BY <2>6 DEF LogInOrder, Ordered
  <2>8. armed => Covered(start, histTotal, log', lost')
    BY <2>3, <2>6 DEF Covered
  <2>9. lost' \in SUBSET Nat
    BY <1>2, <2>1, <2>3
  <2> QED BY <1>1, <1>2, <2>2, <2>6, <2>7, <2>8, <2>9, CaptureKeeps
<1> QED BY <1>3, <1>4

-----------------------------------------------------------------------------
(* The theorems. *)

\* Every step keeps the invariant.
LEMMA Inductive == IInv /\ [Next]_vars => IInv'
<1> SUFFICES ASSUME IInv, [Next]_vars PROVE IInv'
  OBVIOUS
<1>1. CASE StartRead
  BY <1>1, StartReadKeeps
<1>2. CASE LineFeed
  BY <1>2, LineFeedKeeps
<1>3. CASE EraseScrollback
  BY <1>3, EraseKeeps
<1>4. CASE EndFeed
  BY <1>4, EndFeedKeeps
<1>5. CASE Finalize
  BY <1>5, FinalizeKeeps
<1>6. CASE UNCHANGED vars
  <2>1. UNCHANGED <<hist, histTotal, feeding, fed, armed, lastTotal, log, open,
                    finals, start, lost>>
    BY <1>6 DEF vars
  <2>2. FirstIdx' = FirstIdx /\ IsWindow(hist, FirstIdx)' /\ TypeOK'
    BY <2>1 DEF IInv, FirstIdx, IsWindow, TypeOK
  <2>3. Flusher' /\ Filed'
    BY <2>1, <2>2 DEF IInv, Flusher, Filed, LogInOrder, Covered, Kept, Elems
  <2> QED BY <2>2, <2>3 DEF IInv
<1> QED BY <1>1, <1>2, <1>3, <1>4, <1>5, <1>6 DEF Next

\* The history never exceeds its cap, and every variable stays in its range.
THEOREM SessionLogTypeOK == Spec => []TypeOK
<1>1. IInv => TypeOK
  BY DEF IInv
<1> QED BY <1>1, Initial, Inductive, PTL DEF Spec

\* Whatever the sizes, the file holds the lines in the order in which they
\* scrolled out, and none of them twice.
THEOREM LogStaysInOrder == Spec => []LogInOrder
<1>1. IInv => LogInOrder
  BY DEF IInv, Filed
<1> QED BY <1>1, Initial, Inductive, PTL DEF Spec

\* If one read never scrolls out more lines than the history and the pending
\* list keep, no line is missed between the first capture and the last one.
THEOREM LogStaysComplete == Spec => []LogComplete
<1>1. IInv => LogComplete
  <2> SUFFICES ASSUME IInv, ~feeding, armed PROVE start + 1 .. histTotal \subseteq Elems(log) \cup lost
    BY DEF LogComplete
  <2>1. lastTotal = histTotal /\ Covered(start, lastTotal, log, lost)
    BY DEF IInv, Flusher, Filed
  <2> QED BY <2>1 DEF Covered
<1> QED BY <1>1, Initial, Inductive, PTL DEF Spec

-----------------------------------------------------------------------------
(* The log is a line log. *)

\* A run is what the abstract log appends.
LEMMA RunIsLines ==
  ASSUME NEW f \in Nat, NEW n \in Nat, NEW s, IsWindow(s, f), Len(s) = n,
         NEW e, e = f + n
  PROVE  s = LL!Lines(f, e)
<1>1. s \in Seq(Nat) /\ \A i \in 1 .. n : s[i] = f + i
  BY DEF IsWindow
<1>2. s = [i \in 1 .. n |-> s[i]]
  BY <1>1
<1>3. e - f = n
  OBVIOUS
<1>4. LL!Lines(f, e) = [i \in 1 .. n |-> f + i]
  BY <1>3 DEF LL!Lines
<1>5. [i \in 1 .. n |-> s[i]] = [i \in 1 .. n |-> f + i]
  BY <1>1
<1> QED BY <1>2, <1>4, <1>5

\* Everything a capture takes is newer than the last line of the file.
LEMMA NewestBeforeBase ==
  ASSUME IInv, open, NEW k \in 0 .. Len(Pending)
  PROVE  /\ Base \in LL!Newest .. histTotal /\ Base + k \in LL!Newest .. histTotal
         /\ Base <= Base + k
         /\ Written(k) = LL!Lines(Base, Base + k)
<1> DEFINE b == Base
           e == b + k
           N == LL!Newest
<1>1. b \in Nat /\ lastTotal <= b /\ b + Len(Pending) = histTotal
      /\ IsWindow(Pending, b)
  BY PendingIsRun
<1>2. Len(Pending) \in Nat /\ k \in Nat /\ k <= Len(Pending)
  BY <1>1 DEF IsWindow
<1>3. IsWindow(Written(k), b) /\ Len(Written(k)) = k
  BY PendingSplit
<1>4. log \in Seq(Nat) /\ lastTotal \in Nat /\ \A i \in 1 .. Len(log) : log[i] <= lastTotal
  BY DEF IInv, TypeOK, Filed
<1>5. N \in Nat /\ N <= lastTotal
  <2>1. CASE log = <<>>
    <3>1. N = 0
      BY <2>1 DEF LL!Newest
    <3> QED BY <1>4, <3>1
  <2>2. CASE log # <<>>
    <3>1. N = log[Len(log)]
      BY <2>2 DEF LL!Newest
    <3>2. Len(log) \in 1 .. Len(log)
      BY <1>4, <2>2
    <3> HIDE DEF N
    <3> QED BY <1>4, <3>1, <3>2
  <2> QED BY <2>1, <2>2
<1> HIDE DEF b, N
<1>6. b \in N .. histTotal /\ e \in N .. histTotal /\ b <= e
  BY <1>1, <1>2, <1>4, <1>5
<1>7. Written(k) = LL!Lines(b, e)
  BY <1>1, <1>2, <1>3, RunIsLines
<1> QED BY <1>6, <1>7 DEF b, N

LEMMA InitRefines == Init => LL!Init
  BY DEF Init, LL!Init

LEMMA EndFeedRefines == IInv /\ EndFeed => LL!Record
<1> SUFFICES ASSUME IInv, EndFeed PROVE LL!Record
  OBVIOUS
<1>1. PICK k \in 0 .. Len(Pending) : log' = log \o Written(k)
  BY DEF EndFeed
<1>2. open /\ open' = open /\ histTotal' = histTotal
  BY DEF IInv, Flusher, EndFeed
<1> DEFINE a == Base
           b == Base + k
<1>3. /\ a \in LL!Newest .. histTotal /\ b \in LL!Newest .. histTotal /\ a <= b
      /\ log' = log \o LL!Lines(a, b)
  BY <1>1, <1>2, NewestBeforeBase
<1> HIDE DEF a, b
<1> QED BY <1>2, <1>3 DEF LL!Record

LEMMA FinalizeRefines == IInv /\ Finalize => LL!Close \/ UNCHANGED LL!lineVars
<1> SUFFICES ASSUME IInv, Finalize PROVE LL!Close \/ UNCHANGED LL!lineVars
  OBVIOUS
<1>1. CASE ~open
  BY <1>1 DEF Finalize, LL!lineVars
<1>2. CASE open
  <2>1. PICK k \in 0 .. Len(Pending), c \in 0 .. ScreenMax :
          log' = log \o Written(k) \o Screen(c)
    BY <1>2 DEF Finalize
  <2>2. open' = FALSE /\ histTotal' = histTotal
    BY <1>2 DEF Finalize
  <2> DEFINE a == Base
             b == Base + k
             T == histTotal
  <2>3. /\ a \in LL!Newest .. T /\ b \in LL!Newest .. T /\ a <= b
        /\ Written(k) = LL!Lines(a, b)
    BY <1>2, NewestBeforeBase
  <2>4. Screen(c) = LL!Lines(T, T + c)
    <3>1. T \in Nat /\ c \in Nat
      BY LogAssumption DEF IInv, TypeOK
    <3>2. (T + c) - T = c
      BY <3>1
    <3> QED BY <3>2, Zenon DEF Screen, LL!Lines
  <2> HIDE DEF a, b
  <2>5. log' = log \o LL!Lines(a, b) \o LL!Lines(T, T + c)
    BY <2>1, <2>3, <2>4
  <2> QED BY <1>2, <2>2, <2>3, <2>5 DEF LL!Close
<1> QED BY <1>1, <1>2

\* The log machinery implements the append-only line log: what is written is
\* always newer than what the file ends with, and nothing follows the close.
THEOREM LogRefinesLineLog == Spec => ImplementsLineLog
<1>1. IInv /\ [Next]_vars => [LL!Next]_(LL!lineVars)
  <2> SUFFICES ASSUME IInv, [Next]_vars PROVE LL!Next \/ UNCHANGED LL!lineVars
    OBVIOUS
  <2>1. CASE StartRead
    BY <2>1 DEF StartRead, LL!lineVars
  <2>2. CASE LineFeed
    BY <2>2 DEF LineFeed, LL!Next, LL!Confirm
  <2>3. CASE EraseScrollback
    BY <2>3 DEF EraseScrollback, LL!lineVars
  <2>4. CASE EndFeed
    BY <2>4, EndFeedRefines DEF LL!Next
  <2>5. CASE Finalize
    BY <2>5, FinalizeRefines DEF LL!Next
  <2>6. CASE UNCHANGED vars
    BY <2>6 DEF vars, LL!lineVars
  <2> QED BY <2>1, <2>2, <2>3, <2>4, <2>5, <2>6 DEF Next
<1> QED BY <1>1, InitRefines, Initial, Inductive, PTL DEF Spec, ImplementsLineLog, LL!Spec

-----------------------------------------------------------------------------
(***************************************************************************)
(* TtySync.                                                                *)
(***************************************************************************)
\* What the program writes is made of these.
Class == STRING \ {"BSU", "ESU"}
Byte  == [b : Class, end : BOOLEAN, early : BOOLEAN, sync : BOOLEAN]

-----------------------------------------------------------------------------
(* Runs of the byte machines. *)

\* What holds at 0, and with every place at the next, holds everywhere.
LEMMA Along ==
  ASSUME NEW n \in Nat, NEW P, 0 \in P, \A i \in 1 .. n : i - 1 \in P => i \in P
  PROVE  \A i \in 0 .. n : i \in P
<1> DEFINE R == {ss \in Nat \X Nat : ss[1] < ss[2]}
           T == {i \in 0 .. n : i \notin P}
<1>1. IsWellFoundedOn(R, Nat)
  BY NatLessThanWellFounded DEF OpToRel
<1>2. \A x, y \in Nat : x < y => <<x, y>> \in R
  OBVIOUS
<1>3. T \subseteq Nat
  OBVIOUS
<1>4. SUFFICES ASSUME T # {} PROVE FALSE
  OBVIOUS
<1>5. PICK x \in T : \A y \in T : ~(<<y, x>> \in R)
  <2> HIDE DEF R, T
  <2> QED BY <1>1, <1>3, <1>4, WFMin
<1>6. x \in 1 .. n /\ x \notin P
  <2>1. x # 0
    BY <1>5
  <2> QED BY <1>5, <2>1
<1>7. x - 1 \notin P
  BY <1>6
<1>8. x - 1 \in T /\ x - 1 \in Nat /\ x \in Nat /\ x - 1 < x
  BY <1>6, <1>7
<1> QED BY <1>2, <1>5, <1>8

\* What is equal at 0, and wherever it was at the place before, is equal.
Alike(f, g, n) == f[0] = g[0] /\ \A i \in 1 .. n : f[i - 1] = g[i - 1] => f[i] = g[i]

LEMMA SameAlong ==
  ASSUME NEW n \in Nat, NEW f, NEW g, Alike(f, g, n)
  PROVE  \A i \in 0 .. n : f[i] = g[i]
<1> DEFINE P == {i \in 0 .. n : f[i] = g[i]}
<1>1. 0 \in P /\ \A i \in 1 .. n : i - 1 \in P => i \in P
  BY DEF Alike
<1>2. \A i \in 0 .. n : i \in P
  <2> HIDE DEF P
  <2> QED BY <1>1, Along
<1> QED BY <1>2

\* f is a run of the machine F that starts in q.
IsRun(f, S, n, F, q) ==
  f \in [0 .. n -> S] /\ f[0] = q /\ \A i \in 1 .. n : f[i] = F[<<i, f[i - 1]>>]

LEMMA RunExists ==
  ASSUME NEW S, NEW n \in Nat, NEW F \in [(1 .. n) \X S -> S], NEW q \in S
  PROVE  \E f : IsRun(f, S, n, F, q)
<1> DEFINE P == {m \in 0 .. n : \E f : IsRun(f, S, m, F, q)}
<1>1. 0 \in P
  <2> DEFINE f == [i \in 0 .. 0 |-> q]
  <2>1. IsRun(f, S, 0, F, q)
    BY DEF IsRun
  <2> QED BY <2>1
<1>2. ASSUME NEW m \in 1 .. n, m - 1 \in P PROVE m \in P
  <2>1. PICK f : IsRun(f, S, m - 1, F, q)
    BY <1>2
  <2> DEFINE g == [i \in 0 .. m |-> IF i = m THEN F[<<m, f[m - 1]>>] ELSE f[i]]
  <2>2. f[m - 1] \in S /\ \A i \in 0 .. m - 1 : f[i] \in S
    BY <2>1 DEF IsRun
  <2>3. F[<<m, f[m - 1]>>] \in S
    BY <2>2
  <2>4. g \in [0 .. m -> S]
    BY <2>2, <2>3
  <2>5. g[m] = F[<<m, f[m - 1]>>] /\ \A i \in 0 .. m - 1 : g[i] = f[i]
    OBVIOUS
  <2> HIDE DEF g
  <2>6. ASSUME NEW i \in 1 .. m PROVE g[i] = F[<<i, g[i - 1]>>]
    <3>1. i - 1 \in 0 .. m - 1 /\ g[i - 1] = f[i - 1]
      BY <2>5
    <3>2. CASE i = m
      BY <2>5, <3>1, <3>2
    <3>3. CASE i # m
      <4>1. i \in 1 .. m - 1 /\ i \in 0 .. m - 1
        BY <3>3
      <4>2. f[i] = F[<<i, f[i - 1]>>]
        BY <2>1, <4>1 DEF IsRun
      <4> QED BY <2>5, <3>1, <4>1, <4>2
    <3> QED BY <3>2, <3>3
  <2>7. g[0] = q
    BY <2>1, <2>5 DEF IsRun
  <2>8. IsRun(g, S, m, F, q)
    BY <2>4, <2>6, <2>7 DEF IsRun
  <2> QED BY <2>8
<1>3. \A m \in 0 .. n : m \in P
  <2> HIDE DEF P
  <2> QED BY <1>1, <1>2, Along
<1>4. n \in P
  <2> HIDE DEF P
  <2> QED BY <1>3
<1> QED BY <1>4

-----------------------------------------------------------------------------
(* The machines and their states. *)

States   == {"ground", "esc", "csi", "string", "stringEsc"}
Trackers == [state : States, rem : Nat, start : Int]
Watches  == [at : States, hold : BOOLEAN]
Beyond   == {"csiInter", "csiRest", "escRest", "dcs", "dcsEsc", "bad"}
Places   == [in : States \cup Beyond, left : Nat]

\* Where tailTracker takes a sequence or a character to be over.
Over(q) == q \in {In("ground"), In("csiRest"), In("escRest")}

LEMMA FeedTrackerType ==
  ASSUME NEW t \in Trackers, NEW b, NEW off \in Int
  PROVE  FeedTracker(t, b, off) \in Trackers
<1>1. Ground \in Trackers
  BY DEF Ground, Trackers, States, None
<1>2. FeedGround(b, off) \in Trackers
  BY <1>1, TtySyncAssumption DEF FeedGround, Trackers, States
<1>3. CASE t.rem > 0 /\ b = "cont"
  BY <1>1, <1>3 DEF FeedTracker, Trackers
<1>4. CASE ~(t.rem > 0 /\ b = "cont")
  <2>1. t.state \in States
    BY DEF Trackers
  <2>2. CASE t.state = "ground"
    BY <1>2, <1>4, <2>2 DEF FeedTracker
  <2>3. CASE t.state = "esc"
    BY <1>1, <1>4, <2>3 DEF FeedTracker, Trackers, States
  <2>4. CASE t.state = "csi"
    BY <1>1, <1>4, <2>4 DEF FeedTracker
  <2>5. CASE t.state = "string"
    BY <1>1, <1>4, <2>5 DEF FeedTracker, Trackers, States
  <2>6. CASE t.state = "stringEsc"
    BY <1>1, <1>4, <2>6 DEF FeedTracker, Trackers, States
  <2> QED BY <2>1, <2>2, <2>3, <2>4, <2>5, <2>6 DEF States
<1> QED BY <1>3, <1>4

LEMMA FeedParserType ==
  ASSUME NEW s \in States, NEW b
  PROVE  FeedParser(s, b) \in States
  BY DEF FeedParser, States

LEMMA WatchType ==
  ASSUME NEW r \in Watches, NEW h \in BOOLEAN, NEW b
  PROVE  Watch(r, h, b) \in Watches
<1>1. r.at \in States /\ r.hold \in BOOLEAN
  BY DEF Watches
<1>2. FeedParser(r.at, b) \in States /\ (r.hold \/ isDestructive(r.at, b)) \in BOOLEAN
  BY <1>1, FeedParserType
<1> QED BY <1>2 DEF Watch, Watches

LEMMA TerminalType ==
  ASSUME NEW q \in Places, NEW b
  PROVE  Terminal(q, b) \in Places
<1>0. q.left \in Nat /\ q.in \in States \cup Beyond
  BY DEF Places
<1>1. \A s \in States \cup Beyond : In(s) \in Places
  BY DEF In, Places
<1>2. /\ In("ground") \in Places /\ In("esc") \in Places /\ In("csi") \in Places
      /\ In("csiInter") \in Places /\ In("csiRest") \in Places /\ In("escRest") \in Places
      /\ In("string") \in Places /\ In("stringEsc") \in Places
      /\ In("dcs") \in Places /\ In("dcsEsc") \in Places /\ Bad \in Places
  BY <1>1 DEF States, Beyond, Bad
<1> HIDE DEF In
<1>3. CASE q.left > 0
  BY <1>0, <1>2, <1>3 DEF Terminal, Places
<1>4. CASE ~(q.left > 0)
  <2>2. CASE q.in = "ground"
    BY <1>2, <1>4, <2>2, TtySyncAssumption DEF Terminal, Places
  <2>3. CASE q.in = "esc"
    BY <1>2, <1>4, <2>3 DEF Terminal
  <2>4. CASE q.in = "csi"
    BY <1>2, <1>4, <2>4 DEF Terminal
  <2>5. CASE q.in = "csiInter"
    BY <1>2, <1>4, <2>5 DEF Terminal
  <2>6. CASE q.in = "string"
    BY <1>2, <1>4, <2>6 DEF Terminal
  <2>7. CASE q.in = "stringEsc"
    BY <1>2, <1>4, <2>7 DEF Terminal
  <2>8. CASE q.in = "bad"
    BY <1>2, <1>4, <2>8 DEF Terminal
  <2>9. CASE q.in \in {"csiRest", "escRest"}
    BY <1>2, <1>4, <2>9 DEF Terminal
  <2>10. CASE q.in \in {"dcs", "dcsEsc"}
    BY <1>2, <1>4, <2>10 DEF Terminal
  <2> QED BY <1>0, <2>2, <2>3, <2>4, <2>5, <2>6, <2>7, <2>8, <2>9, <2>10 DEF States, Beyond
<1> QED BY <1>3, <1>4

\* f is what tracker, parser, watch and terminal go through on d.
Tracks(f, t, d, base) ==
  /\ f \in [0 .. Len(d) -> Trackers] /\ f[0] = t
  /\ \A i \in 1 .. Len(d) : f[i] = FeedTracker(f[i - 1], d[i].b, base + i - 1)
Parses(f, s, d) ==
  /\ f \in [0 .. Len(d) -> States] /\ f[0] = s
  /\ \A i \in 1 .. Len(d) : f[i] = FeedParser(f[i - 1], d[i].b)
Watching(f, s, h, d) ==
  /\ f \in [0 .. Len(d) -> Watches] /\ f[0] = [at |-> s, hold |-> h]
  /\ \A i \in 1 .. Len(d) : f[i] = Watch(f[i - 1], h, d[i].b)
Reads(f, q, d) ==
  /\ f \in [0 .. Len(d) -> Places] /\ f[0] = q
  /\ \A i \in 1 .. Len(d) : f[i] = Terminal(f[i - 1], d[i].b)

LEMMA TrackedRun ==
  ASSUME NEW t \in Trackers, NEW base \in Nat, NEW d \in Seq(Byte)
  PROVE  \E f : Tracks(f, t, d, base) /\ Tracked(t, d, base) = f[Len(d)]
<1> DEFINE n == Len(d)
           F == [p \in (1 .. n) \X Trackers |-> FeedTracker(p[2], d[p[1]].b, base + p[1] - 1)]
           c == CHOOSE at : at = [i \in 0 .. n |->
                  IF i = 0 THEN t ELSE FeedTracker(at[i - 1], d[i].b, base + i - 1)]
<1>1. n \in Nat
  OBVIOUS
<1>2. F \in [(1 .. n) \X Trackers -> Trackers] /\ t \in Trackers
  BY FeedTrackerType
<1>3. PICK f : IsRun(f, Trackers, n, F, t)
  <2> HIDE DEF F, n
  <2> QED BY <1>1, <1>2, RunExists
<1>4. ASSUME NEW i \in 1 .. n
      PROVE  f[i - 1] \in Trackers /\ f[i] = FeedTracker(f[i - 1], d[i].b, base + i - 1)
  <2>1. i - 1 \in 0 .. n
    OBVIOUS
  <2>2. f[i - 1] \in Trackers /\ f[i] = F[<<i, f[i - 1]>>]
    BY <1>3, <2>1 DEF IsRun
  <2> QED BY <2>2
<1>5. f \in [0 .. n -> Trackers] /\ f[0] = t
  BY <1>3 DEF IsRun
<1> HIDE DEF F
<1>6. f = [i \in 0 .. n |-> IF i = 0 THEN t ELSE FeedTracker(f[i - 1], d[i].b, base + i - 1)]
  BY <1>1, <1>4, <1>5
<1>7. c = [i \in 0 .. n |-> IF i = 0 THEN t ELSE FeedTracker(c[i - 1], d[i].b, base + i - 1)]
  BY <1>6
<1>8. Tracked(t, d, base) = c[n]
  BY DEF Tracked
<1> HIDE DEF c
<1>9. \A i \in 0 .. n : c[i] = f[i]
  <2>1. \A i \in 0 .. n : c[i] = IF i = 0 THEN t ELSE FeedTracker(c[i - 1], d[i].b, base + i - 1)
    BY ONLY <1>7
  <2>2. c[0] = t
    <3>1. 0 \in 0 .. n
      BY <1>1
    <3> HIDE DEF n
    <3> QED BY ONLY <2>1, <3>1
  <2>3. ASSUME NEW i \in 1 .. n PROVE c[i] = FeedTracker(c[i - 1], d[i].b, base + i - 1)
    <3>1. i \in 0 .. n /\ i # 0
      BY <1>1
    <3> HIDE DEF n
    <3> QED BY ONLY <2>1, <3>1
  <2>4. ASSUME NEW i \in 1 .. n, c[i - 1] = f[i - 1] PROVE c[i] = f[i]
    <3>1. c[i] = FeedTracker(c[i - 1], d[i].b, base + i - 1) /\ f[i] = FeedTracker(f[i - 1], d[i].b, base + i - 1)
      BY <1>4, <2>3
    <3> QED BY ONLY <2>4, <3>1
  <2>5. Alike(c, f, n)
    BY <1>5, <2>2, <2>4 DEF Alike
  <2> HIDE DEF n
  <2> QED BY ONLY <1>1, <2>5, SameAlong
<1>10. Tracked(t, d, base) = f[n]
  BY <1>1, <1>8, <1>9
<1> QED BY <1>4, <1>5, <1>10 DEF Tracks

LEMMA ParsedRun ==
  ASSUME NEW s \in States, NEW d \in Seq(Byte)
  PROVE  \E f : Parses(f, s, d) /\ Parsed(s, d) = f[Len(d)]
<1> DEFINE n == Len(d)
           F == [p \in (1 .. n) \X States |-> FeedParser(p[2], d[p[1]].b)]
           c == CHOOSE at : at = [i \in 0 .. n |->
                  IF i = 0 THEN s ELSE FeedParser(at[i - 1], d[i].b)]
<1>1. n \in Nat
  OBVIOUS
<1>2. F \in [(1 .. n) \X States -> States] /\ s \in States
  BY FeedParserType
<1>3. PICK f : IsRun(f, States, n, F, s)
  <2> HIDE DEF F, n
  <2> QED BY <1>1, <1>2, RunExists
<1>4. ASSUME NEW i \in 1 .. n
      PROVE  f[i - 1] \in States /\ f[i] = FeedParser(f[i - 1], d[i].b)
  <2>1. i - 1 \in 0 .. n
    OBVIOUS
  <2>2. f[i - 1] \in States /\ f[i] = F[<<i, f[i - 1]>>]
    BY <1>3, <2>1 DEF IsRun
  <2> QED BY <2>2
<1>5. f \in [0 .. n -> States] /\ f[0] = s
  BY <1>3 DEF IsRun
<1> HIDE DEF F
<1>6. f = [i \in 0 .. n |-> IF i = 0 THEN s ELSE FeedParser(f[i - 1], d[i].b)]
  BY <1>1, <1>4, <1>5
<1>7. c = [i \in 0 .. n |-> IF i = 0 THEN s ELSE FeedParser(c[i - 1], d[i].b)]
  BY <1>6
<1>8. Parsed(s, d) = c[n]
  BY DEF Parsed
<1> HIDE DEF c
<1>9. \A i \in 0 .. n : c[i] = f[i]
  <2>1. \A i \in 0 .. n : c[i] = IF i = 0 THEN s ELSE FeedParser(c[i - 1], d[i].b)
    BY ONLY <1>7
  <2>2. c[0] = s
    <3>1. 0 \in 0 .. n
      BY <1>1
    <3> HIDE DEF n
    <3> QED BY ONLY <2>1, <3>1
  <2>3. ASSUME NEW i \in 1 .. n PROVE c[i] = FeedParser(c[i - 1], d[i].b)
    <3>1. i \in 0 .. n /\ i # 0
      BY <1>1
    <3> HIDE DEF n
    <3> QED BY ONLY <2>1, <3>1
  <2>4. ASSUME NEW i \in 1 .. n, c[i - 1] = f[i - 1] PROVE c[i] = f[i]
    <3>1. c[i] = FeedParser(c[i - 1], d[i].b) /\ f[i] = FeedParser(f[i - 1], d[i].b)
      BY <1>4, <2>3
    <3> QED BY ONLY <2>4, <3>1
  <2>5. Alike(c, f, n)
    BY <1>5, <2>2, <2>4 DEF Alike
  <2> HIDE DEF n
  <2> QED BY ONLY <1>1, <2>5, SameAlong
<1>10. Parsed(s, d) = f[n]
  BY <1>1, <1>8, <1>9
<1> QED BY <1>4, <1>5, <1>10 DEF Parses

LEMMA WatchedRun ==
  ASSUME NEW s \in States, NEW h \in BOOLEAN, NEW d \in Seq(Byte)
  PROVE  \E f : Watching(f, s, h, d) /\ Watched(s, h, d) = f[Len(d)]
<1> DEFINE n == Len(d)
           F == [p \in (1 .. n) \X Watches |-> Watch(p[2], h, d[p[1]].b)]
           c == CHOOSE at : at = [i \in 0 .. n |->
                  IF i = 0 THEN [at |-> s, hold |-> h] ELSE Watch(at[i - 1], h, d[i].b)]
<1>1. n \in Nat
  OBVIOUS
<1>2. F \in [(1 .. n) \X Watches -> Watches] /\ [at |-> s, hold |-> h] \in Watches
  BY WatchType DEF Watches
<1>3. PICK f : IsRun(f, Watches, n, F, [at |-> s, hold |-> h])
  <2> HIDE DEF F, n
  <2> QED BY <1>1, <1>2, RunExists
<1>4. ASSUME NEW i \in 1 .. n
      PROVE  f[i - 1] \in Watches /\ f[i] = Watch(f[i - 1], h, d[i].b)
  <2>1. i - 1 \in 0 .. n
    OBVIOUS
  <2>2. f[i - 1] \in Watches /\ f[i] = F[<<i, f[i - 1]>>]
    BY <1>3, <2>1 DEF IsRun
  <2> QED BY <2>2
<1>5. f \in [0 .. n -> Watches] /\ f[0] = [at |-> s, hold |-> h]
  BY <1>3 DEF IsRun
<1> HIDE DEF F
<1>6. f = [i \in 0 .. n |-> IF i = 0 THEN [at |-> s, hold |-> h] ELSE Watch(f[i - 1], h, d[i].b)]
  BY <1>1, <1>4, <1>5
<1>7. c = [i \in 0 .. n |-> IF i = 0 THEN [at |-> s, hold |-> h] ELSE Watch(c[i - 1], h, d[i].b)]
  BY <1>6
<1>8. Watched(s, h, d) = c[n]
  BY DEF Watched
<1> HIDE DEF c
<1>9. \A i \in 0 .. n : c[i] = f[i]
  <2>1. \A i \in 0 .. n : c[i] = IF i = 0 THEN [at |-> s, hold |-> h] ELSE Watch(c[i - 1], h, d[i].b)
    BY ONLY <1>7
  <2>2. c[0] = [at |-> s, hold |-> h]
    <3>1. 0 \in 0 .. n
      BY <1>1
    <3> HIDE DEF n
    <3> QED BY ONLY <2>1, <3>1
  <2>3. ASSUME NEW i \in 1 .. n PROVE c[i] = Watch(c[i - 1], h, d[i].b)
    <3>1. i \in 0 .. n /\ i # 0
      BY <1>1
    <3> HIDE DEF n
    <3> QED BY ONLY <2>1, <3>1
  <2>4. ASSUME NEW i \in 1 .. n, c[i - 1] = f[i - 1] PROVE c[i] = f[i]
    <3>1. c[i] = Watch(c[i - 1], h, d[i].b) /\ f[i] = Watch(f[i - 1], h, d[i].b)
      BY <1>4, <2>3
    <3> QED BY ONLY <2>4, <3>1
  <2>5. Alike(c, f, n)
    BY <1>5, <2>2, <2>4 DEF Alike
  <2> HIDE DEF n
  <2> QED BY ONLY <1>1, <2>5, SameAlong
<1>10. Watched(s, h, d) = f[n]
  BY <1>1, <1>8, <1>9
<1> QED BY <1>4, <1>5, <1>10 DEF Watching

\* The terminal gets on with d, and what ends there is so marked.
Fits(f, d) ==
  \A i \in 1 .. Len(d) : f[i] # Bad /\ (Stop(d[i]) <=> Over(f[i]))

LEMMA WholeRun ==
  ASSUME NEW d \in Seq(Byte), Whole(d)
  PROVE  \E f : Reads(f, In("ground"), d) /\ Fits(f, d)
<1> DEFINE n == Len(d)
           F == [p \in (1 .. n) \X Places |-> Terminal(p[2], d[p[1]].b)]
           c == CHOOSE at : at = [i \in 0 .. n |->
                  IF i = 0 THEN In("ground") ELSE Terminal(at[i - 1], d[i].b)]
<1>1. n \in Nat
  OBVIOUS
<1> HIDE DEF In
<1>2. F \in [(1 .. n) \X Places -> Places] /\ In("ground") \in Places
  BY TerminalType DEF In, Places, States
<1>3. PICK f : IsRun(f, Places, n, F, In("ground"))
  <2> HIDE DEF F, n
  <2> QED BY <1>1, <1>2, RunExists
<1>4. ASSUME NEW i \in 1 .. n
      PROVE  f[i - 1] \in Places /\ f[i] = Terminal(f[i - 1], d[i].b)
  <2>1. i - 1 \in 0 .. n
    OBVIOUS
  <2>2. f[i - 1] \in Places /\ f[i] = F[<<i, f[i - 1]>>]
    BY <1>3, <2>1 DEF IsRun
  <2> QED BY <2>2
<1>5. f \in [0 .. n -> Places] /\ f[0] = In("ground")
  BY <1>3 DEF IsRun
<1> HIDE DEF F
<1>6. f = [i \in 0 .. n |-> IF i = 0 THEN In("ground") ELSE Terminal(f[i - 1], d[i].b)]
  BY <1>1, <1>4, <1>5
<1>7. c = [i \in 0 .. n |-> IF i = 0 THEN In("ground") ELSE Terminal(c[i - 1], d[i].b)]
  BY <1>6
<1>8. \A i \in 1 .. n : c[i] # Bad /\ (Stop(d[i]) <=> Over(c[i]))
  BY DEF Whole, Stop, Over
<1> HIDE DEF c
<1>9. \A i \in 0 .. n : c[i] = f[i]
  <2>1. \A i \in 0 .. n : c[i] = IF i = 0 THEN In("ground") ELSE Terminal(c[i - 1], d[i].b)
    BY ONLY <1>7
  <2>2. c[0] = In("ground")
    <3>1. 0 \in 0 .. n
      BY <1>1
    <3> HIDE DEF n
    <3> QED BY ONLY <2>1, <3>1
  <2>3. ASSUME NEW i \in 1 .. n PROVE c[i] = Terminal(c[i - 1], d[i].b)
    <3>1. i \in 0 .. n /\ i # 0
      BY <1>1
    <3> HIDE DEF n
    <3> QED BY ONLY <2>1, <3>1
  <2>4. ASSUME NEW i \in 1 .. n, c[i - 1] = f[i - 1] PROVE c[i] = f[i]
    <3>1. c[i] = Terminal(c[i - 1], d[i].b) /\ f[i] = Terminal(f[i - 1], d[i].b)
      BY <1>4, <2>3
    <3> QED BY ONLY <2>4, <3>1
  <2>5. Alike(c, f, n)
    BY <1>5, <2>2, <2>4 DEF Alike
  <2> HIDE DEF n
  <2> QED BY ONLY <1>1, <2>5, SameAlong
<1>10. Fits(f, d)
  BY <1>1, <1>8, <1>9 DEF Fits
<1> QED BY <1>4, <1>5, <1>10 DEF Reads

-----------------------------------------------------------------------------
(* What the two parsers know of where the terminal is. *)

\* A character lacks bytes only outside sequences.
Sound(q) == q.left > 0 => q.in = "ground"

\* ansiParser: outside strings it is where the terminal is, but an intermediate
\* or a private byte ends a sequence for it, and an escape ends a string.
ParserAt(q, s) ==
  /\ q.in \in {"ground", "csiInter", "csiRest", "escRest"} => s = "ground"
  /\ q.in = "esc" => s = "esc"
  /\ q.in = "csi" => s = "csi"
  /\ q.in \in {"stringEsc", "dcsEsc"} => s \in {"esc", "ground", "stringEsc"}

\* tailTracker, even after a sequence let go in parts: it is in a string only when
\* the terminal is.
TrackerNear(q, t) ==
  /\ t.rem > 0 => t.state = "ground"
  /\ t.state = "string" => q.in \in {"string", "dcs"}
  /\ t.state = "stringEsc" => q.in \in {"stringEsc", "dcsEsc"}
  /\ t.state = "esc" => q.in \in {"esc", "string", "stringEsc", "dcs", "dcsEsc"}

\* Until then: it is where the terminal is, or takes the sequence to be over.
TrackerIs(q, t) ==
  /\ t.rem = q.left
  /\ q.in \in States => t.state = q.in
  /\ q.in = "csiInter" => t.state = "csi"
  /\ q.in \in {"csiRest", "escRest"} => t.state = "ground"
  /\ q.in = "dcs" => t.state = "string"
  /\ q.in = "dcsEsc" => t.state = "stringEsc"
  /\ t.start = None <=> Over(q)

LEMMA SoundStep ==
  ASSUME NEW q \in Places, Sound(q), NEW b, Terminal(q, b) # Bad
  PROVE  Sound(Terminal(q, b))
<1>1. CASE q.left > 0
  BY <1>1 DEF Terminal, Sound, Places
<1>2. CASE ~(q.left > 0)
  <2>0. q.left = 0
    BY <1>2 DEF Places
  <2>1. CASE q.in = "ground"
    BY <1>2, <2>0, <2>1 DEF Terminal, Sound, In, Bad
  <2>2. CASE q.in # "ground"
    BY <1>2, <2>0, <2>2 DEF Terminal, Sound, In, Bad, Places, States, Beyond
  <2> QED BY <2>1, <2>2
<1> QED BY <1>1, <1>2

LEMMA ParserStep ==
  ASSUME NEW q \in Places, Sound(q), NEW b, Terminal(q, b) # Bad, NEW s \in States, ParserAt(q, s)
  PROVE  ParserAt(Terminal(q, b), FeedParser(s, b))
<1> USE DEF Terminal, Breaks, FeedParser, ParserAt, In, Bad
<1>1. CASE q.left > 0
  BY <1>1 DEF Sound
<1>2. CASE ~(q.left > 0) /\ q.in = "ground"
  BY <1>2
<1>3. CASE ~(q.left > 0) /\ q.in = "esc"
  BY <1>3
<1>4. CASE ~(q.left > 0) /\ q.in = "csi"
  BY <1>4
<1>5. CASE ~(q.left > 0) /\ q.in = "csiInter"
  BY <1>5
<1>6. CASE ~(q.left > 0) /\ q.in = "string"
  BY <1>6 DEF States
<1>7. CASE ~(q.left > 0) /\ q.in = "stringEsc"
  BY <1>7
<1>8. CASE ~(q.left > 0) /\ q.in = "bad"
  BY <1>8
<1>9. CASE ~(q.left > 0) /\ q.in = "csiRest"
  BY <1>9
<1>10. CASE ~(q.left > 0) /\ q.in = "escRest"
  BY <1>10
<1>11. CASE ~(q.left > 0) /\ q.in = "dcs"
  BY <1>11 DEF States
<1>12. CASE ~(q.left > 0) /\ q.in = "dcsEsc"
  BY <1>12
<1> QED BY <1>1, <1>2, <1>3, <1>4, <1>5, <1>6, <1>7, <1>8, <1>9, <1>10, <1>11, <1>12
        DEF Places, States, Beyond

LEMMA ErasesInCSI ==
  ASSUME NEW q \in Places, Terminal(q, "J") # Bad
  PROVE  q.in = "csi"
  BY DEF Terminal, Places, States, Beyond

LEMMA NearStep ==
  ASSUME NEW q \in Places, Sound(q), NEW b, Terminal(q, b) # Bad,
         NEW t \in Trackers, TrackerNear(q, t), NEW off \in Nat
  PROVE  TrackerNear(Terminal(q, b), FeedTracker(t, b, off))
<1> USE DEF TrackerNear, Ground
<1>1. CASE t.rem > 0 /\ b = "cont"
  BY <1>1 DEF FeedTracker, Trackers, States
<1>2. CASE ~(t.rem > 0 /\ b = "cont")
  <2>0. t.state \in States
    BY DEF Trackers
  <2>1. CASE t.state = "ground"
    <3>1. CASE b = "esc"
      <4>1. FeedTracker(t, b, off) = [state |-> "esc", rem |-> 0, start |-> off]
        BY <1>2, <2>1, <3>1 DEF FeedTracker, FeedGround
      <4>2. Terminal(q, b).in \in {"esc", "string", "stringEsc", "dcs", "dcsEsc"}
        BY <3>1 DEF Terminal, Breaks, In, Bad, Places, States, Beyond
      <4> QED BY <4>1, <4>2
    <3>2. CASE b # "esc"
      <4>1. FeedTracker(t, b, off).state = "ground"
        BY <1>2, <2>1, <3>2 DEF FeedTracker, FeedGround
      <4> QED BY <4>1
    <3> QED BY <3>1, <3>2
  <2>2. CASE t.state = "esc"
    <3>0. /\ q.in \in {"esc", "string", "stringEsc", "dcs", "dcsEsc"}
          /\ t.rem = 0 /\ ~(q.left > 0)
      BY <2>2 DEF Trackers, Sound, Places
    <3>1. CASE b = "["
      <4>1. FeedTracker(t, b, off) = [t EXCEPT !.state = "csi"]
        BY <1>2, <2>2, <3>1 DEF FeedTracker
      <4> QED BY <3>0, <4>1 DEF Trackers
    <3>2. CASE b \in {"]", "P"}
      BY <1>2, <2>2, <3>0, <3>2 DEF FeedTracker, Terminal, In, Places
    <3>3. CASE b = "esc"
      <4>1. FeedTracker(t, b, off) = [t EXCEPT !.start = off]
        BY <1>2, <2>2, <3>3 DEF FeedTracker
      <4>2. Terminal(q, b).in \in {"esc", "string", "stringEsc", "dcs", "dcsEsc"}
        BY <3>0, <3>3 DEF Terminal, Breaks, In, Bad
      <4> QED BY <2>2, <3>0, <4>1, <4>2 DEF Trackers
    <3>4. CASE b \notin {"[", "]", "P", "esc"}
      BY <1>2, <2>2, <3>4 DEF FeedTracker
    <3> QED BY <3>1, <3>2, <3>3, <3>4
  <2>3. CASE t.state = "csi"
    BY <1>2, <2>3 DEF FeedTracker
  <2>4. CASE t.state = "string"
    <3>0. q.in \in {"string", "dcs"} /\ t.rem = 0 /\ ~(q.left > 0)
      BY <2>4 DEF Trackers, Sound, Places
    <3> QED BY <1>2, <2>4, <3>0 DEF FeedTracker, Terminal, In, Bad
  <2>5. CASE t.state = "stringEsc"
    <3>0. q.in \in {"stringEsc", "dcsEsc"} /\ t.rem = 0 /\ ~(q.left > 0)
      BY <2>5 DEF Trackers, Sound, Places
    <3> QED BY <1>2, <2>5, <3>0 DEF FeedTracker, Terminal, In, Bad
  <2> QED BY <2>0, <2>1, <2>2, <2>3, <2>4, <2>5 DEF States
<1> QED BY <1>1, <1>2

LEMMA ExactStep ==
  ASSUME NEW q \in Places, Sound(q), NEW b, Terminal(q, b) # Bad,
         NEW t \in Trackers, TrackerIs(q, t), NEW off \in Nat
  PROVE  TrackerIs(Terminal(q, b), FeedTracker(t, b, off))
<1> USE DEF TrackerIs, Over, Ground, None, In, Bad
<1>1. CASE q.left > 0
  <2>1. q.in = "ground" /\ b = "cont" /\ t.rem > 0 /\ q.left \in Nat
    BY <1>1 DEF Terminal, Sound, Places
  <2>2. CASE q.left = 1
    <3>1. Terminal(q, b) = [q EXCEPT !.left = 0]
      BY <1>1, <2>1, <2>2 DEF Terminal
    <3>2. Terminal(q, b) = In("ground")
      BY <2>1, <3>1 DEF Places
    <3>3. FeedTracker(t, b, off) = Ground
      BY <2>1, <2>2 DEF FeedTracker
    <3> QED BY <3>2, <3>3
  <2>3. CASE q.left # 1
    <3>1. Terminal(q, b) = [q EXCEPT !.left = q.left - 1] /\ q.left - 1 # 0
      BY <1>1, <2>1, <2>3 DEF Terminal
    <3>2. FeedTracker(t, b, off) = [t EXCEPT !.rem = t.rem - 1]
      BY <2>1, <2>3 DEF FeedTracker
    <3>3. t.start # None
      BY <1>1
    <3> QED BY <2>1, <3>1, <3>2, <3>3 DEF Places, Trackers
  <2> QED BY <2>2, <2>3
<1>2. CASE ~(q.left > 0)
  <2>0. q.left = 0 /\ t.rem = 0 /\ ~(t.rem > 0 /\ b = "cont")
    BY <1>2 DEF Places
  <2>9. q.in \in {"ground", "csiRest", "escRest"} <=> t.start = None
    BY <2>0 DEF Places
  <2>10. b \in Breaks <=> b \in {"esc", "bel", "cont"} \/ b \in DOMAIN UTF8
    BY DEF Breaks
  <2>1. CASE q.in = "ground"
    <3>1. CASE b = "esc"
      BY <2>0, <2>1, <3>1 DEF FeedTracker, FeedGround, Terminal, States
    <3>2. CASE b # "esc" /\ b \in DOMAIN UTF8
      <4>1. UTF8[b] \in Nat \ {0}
        BY <3>2, TtySyncAssumption
      <4> QED BY <2>0, <2>1, <3>2, <4>1 DEF FeedTracker, FeedGround, Terminal, States
    <3>3. CASE b # "esc" /\ b \notin DOMAIN UTF8
      <4>1. Terminal(q, b) = q
        BY <2>0, <2>1, <3>3 DEF Terminal
      <4>2. FeedTracker(t, b, off) = Ground
        BY <2>0, <2>1, <3>3 DEF FeedTracker, FeedGround, States
      <4> QED BY <2>0, <2>1, <2>9, <4>1, <4>2
    <3> QED BY <3>1, <3>2, <3>3
  <2>2. CASE q.in = "esc"
    BY <2>0, <2>2, <2>9, <2>10 DEF FeedTracker, Terminal, Trackers, States
  <2>3. CASE q.in = "csi"
    BY <2>0, <2>3, <2>9, <2>10 DEF FeedTracker, Terminal, Trackers, States
  <2>4. CASE q.in = "csiInter"
    BY <2>0, <2>4, <2>9, <2>10 DEF FeedTracker, Terminal, Trackers, States
  <2>5. CASE q.in = "string"
    BY <2>0, <2>5, <2>9, <2>10 DEF FeedTracker, Terminal, Trackers, States
  <2>6. CASE q.in = "stringEsc"
    BY <2>0, <2>6, <2>9, <2>10 DEF FeedTracker, Terminal, Trackers, States
  <2>11. CASE q.in = "csiRest"
    BY <2>0, <2>11, <2>9, <2>10 DEF FeedTracker, FeedGround, Terminal, Trackers, States
  <2>12. CASE q.in = "escRest"
    BY <2>0, <2>12, <2>9, <2>10 DEF FeedTracker, FeedGround, Terminal, Trackers, States
  <2>13. CASE q.in = "dcs"
    BY <2>0, <2>13, <2>9, <2>10 DEF FeedTracker, Terminal, Trackers, States
  <2>14. CASE q.in = "dcsEsc"
    BY <2>0, <2>14, <2>9, <2>10 DEF FeedTracker, Terminal, Trackers, States
  <2>7. q.in # "bad"
    BY <2>0 DEF Terminal
  <2> QED BY <2>1, <2>2, <2>3, <2>4, <2>5, <2>6, <2>7, <2>11, <2>12, <2>13, <2>14
          DEF Places, States, Beyond
<1> QED BY <1>1, <1>2

-----------------------------------------------------------------------------
(* What a chunk does to them. *)

\* The terminal, from q on, reads d through the places at.
Reading(at, q, d) == q \in Places /\ Sound(q) /\ Reads(at, q, d) /\ Fits(at, d)

LEMMA ReadingStep ==
  ASSUME NEW at, NEW q, NEW d \in Seq(Byte), Reading(at, q, d), NEW i \in 1 .. Len(d)
  PROVE  /\ at[i - 1] \in Places /\ at[i] = Terminal(at[i - 1], d[i].b) /\ at[i] # Bad
         /\ Stop(d[i]) <=> Over(at[i])
<1>1. i - 1 \in 0 .. Len(d)
  OBVIOUS
<1> QED BY <1>1 DEF Reading, Reads, Fits

LEMMA SoundAlong ==
  ASSUME NEW at, NEW q, NEW d \in Seq(Byte), Reading(at, q, d)
  PROVE  \A i \in 0 .. Len(d) : at[i] \in Places /\ Sound(at[i])
<1> DEFINE P == {i \in 0 .. Len(d) : Sound(at[i])}
<1>0. Len(d) \in Nat
  OBVIOUS
<1>1. 0 \in P
  BY <1>0 DEF Reading, Reads
<1>2. ASSUME NEW i \in 1 .. Len(d), i - 1 \in P PROVE i \in P
  BY <1>2, ReadingStep, SoundStep
<1>3. \A i \in 0 .. Len(d) : i \in P
  <2> HIDE DEF P
  <2> QED BY <1>0, <1>1, <1>2, Along
<1> QED BY <1>3 DEF Reading, Reads

LEMMA ParsedAt ==
  ASSUME NEW at, NEW q, NEW d \in Seq(Byte), Reading(at, q, d),
         NEW s \in States, ParserAt(q, s)
  PROVE  ParserAt(at[Len(d)], Parsed(s, d))
<1>0. Len(d) \in Nat
  OBVIOUS
<1>1. PICK f : Parses(f, s, d) /\ Parsed(s, d) = f[Len(d)]
  BY ParsedRun
<1> DEFINE P == {i \in 0 .. Len(d) : ParserAt(at[i], f[i])}
<1>2. 0 \in P
  BY <1>0, <1>1 DEF Reading, Reads, Parses
<1>3. ASSUME NEW i \in 1 .. Len(d), i - 1 \in P PROVE i \in P
  <2>1. i - 1 \in 0 .. Len(d)
    OBVIOUS
  <2>2. f[i - 1] \in States /\ f[i] = FeedParser(f[i - 1], d[i].b)
    BY <1>1, <2>1 DEF Parses
  <2>3. Sound(at[i - 1])
    BY <2>1, SoundAlong
  <2> QED BY <1>3, <2>2, <2>3, ReadingStep, ParserStep
<1>4. \A i \in 0 .. Len(d) : i \in P
  <2> HIDE DEF P
  <2> QED BY <1>0, <1>2, <1>3, Along
<1> QED BY <1>0, <1>1, <1>4

\* An erased screen is noticed as long as the parser has its place.
LEMMA WatchedHolds ==
  ASSUME NEW at, NEW q, NEW d \in Seq(Byte), Reading(at, q, d),
         NEW s \in States, NEW h \in BOOLEAN
  PROVE  /\ Watched(s, h, d) \in Watches
         /\ h => Watched(s, h, d).hold
         /\ ParserAt(q, s) /\ (\E k \in 1 .. Len(d) : d[k].b = "J") => Watched(s, h, d).hold
<1>0. Len(d) \in Nat
  OBVIOUS
<1>1. PICK f : Watching(f, s, h, d) /\ Watched(s, h, d) = f[Len(d)]
  BY WatchedRun
<1>2. ASSUME NEW i \in 1 .. Len(d)
      PROVE  i - 1 \in 0 .. Len(d) /\ f[i - 1] \in Watches /\ f[i] = Watch(f[i - 1], h, d[i].b)
  <2>1. i - 1 \in 0 .. Len(d)
    OBVIOUS
  <2> QED BY <1>1, <2>1 DEF Watching
<1>3. Watched(s, h, d) \in Watches
  BY <1>0, <1>1 DEF Watching
<1>4. ASSUME h PROVE Watched(s, h, d).hold
  <2> DEFINE P == {i \in 0 .. Len(d) : f[i].hold}
  <2>1. 0 \in P
    BY <1>0, <1>1, <1>4 DEF Watching
  <2>2. ASSUME NEW i \in 1 .. Len(d), i - 1 \in P PROVE i \in P
    <3>1. f[i - 1].hold /\ f[i] = Watch(f[i - 1], h, d[i].b)
      BY <1>2, <2>2
    <3>2. f[i].hold
      BY <3>1 DEF Watch
    <3> QED BY <3>2
  <2>3. \A i \in 0 .. Len(d) : i \in P
    <3> HIDE DEF P
    <3> QED BY <1>0, <2>1, <2>2, Along
  <2> QED BY <1>0, <1>1, <2>3
<1>5. ASSUME ParserAt(q, s), NEW k \in 1 .. Len(d), d[k].b = "J" PROVE Watched(s, h, d).hold
  <2> DEFINE P == {i \in 0 .. Len(d) :
                     /\ i >= k => f[i].hold
                     /\ ~f[i].hold \/ h => ParserAt(at[i], f[i].at)}
  <2>1. 0 \in P
    BY <1>0, <1>1, <1>5 DEF Watching, Reading, Reads
  <2>2. ASSUME NEW i \in 1 .. Len(d), i - 1 \in P PROVE i \in P
    <3> DEFINE r == f[i - 1]  b == d[i].b  p == at[i - 1]
    <3>1. r \in Watches /\ f[i] = Watch(r, h, b)
      BY <1>2
    <3>2. p \in Places /\ Sound(p) /\ at[i] = Terminal(p, b) /\ at[i] # Bad
      BY <1>2, ReadingStep, SoundAlong
    <3>3. /\ i - 1 >= k => r.hold
          /\ ~r.hold \/ h => ParserAt(p, r.at)
      BY <2>2
    <3>4. i = k => b = "J"
      BY <1>5
    <3>5. i >= k => i = k \/ i - 1 >= k
      OBVIOUS
    <3> HIDE DEF r, b, p
    <3>6. CASE r.hold /\ ~h
      BY <3>1, <3>6 DEF Watch
    <3>7. CASE ~(r.hold /\ ~h)
      <4>1. f[i] = [at |-> FeedParser(r.at, b), hold |-> r.hold \/ isDestructive(r.at, b)]
        BY <3>1, <3>7 DEF Watch
      <4>2. ParserAt(p, r.at) /\ r.at \in States
        BY <3>1, <3>3, <3>7 DEF Watches
      <4>3. ParserAt(at[i], FeedParser(r.at, b))
        BY <3>2, <4>2, ParserStep
      <4>4. b = "J" => r.at = "csi"
        BY <3>2, <4>2, ErasesInCSI DEF ParserAt
      <4>5. i >= k => f[i].hold
        <5>1. i >= k => r.hold \/ isDestructive(r.at, b)
          BY <3>3, <3>4, <3>5, <4>4 DEF isDestructive
        <5>2. f[i].hold = (r.hold \/ isDestructive(r.at, b))
          BY <4>1
        <5> QED BY <5>1, <5>2
      <4> QED BY <4>1, <4>3, <4>5
    <3> QED BY <3>6, <3>7
  <2>3. \A i \in 0 .. Len(d) : i \in P
    <3> HIDE DEF P
    <3> QED BY <1>0, <2>1, <2>2, Along
  <2> QED BY <1>0, <1>1, <2>3
<1> QED BY <1>3, <1>4, <1>5

\* What is kept back after n bytes of s erases nothing.
Held(s, n, t) ==
  t.start = None \/ (t.start \in 0 .. n /\ \A k \in t.start + 1 .. n : s[k].b # "J")

\* What goes out ends a sequence or a character.
CutAt(n, t) == IF t.start = None THEN n ELSE t.start
Cut(s, n, t) == CutAt(n, t) \in 0 .. n /\ (CutAt(n, t) = 0 \/ Stop(s[CutAt(n, t)]))

LEMMA StartStep ==
  ASSUME NEW t \in Trackers, NEW b, NEW off \in Nat
  PROVE  LET u == FeedTracker(t, b, off) IN
         \/ u.start = None
         \/ u.start = t.start
         \/ /\ u.start = off /\ (b = "esc" \/ b \in DOMAIN UTF8)
            /\ t.state \in {"ground", "esc"} /\ ~(t.rem > 0 /\ b = "cont")
<1>1. CASE t.rem > 0 /\ b = "cont"
  BY <1>1 DEF FeedTracker, Ground, Trackers
<1>2. CASE ~(t.rem > 0 /\ b = "cont") /\ t.state = "ground"
  BY <1>2 DEF FeedTracker, FeedGround, Ground
<1>3. CASE ~(t.rem > 0 /\ b = "cont") /\ t.state = "esc"
  BY <1>3 DEF FeedTracker, Ground, Trackers
<1>4. CASE ~(t.rem > 0 /\ b = "cont") /\ t.state \in {"csi", "string", "stringEsc"}
  BY <1>4 DEF FeedTracker, Ground, Trackers
<1> QED BY <1>1, <1>2, <1>3, <1>4 DEF Trackers, States

LEMMA ErasedIsGround ==
  ASSUME NEW q \in Places, NEW t \in Trackers, TrackerNear(q, t), Terminal(q, "J") # Bad, NEW off
  PROVE  FeedTracker(t, "J", off) = Ground
<1>1. q.in = "csi"
  BY ErasesInCSI
<1>2. t.state \notin {"string", "stringEsc"}
  BY <1>1 DEF TrackerNear
<1>3. "J" \notin DOMAIN UTF8
  BY TtySyncAssumption
<1> QED BY <1>2, <1>3 DEF FeedTracker, FeedGround, Trackers, States

LEMMA HeldStep ==
  ASSUME NEW q \in Places, NEW t \in Trackers, TrackerNear(q, t),
         NEW s \in Seq(Byte), NEW n \in Nat, n < Len(s), Terminal(q, s[n + 1].b) # Bad,
         Held(s, n, t)
  PROVE  Held(s, n + 1, FeedTracker(t, s[n + 1].b, n))
<1> DEFINE b == s[n + 1].b  u == FeedTracker(t, b, n)
<1>1. b = "J" => u.start = None
  BY ErasedIsGround DEF Ground
<1>2. \/ u.start = None \/ u.start = t.start
      \/ u.start = n /\ (b = "esc" \/ b \in DOMAIN UTF8)
  BY StartStep
<1> SUFFICES Held(s, n + 1, u)
  OBVIOUS
<1> HIDE DEF u
<1>3. CASE u.start = None
  BY <1>3 DEF Held
<1>4. CASE u.start # None /\ u.start = t.start
  <2>1. t.start \in 0 .. n /\ \A k \in t.start + 1 .. n : s[k].b # "J"
    BY <1>4 DEF Held
  <2>2. \A k \in t.start + 1 .. n + 1 : k = n + 1 \/ k \in t.start + 1 .. n
    BY <2>1
  <2>3. \A k \in t.start + 1 .. n + 1 : s[k].b # "J"
    BY <1>1, <1>4, <2>1, <2>2
  <2>4. t.start \in 0 .. n + 1
    BY <2>1
  <2> QED BY <1>4, <2>3, <2>4 DEF Held
<1>5. CASE u.start # None /\ u.start = n
  <2>1. \A k \in n + 1 .. n + 1 : s[k].b # "J"
    BY <1>1, <1>5
  <2> QED BY <1>5, <2>1 DEF Held
<1> QED BY <1>2, <1>3, <1>4, <1>5

LEMMA CutStep ==
  ASSUME NEW q \in Places, NEW t \in Trackers, TrackerIs(q, t), Sound(q),
         NEW s \in Seq(Byte), NEW n \in Nat, n < Len(s), Terminal(q, s[n + 1].b) # Bad,
         Stop(s[n + 1]) <=> Over(Terminal(q, s[n + 1].b)), Cut(s, n, t)
  PROVE  Cut(s, n + 1, FeedTracker(t, s[n + 1].b, n))
<1> DEFINE b == s[n + 1].b  u == FeedTracker(t, b, n)
<1>1. u.start = None <=> Over(Terminal(q, b))
  BY ExactStep DEF TrackerIs
<1>2. \/ u.start = None
      \/ u.start = t.start
      \/ /\ u.start = n /\ (b = "esc" \/ b \in DOMAIN UTF8)
         /\ t.state \in {"ground", "esc"} /\ ~(t.rem > 0 /\ b = "cont")
  BY StartStep
<1>3. u \in Trackers
  BY FeedTrackerType
<1> SUFFICES Cut(s, n + 1, u)
  OBVIOUS
<1> HIDE DEF u
<1>4. CASE u.start = None
  BY <1>1, <1>4 DEF Cut, CutAt
<1>5. CASE u.start # None /\ u.start = t.start
  BY <1>5 DEF Cut, CutAt
<1>6. CASE u.start # None /\ u.start # t.start
  <2>1. u.start = n /\ t.state \in {"ground", "esc"}
    BY <1>2, <1>6
  <2>2. t.start = None
    <3>1. CASE q.left > 0
      <4>1. b = "cont" /\ t.rem > 0
        BY <3>1 DEF Terminal, TrackerIs
      <4> QED BY <1>2, <1>6, <4>1
    <3>2. CASE ~(q.left > 0) /\ t.state = "ground"
      <4>1. q.left = 0 /\ q.in \in {"ground", "csiRest", "escRest"}
        BY <3>2 DEF TrackerIs, Places, States, Beyond, Terminal
      <4>2. Over(q)
        BY <4>1 DEF Places, In, Over
      <4> QED BY <4>2 DEF TrackerIs
    <3>3. CASE ~(q.left > 0) /\ t.state = "esc"
      <4>1. q.in = "esc" /\ b # "esc"
        BY <3>3 DEF TrackerIs, Terminal, Breaks, Places, States, Beyond
      <4>2. FeedTracker(t, b, n).start \in {None, t.start}
        BY <3>3, <4>1 DEF FeedTracker, TrackerIs, Ground, Trackers
      <4> QED BY <1>6, <4>2 DEF u
    <3> QED BY <2>1, <3>1, <3>2, <3>3
  <2>3. n = 0 \/ Stop(s[n])
    BY <2>2 DEF Cut, CutAt
  <2> QED BY <1>6, <2>1, <2>3 DEF Cut, CutAt
<1> QED BY <1>4, <1>5, <1>6

\* The tracker, at the end of e, takes in d.
LEMMA TrackedNear ==
  ASSUME NEW at, NEW q, NEW d \in Seq(Byte), Reading(at, q, d), NEW e \in Seq(Byte),
         NEW t \in Trackers, TrackerNear(q, t), Held(e, Len(e), t)
  PROVE  LET u == Tracked(t, d, Len(e)) IN
         TrackerNear(at[Len(d)], u) /\ Held(e \o d, Len(e \o d), u)
<1> DEFINE s == e \o d  m == Len(e)  n == Len(d)
<1>0. /\ m \in Nat /\ n \in Nat /\ s \in Seq(Byte) /\ Len(s) = m + n
      /\ \A i \in 1 .. m : s[i] = e[i]
      /\ \A i \in 1 .. n : s[m + i] = d[i]
  OBVIOUS
<1>1. PICK f : Tracks(f, t, d, m) /\ Tracked(t, d, m) = f[n]
  BY <1>0, TrackedRun
<1> DEFINE P == {i \in 0 .. n : TrackerNear(at[i], f[i]) /\ Held(s, m + i, f[i])}
<1>2. 0 \in P
  <2>1. at[0] = q /\ f[0] = t /\ m + 0 = m
    BY <1>0, <1>1 DEF Reading, Reads, Tracks
  <2>2. Held(s, m, t)
    <3>1. CASE t.start = None
      BY <3>1 DEF Held
    <3>2. CASE t.start # None
      <4>1. t.start \in 0 .. m /\ \A k \in t.start + 1 .. m : e[k].b # "J"
        BY <3>2 DEF Held
      <4>2. \A k \in t.start + 1 .. m : s[k] = e[k]
        BY <1>0, <4>1
      <4> QED BY <4>1, <4>2 DEF Held
    <3> QED BY <3>1, <3>2
  <2> QED BY <1>0, <2>1, <2>2
<1>3. ASSUME NEW i \in 1 .. n, i - 1 \in P PROVE i \in P
  <2> DEFINE p == at[i - 1]  g == f[i - 1]  k == m + i - 1
  <2>1. i - 1 \in 0 .. n
    BY <1>0
  <2>2. g \in Trackers /\ f[i] = FeedTracker(g, d[i].b, k)
    BY <1>1, <2>1 DEF Tracks
  <2>3. p \in Places /\ Sound(p) /\ at[i] = Terminal(p, d[i].b) /\ at[i] # Bad
    BY <2>1, ReadingStep, SoundAlong
  <2>4. k \in Nat /\ k < Len(s) /\ k + 1 = m + i /\ s[k + 1] = d[i] /\ m + (i - 1) = k
    BY <1>0
  <2>5. TrackerNear(p, g) /\ Held(s, k, g)
    BY <1>3, <2>4
  <2>6. s \in Seq(Byte)
    BY <1>0
  <2> HIDE DEF p, g, k, s
  <2>7. TrackerNear(at[i], f[i])
    BY <2>2, <2>3, <2>4, <2>5, NearStep
  <2>8. Held(s, k + 1, f[i])
    BY <2>2, <2>3, <2>4, <2>5, <2>6, HeldStep
  <2> QED BY <2>1, <2>4, <2>7, <2>8
<1>4. \A i \in 0 .. n : i \in P
  <2> HIDE DEF P, n
  <2> QED BY <1>0, <1>2, <1>3, Along
<1>5. n \in P
  <2> HIDE DEF P, n
  <2> QED BY <1>0, <1>4
<1> QED BY <1>0, <1>1, <1>5

LEMMA TrackedExact ==
  ASSUME NEW at, NEW q, NEW d \in Seq(Byte), Reading(at, q, d), NEW e \in Seq(Byte),
         NEW t \in Trackers, TrackerIs(q, t), Cut(e, Len(e), t)
  PROVE  LET u == Tracked(t, d, Len(e)) IN
         TrackerIs(at[Len(d)], u) /\ Cut(e \o d, Len(e \o d), u)
<1> DEFINE s == e \o d  m == Len(e)  n == Len(d)
<1>0. /\ m \in Nat /\ n \in Nat /\ s \in Seq(Byte) /\ Len(s) = m + n
      /\ \A i \in 1 .. m : s[i] = e[i]
      /\ \A i \in 1 .. n : s[m + i] = d[i]
  OBVIOUS
<1>1. PICK f : Tracks(f, t, d, m) /\ Tracked(t, d, m) = f[n]
  BY <1>0, TrackedRun
<1> DEFINE P == {i \in 0 .. n : TrackerIs(at[i], f[i]) /\ Cut(s, m + i, f[i])}
<1>2. 0 \in P
  <2>1. at[0] = q /\ f[0] = t /\ m + 0 = m
    BY <1>0, <1>1 DEF Reading, Reads, Tracks
  <2>2. Cut(s, m, t)
    <3>1. CutAt(m, t) \in 0 .. m /\ (CutAt(m, t) = 0 \/ Stop(e[CutAt(m, t)]))
      BY DEF Cut
    <3>2. CutAt(m, t) = 0 \/ s[CutAt(m, t)] = e[CutAt(m, t)]
      BY <1>0, <3>1
    <3> QED BY <3>1, <3>2 DEF Cut
  <2> QED BY <1>0, <2>1, <2>2
<1>3. ASSUME NEW i \in 1 .. n, i - 1 \in P PROVE i \in P
  <2> DEFINE p == at[i - 1]  g == f[i - 1]  k == m + i - 1
  <2>1. i - 1 \in 0 .. n
    BY <1>0
  <2>2. g \in Trackers /\ f[i] = FeedTracker(g, d[i].b, k)
    BY <1>1, <2>1 DEF Tracks
  <2>3. /\ p \in Places /\ Sound(p) /\ at[i] = Terminal(p, d[i].b) /\ at[i] # Bad
        /\ Stop(d[i]) <=> Over(at[i])
    BY <2>1, ReadingStep, SoundAlong
  <2>4. k \in Nat /\ k < Len(s) /\ k + 1 = m + i /\ s[k + 1] = d[i] /\ m + (i - 1) = k
    BY <1>0
  <2>5. TrackerIs(p, g) /\ Cut(s, k, g)
    BY <1>3, <2>4
  <2>6. s \in Seq(Byte)
    BY <1>0
  <2> HIDE DEF p, g, k, s
  <2>7. TrackerIs(at[i], f[i])
    BY <2>2, <2>3, <2>4, <2>5, ExactStep
  <2>8. Cut(s, k + 1, f[i])
    BY <2>2, <2>3, <2>4, <2>5, <2>6, CutStep
  <2> QED BY <2>1, <2>4, <2>7, <2>8
<1>4. \A i \in 0 .. n : i \in P
  <2> HIDE DEF P, n
  <2> QED BY <1>0, <1>2, <1>3, Along
<1>5. n \in P
  <2> HIDE DEF P, n
  <2> QED BY <1>0, <1>4
<1> QED BY <1>0, <1>1, <1>5

-----------------------------------------------------------------------------
(* What a flush leaves. *)

LEMMA SplitIsCut ==
  ASSUME NEW d \in Seq(Byte), NEW t \in Trackers, Held(d, Len(d), t)
  PROVE  /\ SplitAt(t, Len(d)) = CutAt(Len(d), t) /\ SplitAt(t, Len(d)) \in 0 .. Len(d)
         /\ SplitAt(t, Len(d)) # Len(d) => t.start = SplitAt(t, Len(d))
<1>1. Len(d) \in Nat
  OBVIOUS
<1>2. CASE t.start = None
  BY <1>1, <1>2 DEF SplitAt, CutAt, None
<1>3. CASE t.start # None
  <2>1. t.start \in 0 .. Len(d)
    BY <1>3 DEF Held
  <2> QED BY <1>1, <1>3, <2>1 DEF SplitAt, CutAt, None
<1> QED BY <1>2, <1>3

\* r stays behind of d, and u is known of it.
TailOf(d, t, r, u) ==
  r = SubSeq(d, SplitAt(t, Len(d)) + 1, Len(d)) /\ u = Rebase(t, SplitAt(t, Len(d)))

LEMMA TailHeld ==
  ASSUME NEW d \in Seq(Byte), NEW t \in Trackers, Held(d, Len(d), t),
         NEW r, NEW u, TailOf(d, t, r, u)
  PROVE  /\ r \in Seq(Byte) /\ u \in Trackers /\ Held(r, Len(r), u) /\ ~Clears(r)
         /\ Cut(r, Len(r), u)
         /\ \A q : /\ TrackerNear(q, t) => TrackerNear(q, u)
                   /\ TrackerIs(q, t) => TrackerIs(q, u)
<1> DEFINE n == Len(d)  k == SplitAt(t, n)
<1>0. r = SubSeq(d, k + 1, n) /\ u = Rebase(t, k)
  BY DEF TailOf
<1>1. n \in Nat /\ k \in 0 .. n
  BY SplitIsCut
<1>7. k = CutAt(n, t)
  BY SplitIsCut
<1> HIDE DEF k
<1>2. /\ r \in Seq(Byte) /\ Len(r) = n - k
      /\ \A i \in 1 .. n - k : r[i] = d[k + i]
  BY <1>0, <1>1
<1>3. CASE t.start = None
  <2>1. k = n /\ u = t
    BY <1>0, <1>1, <1>3, <1>7 DEF CutAt, Rebase, None
  <2>2. Len(r) = 0
    BY <1>1, <1>2, <2>1
  <2>3. ~Clears(r) /\ Held(r, Len(r), u) /\ Cut(r, Len(r), u)
    BY <1>2, <1>3, <2>1, <2>2 DEF Clears, Held, Cut, CutAt
  <2> QED BY <1>2, <2>1, <2>3
<1>4. CASE t.start # None
  <2>1. t.start \in 0 .. n /\ \A i \in t.start + 1 .. n : d[i].b # "J"
    BY <1>4 DEF Held
  <2>2. k = t.start
    BY <1>4, <1>7 DEF CutAt
  <2>3. u = [t EXCEPT !.start = 0]
    BY <1>0, <2>1, <2>2 DEF Rebase
  <2>4. u \in Trackers /\ u.start = 0 /\ u.state = t.state /\ u.rem = t.rem
    BY <2>3 DEF Trackers
  <2>5. \A i \in 1 .. n - k : r[i].b # "J"
    <3> SUFFICES ASSUME NEW i \in 1 .. n - k PROVE r[i].b # "J"
      OBVIOUS
    <3>1. k + i \in t.start + 1 .. n /\ r[i] = d[k + i]
      BY <1>1, <1>2, <2>1, <2>2
    <3> QED BY <2>1, <3>1
  <2>6. ~Clears(r)
    BY <1>1, <1>2, <2>5 DEF Clears
  <2>7. Held(r, Len(r), u) /\ Cut(r, Len(r), u)
    BY <1>1, <1>2, <2>4, <2>5 DEF Held, Cut, CutAt, None
  <2>8. \A q : /\ TrackerNear(q, t) => TrackerNear(q, u)
               /\ TrackerIs(q, t) => TrackerIs(q, u)
    BY <1>4, <2>4 DEF TrackerNear, TrackerIs, None
  <2> QED BY <1>2, <2>4, <2>6, <2>7, <2>8
<1> QED BY <1>3, <1>4

LEMMA FreshTracker ==
  /\ Ground \in Trackers /\ <<>> \in Seq(Byte) /\ ~Clears(<<>>)
  /\ Held(<<>>, Len(<<>>), Ground) /\ Cut(<<>>, Len(<<>>), Ground)
  /\ \A q : TrackerNear(q, Ground)
<1>1. <<>> \in Seq(Byte) /\ Len(<<>>) = 0
  OBVIOUS
<1> QED BY <1>1 DEF Ground, Trackers, States, None, Clears, Held, Cut, CutAt, TrackerNear

-----------------------------------------------------------------------------
(* The inductive invariant. *)

Types ==
  /\ cfg \in Settings /\ input \in Seq(Byte) /\ buf \in Seq(Byte)
  /\ tracker \in Trackers /\ parser \in States
  /\ holding \in BOOLEAN /\ ended \in BOOLEAN /\ astray \in BOOLEAN /\ torn \in BOOLEAN
  /\ idle \in Nat \cup {Off} /\ max \in Nat \cup {Off} /\ age \in Nat /\ quiet \in Nat

\* The idle timer runs whenever there is something to wait for; the ticks since
\* each timer was started and the ticks it has left make up what it was set to.
Timers ==
  /\ idle = Off => max = Off /\ age = 0 /\ quiet = 0
  /\ idle # Off => quiet + idle = (IF holding /\ cfg.hold > 0 THEN cfg.hold ELSE Idle)
  /\ idle # Off /\ cfg.max > 0 => max # Off /\ age + max <= cfg.max

\* What the parsers know when the terminal, from q on, is to read the rest.
Known(q) ==
  /\ cfg.hold > 0 /\ ~astray => ParserAt(q, parser)
  /\ cfg.sync => TrackerNear(q, tracker)
  /\ cfg.sync /\ ~torn => TrackerIs(q, tracker)
Placed == \E q, at : Reading(at, q, input) /\ Known(q)

\* What is kept back erases nothing, and what is not has ended.
KeptBack ==
  /\ cfg.sync => Held(buf, Len(buf), tracker)
  /\ cfg.sync /\ ~torn => Cut(buf, Len(buf), tracker)

\* An erased screen that waits is known of.
Noticed == cfg.hold > 0 /\ ~astray /\ Clears(buf) => holding

SyncInv == Types /\ (~ended => Timers /\ Placed /\ KeptBack /\ Noticed)

LEMMA ConfigTypes ==
  Types => /\ cfg.sync \in BOOLEAN /\ cfg.hold \in Nat /\ cfg.max \in Nat
           /\ Idle \in Nat /\ Idle # 0 /\ MaxBuffer \in Nat /\ MaxTail \in Nat
  BY TtySyncAssumption DEF Types

LEMMA InitialSync == SyncInit => SyncInv
<1> SUFFICES ASSUME SyncInit PROVE SyncInv
  OBVIOUS
<1>1. input \in Seq(Byte) /\ Whole(input)
  BY TtySyncAssumption DEF SyncInit, Byte, Class
<1>2. Types
  BY <1>1, FreshTracker DEF SyncInit, Types, States, Off
<1>3. Timers
  BY DEF SyncInit, Timers
<1>4. PICK at : Reads(at, In("ground"), input) /\ Fits(at, input)
  BY <1>1, WholeRun
<1>5. In("ground") \in Places /\ Sound(In("ground"))
  BY DEF In, Places, States, Sound
<1>6. Known(In("ground"))
  BY DEF Known, SyncInit, ParserAt, TrackerNear, TrackerIs, Over, States, Ground, In, None
<1>7. Placed
  BY <1>4, <1>5, <1>6 DEF Placed, Reading
<1>8. KeptBack /\ Noticed
  BY FreshTracker DEF SyncInit, KeptBack, Noticed
<1> QED BY <1>2, <1>3, <1>7, <1>8 DEF SyncInv

\* A flush with more to come, of d and what is known of its end.
Left(d, t) ==
  /\ buf' \in Seq(Byte) /\ tracker' \in Trackers /\ ~Clears(buf')
  /\ idle' = Off /\ max' = Off /\ holding' = FALSE /\ age' = 0 /\ quiet' = 0
  /\ ended' \in BOOLEAN /\ torn' \in BOOLEAN /\ (torn => torn')
  /\ cfg.sync => /\ Held(buf', Len(buf'), tracker')
                 /\ ~torn' => Cut(buf', Len(buf'), tracker')
                 /\ \A q : /\ TrackerNear(q, t) => TrackerNear(q, tracker')
                           /\ ~torn' /\ TrackerIs(q, t) => TrackerIs(q, tracker')

LEMMA Flushed ==
  ASSUME Types, NEW d \in Seq(Byte), NEW t \in Trackers, cfg.sync => Held(d, Len(d), t),
         ~torn /\ cfg.sync => Cut(d, Len(d), t),
         d = <<>> => buf = d /\ tracker = t, flush(d, t, FALSE)
  PROVE  Left(d, t)
<1> DEFINE split == IF cfg.sync THEN SplitAt(t, Len(d)) ELSE Len(d)
           long  == Len(d) - split > MaxTail
<1>0. cfg.sync \in BOOLEAN
  BY ConfigTypes
<1>1. /\ idle' = Off /\ max' = Off /\ holding' = FALSE /\ age' = 0 /\ quiet' = 0
      /\ torn' = (torn \/ (cfg.sync /\ long)) /\ torn' \in BOOLEAN /\ (torn => torn')
  BY DEF flush, Types
<1>2. ended' \in BOOLEAN
  BY DEF flush
<1> USE <1>0
<1>3. CASE d = <<>>
  <2>1. buf' = d /\ tracker' = t
    BY <1>3 DEF flush
  <2>2. ~Clears(buf')
    BY <1>3, <2>1, FreshTracker
  <2> QED BY <1>1, <1>2, <2>1, <2>2 DEF Left
<1>4. CASE d # <<>> /\ (~cfg.sync \/ long)
  <2>1. buf' = <<>> /\ tracker' = Ground
    BY <1>4 DEF flush
  <2> QED BY <1>1, <1>2, <1>4, <2>1, FreshTracker DEF Left
<1>5. CASE d # <<>> /\ cfg.sync /\ ~long
  <2>1. buf' = SubSeq(d, split + 1, Len(d)) /\ tracker' = Rebase(t, split)
    BY <1>5 DEF flush
  <2>2. split = SplitAt(t, Len(d)) /\ Held(d, Len(d), t)
    BY <1>5
  <2>4. TailOf(d, t, buf', tracker')
    BY <2>1, <2>2 DEF TailOf
  <2> HIDE DEF split, long
  <2>3. /\ buf' \in Seq(Byte) /\ tracker' \in Trackers /\ ~Clears(buf')
        /\ Held(buf', Len(buf'), tracker') /\ Cut(buf', Len(buf'), tracker')
        /\ \A q : /\ TrackerNear(q, t) => TrackerNear(q, tracker')
                  /\ TrackerIs(q, t) => TrackerIs(q, tracker')
    BY <2>2, <2>4, TailHeld
  <2> QED BY <1>1, <1>2, <2>3 DEF Left
<1> QED BY <1>3, <1>4, <1>5

\* The terminal reads a chunk, then the rest.
Chunked(n, d, r) == d = SubSeq(input, 1, n) /\ r = SubSeq(input, n + 1, Len(input))

LEMMA ChunkType ==
  ASSUME input \in Seq(Byte), NEW n \in 1 .. Len(input), NEW d, NEW r, Chunked(n, d, r)
  PROVE  /\ d \in Seq(Byte) /\ r \in Seq(Byte) /\ Len(d) = n /\ Len(r) = Len(input) - n
         /\ \A i \in 1 .. n : d[i] = input[i]
         /\ \A i \in 1 .. Len(r) : r[i] = input[n + i]
<1>1. Len(input) \in Nat
  OBVIOUS
<1>2. d \in Seq(Byte) /\ Len(d) = n /\ \A i \in 1 .. n : d[i] = input[i]
  BY DEF Chunked
<1>3. r \in Seq(Byte) /\ Len(r) = Len(input) - n /\ \A i \in 1 .. Len(input) - n : r[i] = input[n + i]
  BY <1>1 DEF Chunked
<1> QED BY <1>2, <1>3

LEMMA ReadOn ==
  ASSUME input \in Seq(Byte), NEW at, NEW q, Reading(at, q, input),
         NEW n \in 1 .. Len(input), NEW d, NEW r, Chunked(n, d, r)
  PROVE  \E a, z : Reading(a, q, d) /\ Reading(z, a[Len(d)], r)
<1> DEFINE m == Len(input)
           a == [i \in 0 .. n |-> at[i]]
           z == [i \in 0 .. m - n |-> at[n + i]]
<1>0. m \in Nat /\ n \in 0 .. m /\ n \in Nat /\ m - n \in Nat /\ n \in 0 .. n
  OBVIOUS
<1>1. /\ d \in Seq(Byte) /\ r \in Seq(Byte) /\ Len(d) = n /\ Len(r) = m - n
      /\ \A i \in 1 .. n : d[i] = input[i]
      /\ \A i \in 1 .. m - n : r[i] = input[n + i]
  BY ChunkType
<1>2. /\ at \in [0 .. m -> Places] /\ at[0] = q /\ q \in Places /\ Sound(q)
      /\ \A i \in 1 .. m : at[i] = Terminal(at[i - 1], input[i].b)
      /\ \A i \in 1 .. m : at[i] # Bad /\ (Stop(input[i]) <=> Over(at[i]))
  BY DEF Reading, Reads, Fits
<1>3. \A i \in 0 .. m : at[i] \in Places /\ Sound(at[i])
  BY SoundAlong
<1>4. Reading(a, q, d)
  <2>1. a \in [0 .. n -> Places] /\ a[0] = q
    BY <1>0, <1>2
  <2>2. ASSUME NEW i \in 1 .. n
        PROVE  a[i] = Terminal(a[i - 1], d[i].b) /\ a[i] # Bad /\ (Stop(d[i]) <=> Over(a[i]))
    <3>1. i \in 1 .. m /\ i - 1 \in 0 .. n /\ i \in 0 .. n
      BY <1>0
    <3>2. a[i] = at[i] /\ a[i - 1] = at[i - 1]
      BY <3>1
    <3> QED BY <1>1, <1>2, <3>1, <3>2
  <2> HIDE DEF a, m
  <2> QED BY <1>1, <1>2, <2>1, <2>2 DEF Reading, Reads, Fits
<1>5. Reading(z, a[n], r)
  <2>1. z \in [0 .. m - n -> Places] /\ z[0] = at[n] /\ a[n] = at[n]
    BY <1>0, <1>2
  <2>2. ASSUME NEW i \in 1 .. m - n
        PROVE  z[i] = Terminal(z[i - 1], r[i].b) /\ z[i] # Bad /\ (Stop(r[i]) <=> Over(z[i]))
    <3>1. n + i \in 1 .. m /\ i - 1 \in 0 .. m - n /\ i \in 0 .. m - n /\ n + (i - 1) = n + i - 1
      BY <1>0
    <3>2. z[i] = at[n + i] /\ z[i - 1] = at[n + i - 1]
      BY <3>1
    <3>3. /\ at[n + i] = Terminal(at[n + i - 1], input[n + i].b) /\ at[n + i] # Bad
          /\ Stop(input[n + i]) <=> Over(at[n + i])
      BY <1>2, <3>1
    <3>4. r[i] = input[n + i]
      BY <1>1
    <3> HIDE DEF z, m
    <3> QED BY <3>2, <3>3, <3>4
  <2>3. a[n] \in Places /\ Sound(a[n])
    BY <1>0, <1>3, <2>1
  <2> HIDE DEF a, z, m
  <2> QED BY <1>1, <2>1, <2>2, <2>3 DEF Reading, Reads, Fits
<1>6. Reading(a, q, d) /\ Reading(z, a[Len(d)], r)
  BY <1>1, <1>4, <1>5
<1> HIDE DEF a, z
<1> QED BY <1>6

\* What the parsers know of a chunk, and of where it leaves the terminal.
Learnt(q, p, d, w, t) ==
  /\ w \in Watches /\ t \in Trackers
  /\ cfg.hold > 0 /\ ~astray /\ w.at = Parsed(parser, d) => ParserAt(p, w.at)
  /\ cfg.hold > 0 /\ ~astray /\ Clears(buf \o d) => w.hold
  /\ cfg.sync => TrackerNear(p, t) /\ Held(buf \o d, Len(buf \o d), t)
  /\ cfg.sync /\ ~torn => TrackerIs(p, t) /\ Cut(buf \o d, Len(buf \o d), t)

Watcher(d) == IF cfg.hold > 0 THEN Watched(parser, holding, d)
              ELSE [at |-> parser, hold |-> FALSE]
Trackee(d) == IF cfg.sync THEN Tracked(tracker, d, Len(buf)) ELSE tracker

LEMMA Learns ==
  ASSUME SyncInv, ~ended, NEW d \in Seq(Byte), NEW q, NEW a, Reading(a, q, d), Known(q)
  PROVE  Learnt(q, a[Len(d)], d, Watcher(d), Trackee(d))
<1> DEFINE w == Watcher(d)  t == Trackee(d)  p == a[Len(d)]
<1>0. /\ Types /\ KeptBack /\ Noticed /\ cfg.sync \in BOOLEAN /\ buf \in Seq(Byte)
      /\ parser \in States /\ holding \in BOOLEAN /\ tracker \in Trackers
  BY ConfigTypes DEF SyncInv, Types
<1>1. w \in Watches
  <2>1. CASE cfg.hold > 0
    BY <1>0, <2>1, WatchedHolds DEF Watcher
  <2>2. CASE ~(cfg.hold > 0)
    BY <1>0, <2>2 DEF Watcher, Watches
  <2> QED BY <2>1, <2>2
<1>2. t \in Trackers
  <2>1. CASE cfg.sync
    <3>1. PICK f : Tracks(f, tracker, d, Len(buf)) /\ Tracked(tracker, d, Len(buf)) = f[Len(d)]
      BY <1>0, TrackedRun
    <3>2. f[Len(d)] \in Trackers
      BY <3>1 DEF Tracks
    <3> QED BY <2>1, <3>1, <3>2 DEF Trackee
  <2>2. CASE ~cfg.sync
    BY <1>0, <2>2 DEF Trackee
  <2> QED BY <2>1, <2>2
<1>3. ASSUME cfg.hold > 0, ~astray, w.at = Parsed(parser, d) PROVE ParserAt(p, w.at)
  BY <1>0, <1>3, ParsedAt DEF Known
<1>4. ASSUME cfg.hold > 0, ~astray, Clears(buf \o d) PROVE w.hold
  <2>1. w = Watched(parser, holding, d)
    BY <1>4 DEF Watcher
  <2>2. Clears(buf) \/ \E k \in 1 .. Len(d) : d[k].b = "J"
    <3>1. PICK k \in 1 .. Len(buf \o d) : (buf \o d)[k].b = "J"
      BY <1>0, <1>4 DEF Clears
    <3>2. CASE k \in 1 .. Len(buf)
      BY <1>0, <3>1, <3>2 DEF Clears
    <3>3. CASE k \notin 1 .. Len(buf)
      <4>1. k - Len(buf) \in 1 .. Len(d) /\ (buf \o d)[k] = d[k - Len(buf)]
        BY <1>0, <3>3
      <4> QED BY <3>1, <4>1
    <3> QED BY <3>2, <3>3
  <2>3. CASE Clears(buf)
    <3>1. holding
      BY <1>0, <1>4, <2>3 DEF Noticed
    <3> QED BY <1>0, <2>1, <3>1, WatchedHolds
  <2>4. CASE \E k \in 1 .. Len(d) : d[k].b = "J"
    <3>1. ParserAt(q, parser)
      BY <1>4 DEF Known
    <3> QED BY <1>0, <2>1, <2>4, <3>1, WatchedHolds
  <2> QED BY <2>2, <2>3, <2>4
<1>5. ASSUME cfg.sync PROVE TrackerNear(p, t) /\ Held(buf \o d, Len(buf \o d), t)
  <2>1. TrackerNear(q, tracker) /\ Held(buf, Len(buf), tracker)
    BY <1>0, <1>5 DEF Known, KeptBack
  <2> QED BY <1>0, <1>5, <2>1, TrackedNear DEF Trackee
<1>6. ASSUME cfg.sync, ~torn PROVE TrackerIs(p, t) /\ Cut(buf \o d, Len(buf \o d), t)
  <2>1. TrackerIs(q, tracker) /\ Cut(buf, Len(buf), tracker)
    BY <1>0, <1>6 DEF Known, KeptBack
  <2> QED BY <1>0, <1>6, <2>1, TrackedExact DEF Trackee
<1> QED BY <1>1, <1>2, <1>3, <1>4, <1>5, <1>6 DEF Learnt

-----------------------------------------------------------------------------
(* Every step keeps it. *)

LEMMA ReceiveKeeps ==
  ASSUME SyncInv, NEW n \in 1 .. Len(input), Receive(n)
  PROVE  SyncInv'
<1> DEFINE d == SubSeq(input, 1, n)  r == SubSeq(input, n + 1, Len(input))
           w == Watcher(d)  t == Trackee(d)
<1>0. Types /\ ~ended /\ Timers /\ KeptBack /\ Noticed /\ Placed /\ buf \in Seq(Byte)
  BY DEF SyncInv, Receive, Types
<1>1. /\ input' = r /\ parser' = w.at /\ cfg' = cfg
      /\ astray' = (astray \/ (cfg.hold > 0 /\ w.at # Parsed(parser, d)))
      /\ \/ flush(buf \o d, t, FALSE)
         \/ /\ buf' = buf \o d /\ tracker' = t /\ holding' = w.hold /\ Arm(w.hold)
            /\ quiet' = 0 /\ ended' = ended /\ age' = age /\ torn' = torn
  BY DEF Receive, Watcher, Trackee
<1>2. Chunked(n, d, r)
  BY DEF Chunked
<1>3. d \in Seq(Byte) /\ r \in Seq(Byte) /\ Len(d) = n
  BY <1>0, <1>2, ChunkType DEF Types
<1>4. PICK q, at : Reading(at, q, input) /\ Known(q)
  BY <1>0 DEF Placed
<1>5. PICK a, z, p : Reading(a, q, d) /\ Reading(z, p, r) /\ p = a[Len(d)]
  <2>1. PICK a, z : Reading(a, q, d) /\ Reading(z, a[Len(d)], r)
    BY <1>0, <1>2, <1>4, ReadOn DEF Types
  <2> QED BY <2>1
<1>6. Learnt(q, p, d, w, t)
  <2>1. Learnt(q, a[Len(d)], d, Watcher(d), Trackee(d))
    BY <1>0, <1>3, <1>4, <1>5, Learns
  <2> QED BY <1>5, <2>1
<1>7. buf \o d \in Seq(Byte) /\ buf \o d # <<>>
  <2>1. Len(buf \o d) = Len(buf) + n /\ n > 0 /\ Len(buf) \in Nat
    BY <1>0, <1>3
  <2> QED BY <1>0, <1>3, <2>1
<1> HIDE DEF d, r, w, t
<1>8. parser' \in States /\ astray' \in BOOLEAN /\ (astray => astray') /\ w.hold \in BOOLEAN
  BY <1>0, <1>1, <1>6 DEF Learnt, Watches, Types
<1>9. cfg.hold > 0 /\ ~astray' => ParserAt(p, parser')
  BY <1>1, <1>6 DEF Learnt
<1>10. cfg' \in Settings /\ input' \in Seq(Byte)
  BY <1>0, <1>1, <1>3 DEF Types
<1>11. CASE flush(buf \o d, t, FALSE)
  <2>1. Left(buf \o d, t)
    BY <1>0, <1>6, <1>7, <1>11, Flushed DEF Learnt
  <2>2. Types'
    BY <1>8, <1>10, <2>1 DEF Types, Left
  <2>3. Timers'
    BY <2>1 DEF Timers, Left
  <2>4. Known(p)'
    BY <1>1, <1>6, <1>9, <2>1 DEF Known, Learnt, Left
  <2>5. Placed'
    BY <1>1, <1>5, <2>4 DEF Placed
  <2>6. KeptBack' /\ Noticed'
    BY <1>1, <2>1 DEF KeptBack, Noticed, Left
  <2> QED BY <2>2, <2>3, <2>5, <2>6 DEF SyncInv
<1>12. CASE /\ buf' = buf \o d /\ tracker' = t /\ holding' = w.hold /\ Arm(w.hold)
            /\ quiet' = 0 /\ ended' = ended /\ age' = age /\ torn' = torn
  <2>0. cfg.hold \in Nat /\ cfg.max \in Nat /\ Idle \in Nat /\ Idle # 0
    BY <1>0, ConfigTypes
  <2>1. /\ max' = (IF cfg.max > 0 /\ max = Off THEN cfg.max ELSE max)
        /\ idle' = (IF w.hold /\ cfg.hold > 0 THEN cfg.hold ELSE Idle)
    BY <1>12 DEF Arm
  <2>9. max \in Nat \cup {Off} /\ age \in Nat
    BY <1>0 DEF Types
  <2>2. Types'
    BY <1>0, <1>6, <1>7, <1>8, <1>10, <1>12, <2>0, <2>1, <2>9 DEF Types, Learnt
  <2>3. idle' # Off /\ quiet' + idle' = (IF holding' /\ cfg'.hold > 0 THEN cfg'.hold ELSE Idle)
    BY <1>1, <1>12, <2>0, <2>1 DEF Off
  <2>4. cfg.max > 0 => max' # Off /\ age' + max' <= cfg.max
    <3>1. CASE max = Off
      <4>1. age = 0 \/ idle # Off
        BY <1>0 DEF Timers
      <4>2. cfg.max > 0 => age = 0
        BY <1>0, <3>1, <4>1 DEF Timers
      <4> QED BY <1>12, <2>0, <2>1, <3>1, <4>2 DEF Off
    <3>2. CASE max # Off
      <4>1. idle # Off /\ max' = max
        BY <1>0, <2>1, <3>2 DEF Timers
      <4>2. cfg.max > 0 => age + max <= cfg.max
        BY <1>0, <4>1 DEF Timers
      <4> QED BY <1>12, <3>2, <4>1, <4>2
    <3> QED BY <3>1, <3>2
  <2>5. Timers'
    BY <1>1, <2>3, <2>4 DEF Timers
  <2>6. Known(p)'
    BY <1>1, <1>6, <1>9, <1>12 DEF Known, Learnt
  <2>7. Placed'
    BY <1>1, <1>5, <2>6 DEF Placed
  <2>8. KeptBack'
    BY <1>1, <1>6, <1>12 DEF KeptBack, Learnt
  <2>10. Noticed'
    <3>1. cfg.hold > 0 /\ ~astray /\ Clears(buf \o d) => w.hold
      BY <1>6 DEF Learnt
    <3> QED BY <1>1, <1>8, <1>12, <3>1 DEF Noticed, Clears
  <2> QED BY <2>2, <2>5, <2>7, <2>8, <2>10 DEF SyncInv
<1> QED BY <1>1, <1>11, <1>12

LEMMA FiresKeep ==
  ASSUME SyncInv, IdleFires \/ MaxFires
  PROVE  SyncInv'
<1>1. /\ Types /\ ~ended /\ Timers /\ KeptBack /\ Noticed /\ Placed /\ flush(buf, tracker, FALSE)
      /\ cfg' = cfg /\ input' = input /\ parser' = parser /\ astray' = astray
  BY DEF SyncInv, IdleFires, MaxFires
<1>2. Left(buf, tracker)
  BY <1>1, Flushed DEF Types, KeptBack
<1>3. Types'
  BY <1>1, <1>2 DEF Types, Left
<1>4. Timers'
  BY <1>2 DEF Timers, Left
<1>5. PICK q, at : Reading(at, q, input) /\ Known(q)
  BY <1>1 DEF Placed
<1>6. Known(q)'
  BY <1>1, <1>2, <1>5 DEF Known, Left
<1>7. Placed'
  BY <1>1, <1>5, <1>6 DEF Placed
<1>8. KeptBack' /\ Noticed'
  BY <1>1, <1>2 DEF KeptBack, Noticed, Left
<1> QED BY <1>3, <1>4, <1>7, <1>8 DEF SyncInv

LEMMA ReadEndsKeeps == SyncInv /\ ReadEnds => SyncInv'
<1> SUFFICES ASSUME SyncInv, ReadEnds PROVE SyncInv'
  OBVIOUS
<1>1. /\ Types /\ ~ended /\ flush(buf, tracker, TRUE) /\ input' = <<>>
      /\ cfg' = cfg /\ parser' = parser /\ astray' = astray
  BY DEF SyncInv, ReadEnds
<1>2. /\ ended' /\ ended' \in BOOLEAN /\ holding' = FALSE /\ idle' = Off /\ max' = Off
      /\ age' = 0 /\ quiet' = 0 /\ torn' \in BOOLEAN
  BY <1>1 DEF flush, Types
<1>3. buf' \in {buf, <<>>} /\ tracker' \in {tracker, Ground}
  BY <1>1 DEF flush
<1>4. Types'
  BY <1>1, <1>2, <1>3, FreshTracker DEF Types
<1> QED BY <1>2, <1>4 DEF SyncInv

LEMMA TickKeeps == SyncInv /\ Tick => SyncInv'
<1> SUFFICES ASSUME SyncInv, Tick PROVE SyncInv'
  OBVIOUS
<1>1. /\ Types /\ ~ended /\ Timers /\ KeptBack /\ Noticed /\ Placed
      /\ idle # 0 /\ max # 0 /\ (idle # Off \/ max # Off)
      /\ idle' = (IF idle = Off THEN Off ELSE idle - 1)
      /\ max' = (IF max = Off THEN Off ELSE max - 1)
      /\ age' \in {age + 1, 0} /\ quiet' = quiet + 1
      /\ cfg' = cfg /\ input' = input /\ buf' = buf /\ tracker' = tracker /\ parser' = parser
      /\ holding' = holding /\ ended' = ended /\ astray' = astray /\ torn' = torn
  BY DEF SyncInv, Tick
<1>0. /\ idle \in Nat \cup {Off} /\ max \in Nat \cup {Off} /\ age \in Nat /\ quiet \in Nat
      /\ cfg.max \in Nat /\ cfg.hold \in Nat /\ Idle \in Nat
  BY <1>1, ConfigTypes DEF Types
<1>2. idle # Off
  BY <1>1 DEF Timers
<1>3. idle \in Nat /\ idle' = idle - 1 /\ idle' \in Nat
  BY <1>0, <1>1, <1>2
<1>4. max' \in Nat \cup {Off} /\ age' \in Nat /\ quiet' \in Nat
  BY <1>0, <1>1
<1>5. Types'
  BY <1>1, <1>3, <1>4 DEF Types
<1>6. quiet' + idle' = (IF holding' /\ cfg'.hold > 0 THEN cfg'.hold ELSE Idle)
  <2>1. quiet + idle = (IF holding /\ cfg.hold > 0 THEN cfg.hold ELSE Idle)
    BY <1>1, <1>2 DEF Timers
  <2>2. quiet' + idle' = quiet + idle
    BY <1>0, <1>1, <1>3
  <2> QED BY <1>1, <2>1, <2>2
<1>7. cfg.max > 0 => max' # Off /\ age' + max' <= cfg.max
  <2> SUFFICES ASSUME cfg.max > 0 PROVE max' # Off /\ age' + max' <= cfg.max
    OBVIOUS
  <2>1. max # Off /\ age + max <= cfg.max
    BY <1>1, <1>2 DEF Timers
  <2>2. max \in Nat /\ max' = max - 1 /\ max' \in Nat
    BY <1>0, <1>1, <2>1
  <2> QED BY <1>0, <1>1, <2>1, <2>2 DEF Off
<1>8. Timers'
  BY <1>1, <1>3, <1>6, <1>7 DEF Timers, Off
<1>9. PICK q, at : Reading(at, q, input) /\ Known(q)
  BY <1>1 DEF Placed
<1>10. Known(q)'
  BY <1>1, <1>9 DEF Known
<1>11. Placed'
  BY <1>1, <1>9, <1>10 DEF Placed
<1>12. KeptBack' /\ Noticed'
  BY <1>1 DEF KeptBack, Noticed, Clears
<1> QED BY <1>5, <1>8, <1>11, <1>12 DEF SyncInv

LEMMA SyncInductive == SyncInv /\ [SyncNext]_syncVars => SyncInv'
<1> SUFFICES ASSUME SyncInv, [SyncNext]_syncVars PROVE SyncInv'
  OBVIOUS
<1>1. ASSUME NEW n \in 1 .. Len(input), Receive(n) PROVE SyncInv'
  BY <1>1, ReceiveKeeps
<1>2. CASE IdleFires \/ MaxFires
  BY <1>2, FiresKeep
<1>3. CASE ReadEnds
  BY <1>3, ReadEndsKeeps
<1>4. CASE Tick
  BY <1>4, TickKeeps
<1>5. CASE UNCHANGED syncVars
  <2>1. /\ UNCHANGED <<cfg, input, buf, idle, max, tracker, parser, holding, ended>>
        /\ UNCHANGED <<age, quiet, astray, torn>>
    BY <1>5 DEF syncVars, pumpVars, histVars
  <2>2. Types' /\ (Timers => Timers') /\ (KeptBack => KeptBack') /\ (Noticed => Noticed')
    BY <2>1 DEF SyncInv, Types, Timers, KeptBack, Noticed, Clears
  <2>3. Placed => Placed'
    <3> SUFFICES ASSUME NEW q, NEW at, Reading(at, q, input), Known(q) PROVE Placed'
      BY DEF Placed
    <3>1. Known(q)'
      BY <2>1 DEF Known
    <3> QED BY <2>1, <3>1 DEF Placed
  <2> QED BY <2>1, <2>2, <2>3 DEF SyncInv
<1> QED BY <1>1, <1>2, <1>3, <1>4, <1>5 DEF SyncNext

\* Nothing that can be shown waits longer than MaxHold, or than the idle time once
\* it is silent, and an erased screen not shorter than HoldAfterDestructive
\* (PumpWithIdleConfig, both timers).
THEOREM WrapIsTimely == SyncSpec => []Timely
<1>1. SyncInv => Timely
  <2> SUFFICES ASSUME SyncInv, ~ended PROVE
        /\ cfg.max > 0 => age <= cfg.max
        /\ quiet <= (IF cfg.hold > Idle THEN cfg.hold ELSE Idle)
        /\ idle = 0 /\ Clears(buf) /\ ~astray => quiet >= cfg.hold
    BY DEF Timely
  <2>1. /\ Types /\ Timers /\ Noticed
        /\ idle \in Nat \cup {Off} /\ max \in Nat \cup {Off} /\ age \in Nat /\ quiet \in Nat
        /\ cfg.max \in Nat /\ cfg.hold \in Nat /\ Idle \in Nat
    BY ConfigTypes DEF SyncInv, Types
  <2>2. CASE idle = Off
    BY <2>1, <2>2 DEF Timers, Off
  <2>3. CASE idle # Off
    <3>1. /\ idle \in Nat
          /\ quiet + idle = (IF holding /\ cfg.hold > 0 THEN cfg.hold ELSE Idle)
          /\ cfg.max > 0 => max \in Nat /\ age + max <= cfg.max
      BY <2>1, <2>3 DEF Timers
    <3>2. cfg.max > 0 => age <= cfg.max
      BY <2>1, <3>1
    <3>3. quiet <= (IF cfg.hold > Idle THEN cfg.hold ELSE Idle)
      BY <2>1, <3>1
    <3>4. ASSUME idle = 0, Clears(buf), ~astray PROVE quiet >= cfg.hold
      BY <2>1, <3>1, <3>4 DEF Noticed
    <3> QED BY <3>2, <3>3, <3>4
  <2> QED BY <2>2, <2>3
<1> QED BY <1>1, InitialSync, SyncInductive, PTL DEF SyncSpec

-----------------------------------------------------------------------------
(* Picking places of a sequence. *)

\* Bytes on their way to the terminal: the program's and the markers put around them.
Out == Byte \cup {BSU, ESU}

LEMMA OutTypes ==
  /\ BSU \in Out /\ ESU \in Out /\ Byte \subseteq Out /\ Ours(BSU) /\ Ours(ESU)
  /\ \A x \in Byte : ~Ours(x)
<1>1. BSU.b = "BSU" /\ ESU.b = "ESU"
  BY DEF BSU, ESU
<1>2. \A x \in Byte : x.b # "BSU" /\ x.b # "ESU"
  BY DEF Byte, Class
<1> HIDE DEF BSU, ESU
<1> QED BY <1>1, <1>2 DEF Ours, Out

\* f picks what At picks, one place after the other.
Pick(S, d, i, x) == IF i \in S THEN Append(x, d[i]) ELSE x
Picks(f, d, S, E) ==
  /\ f \in [0 .. Len(d) -> Seq(E)] /\ f[0] = <<>>
  /\ \A i \in 1 .. Len(d) : f[i] = Pick(S, d, i, f[i - 1])

LEMMA AtRun ==
  ASSUME NEW E, NEW S, NEW d \in Seq(E)
  PROVE  \E f : Picks(f, d, S, E) /\ At(d, S) = f[Len(d)]
<1> DEFINE n == Len(d)
           F == [p \in (1 .. n) \X Seq(E) |-> Pick(S, d, p[1], p[2])]
           c == CHOOSE kept : kept = [i \in 0 .. n |->
                  IF i = 0 THEN <<>> ELSE Pick(S, d, i, kept[i - 1])]
<1>1. n \in Nat
  OBVIOUS
<1>2. F \in [(1 .. n) \X Seq(E) -> Seq(E)] /\ <<>> \in Seq(E)
  <2>1. \A i \in 1 .. n, x \in Seq(E) : Append(x, d[i]) \in Seq(E)
    BY AppendProperties, ElementOfSeq
  <2>2. \A i \in 1 .. n, x \in Seq(E) : Pick(S, d, i, x) \in Seq(E)
    BY <2>1 DEF Pick
  <2> QED BY <2>2
<1>3. PICK f : IsRun(f, Seq(E), n, F, <<>>)
  <2> HIDE DEF F, n
  <2> QED BY <1>1, <1>2, RunExists
<1>4. ASSUME NEW i \in 1 .. n
      PROVE  f[i] = Pick(S, d, i, f[i - 1])
  <2>1. i - 1 \in 0 .. n
    OBVIOUS
  <2>2. f[i - 1] \in Seq(E) /\ f[i] = F[<<i, f[i - 1]>>]
    BY <1>3, <2>1 DEF IsRun
  <2> QED BY <2>2
<1>5. f \in [0 .. n -> Seq(E)] /\ f[0] = <<>>
  BY <1>3 DEF IsRun
<1> HIDE DEF F
<1>6. f = [i \in 0 .. n |->
             IF i = 0 THEN <<>> ELSE Pick(S, d, i, f[i - 1])]
  BY <1>1, <1>4, <1>5
<1>7. c = [i \in 0 .. n |->
             IF i = 0 THEN <<>> ELSE Pick(S, d, i, c[i - 1])]
  BY <1>6
<1>8. At(d, S) = c[n]
  BY DEF At, Pick
<1> HIDE DEF c
<1>9. \A i \in 0 .. n : c[i] = f[i]
  <2>1. \A i \in 0 .. n : c[i] = IF i = 0 THEN <<>> ELSE Pick(S, d, i, c[i - 1])
    BY ONLY <1>7
  <2>2. c[0] = <<>>
    <3>1. 0 \in 0 .. n
      BY <1>1
    <3> HIDE DEF n
    <3> QED BY ONLY <2>1, <3>1
  <2>3. ASSUME NEW i \in 1 .. n PROVE c[i] = Pick(S, d, i, c[i - 1])
    <3>1. i \in 0 .. n /\ i # 0
      BY <1>1
    <3> HIDE DEF n
    <3> QED BY ONLY <2>1, <3>1
  <2>4. ASSUME NEW i \in 1 .. n, c[i - 1] = f[i - 1] PROVE c[i] = f[i]
    <3>1. c[i] = Pick(S, d, i, c[i - 1]) /\ f[i] = Pick(S, d, i, f[i - 1])
      BY <1>4, <2>3
    <3> QED BY ONLY <2>4, <3>1
  <2>5. Alike(c, f, n)
    BY <1>5, <2>2, <2>4 DEF Alike
  <2> HIDE DEF n
  <2> QED BY ONLY <1>1, <2>5, SameAlong
<1>10. At(d, S) = f[n]
  BY <1>1, <1>8, <1>9
<1> QED BY <1>4, <1>5, <1>10 DEF Picks

LEMMA AtType ==
  ASSUME NEW E, NEW S, NEW d \in Seq(E)
  PROVE  At(d, S) \in Seq(E)
<1>1. PICK f : Picks(f, d, S, E) /\ At(d, S) = f[Len(d)]
  BY AtRun
<1>2. Len(d) \in 0 .. Len(d)
  OBVIOUS
<1> QED BY <1>1, <1>2 DEF Picks

\* A byte the program's output is not allowed to lose.
Plainly(x) == ~Ours(x) /\ (cfg.sync => ~x.sync)

PlainIn(d) == {i \in DOMAIN d : Plainly(d[i])}

LEMMA PlainRun ==
  ASSUME NEW d \in Seq(Out)
  PROVE  \E f : Picks(f, d, PlainIn(d), Out) /\ Plain(d) = f[Len(d)]
<1>1. Plain(d) = At(d, PlainIn(d))
  BY DEF Plain, Plainly, PlainIn
<1>2. \E f : Picks(f, d, PlainIn(d), Out) /\ At(d, PlainIn(d)) = f[Len(d)]
  BY AtRun
<1> QED BY <1>1, <1>2

LEMMA PlainEmpty == Plain(<<>>) = <<>>
<1>1. <<>> \in Seq(Out) /\ Len(<<>>) = 0
  OBVIOUS
<1>2. PICK f : Picks(f, <<>>, PlainIn(<<>>), Out) /\ Plain(<<>>) = f[Len(<<>>)]
  BY <1>1, PlainRun
<1> QED BY <1>1, <1>2 DEF Picks

LEMMA PlainAppend ==
  ASSUME NEW d \in Seq(Out), NEW x \in Out
  PROVE  Plain(Append(d, x)) = IF Plainly(x) THEN Append(Plain(d), x) ELSE Plain(d)
<1> DEFINE e == Append(d, x)  n == Len(d)
           S == PlainIn(d)  T == PlainIn(e)
<1>1. /\ n \in Nat /\ e \in Seq(Out) /\ Len(e) = n + 1 /\ e[n + 1] = x
      /\ DOMAIN d = 1 .. n /\ DOMAIN e = 1 .. n + 1 /\ \A i \in 1 .. n : e[i] = d[i]
  OBVIOUS
<1>2. n + 1 \in T <=> Plainly(x)
  BY <1>1 DEF PlainIn
<1>3. \A i \in 1 .. n : i \in T <=> i \in S
  BY <1>1 DEF PlainIn
<1>4. PICK f : Picks(f, d, S, Out) /\ Plain(d) = f[n]
  BY PlainRun
<1>5. PICK g : Picks(g, e, T, Out) /\ Plain(e) = g[n + 1]
  BY <1>1, PlainRun
<1> HIDE DEF S, T, e, n
<1>6. \A i \in 0 .. n : f[i] = g[i]
  <2>1. f[0] = g[0]
    BY <1>4, <1>5 DEF Picks
  <2>2. ASSUME NEW i \in 1 .. n, f[i - 1] = g[i - 1] PROVE f[i] = g[i]
    <3>1. f[i] = Pick(S, d, i, f[i - 1])
      BY <1>4 DEF Picks, n
    <3>2. g[i] = Pick(T, e, i, g[i - 1])
      <4>1. i \in 1 .. Len(e)
        BY <1>1
      <4> QED BY <1>5, <4>1 DEF Picks
    <3> QED BY <1>1, <1>3, <2>2, <3>1, <3>2 DEF Pick
  <2>3. Alike(f, g, n)
    BY <2>1, <2>2 DEF Alike
  <2> QED BY ONLY <1>1, <2>3, SameAlong
<1>7. g[n + 1] = Pick(T, e, n + 1, g[n])
  <2>1. n + 1 \in 1 .. Len(e) /\ n + 1 - 1 = n
    BY <1>1
  <2> QED BY <1>1, <1>5, <2>1 DEF Picks
<1>8. f[n] = g[n]
  BY <1>1, <1>6
<1>9. e[n + 1] = x
  BY <1>1
<1> QED BY <1>2, <1>4, <1>5, <1>7, <1>8, <1>9 DEF Pick, e

\* The first i elements.
First(s, i) == SubSeq(s, 1, i)

LEMMA FirstGrows ==
  ASSUME NEW E, NEW s \in Seq(E)
  PROVE  /\ First(s, 0) = <<>> /\ First(s, Len(s)) = s
         /\ \A i \in 0 .. Len(s) : First(s, i) \in Seq(E) /\ Len(First(s, i)) = i
         /\ \A i \in 1 .. Len(s) : First(s, i) = Append(First(s, i - 1), s[i]) /\ s[i] \in E
<1>1. First(s, 0) = <<>> /\ First(s, Len(s)) = s
  BY DEF First
<1>2. \A i \in 0 .. Len(s) : First(s, i) \in Seq(E) /\ Len(First(s, i)) = i
  BY DEF First
<1>3. ASSUME NEW i \in 1 .. Len(s)
      PROVE  First(s, i) = Append(First(s, i - 1), s[i]) /\ s[i] \in E
  <2>1. i - 1 \in 0 .. Len(s) /\ i \in 0 .. Len(s) /\ s[i] \in E
    BY ElementOfSeq
  <2>2. /\ First(s, i) \in Seq(E) /\ Len(First(s, i)) = i
        /\ \A k \in 1 .. i : First(s, i)[k] = s[k]
        /\ First(s, i - 1) \in Seq(E) /\ Len(First(s, i - 1)) = i - 1
        /\ \A k \in 1 .. i - 1 : First(s, i - 1)[k] = s[k]
    BY <2>1 DEF First
  <2> DEFINE u == Append(First(s, i - 1), s[i])  v == First(s, i)
  <2>3. u \in Seq(E) /\ Len(u) = i /\ u[i] = s[i] /\ \A k \in 1 .. i - 1 : u[k] = s[k]
    BY <2>1, <2>2, AppendProperties
  <2>4. \A k \in 1 .. i : k = i \/ k \in 1 .. i - 1
    OBVIOUS
  <2>5. v \in Seq(E) /\ Len(v) = i /\ \A k \in 1 .. i : v[k] = s[k]
    BY <2>2
  <2> HIDE DEF u, v
  <2>6. \A k \in 1 .. i : v[k] = u[k]
    BY <2>3, <2>4, <2>5
  <2>7. u = v
    BY <2>3, <2>5, <2>6, SeqEqual
  <2> QED BY <2>1, <2>7 DEF u, v
<1> QED BY <1>1, <1>2, <1>3

LEMMA AppendConcat ==
  ASSUME NEW E, NEW d \in Seq(E), NEW e \in Seq(E), NEW x \in E
  PROVE  d \o Append(e, x) = Append(d \o e, x)
<1>1. <<x>> \in Seq(E) /\ d \o e \in Seq(E)
  OBVIOUS
<1>2. Append(e, x) = e \o <<x>> /\ Append(d \o e, x) = (d \o e) \o <<x>>
  BY <1>1, AppendIsConcat
<1>3. (d \o e) \o <<x>> = d \o (e \o <<x>>)
  BY <1>1, ConcatAssociative
<1> QED BY <1>2, <1>3

LEMMA PlainType ==
  ASSUME NEW d \in Seq(Out)
  PROVE  Plain(d) \in Seq(Out)
<1>1. At(d, PlainIn(d)) \in Seq(Out)
  BY AtType
<1> QED BY <1>1 DEF Plain, Plainly, PlainIn

LEMMA PlainConcat ==
  ASSUME NEW d \in Seq(Out), NEW e \in Seq(Out)
  PROVE  Plain(d \o e) = Plain(d) \o Plain(e)
<1> DEFINE n == Len(e)
           P == {i \in 0 .. n : Plain(d \o First(e, i)) = Plain(d) \o Plain(First(e, i))}
<1>0. n \in Nat /\ Plain(d) \in Seq(Out)
  BY PlainType
<1>1. 0 \in P
  <2>1. d \o <<>> = d /\ Plain(d) \o <<>> = Plain(d)
    BY <1>0, ConcatEmptySeq
  <2>2. First(e, 0) = <<>>
    BY FirstGrows
  <2>3. Plain(d \o First(e, 0)) = Plain(d) \o Plain(First(e, 0))
    BY <2>1, <2>2, PlainEmpty
  <2> HIDE DEF n
  <2>4. 0 \in 0 .. n
    BY <1>0
  <2> QED BY <2>3, <2>4
<1>2. ASSUME NEW i \in 1 .. n, i - 1 \in P PROVE i \in P
  <2> DEFINE h == First(e, i - 1)  x == e[i]
  <2>1. i - 1 \in 0 .. n /\ i \in 0 .. n
    BY <1>0
  <2>2. h \in Seq(Out) /\ x \in Out /\ First(e, i) = Append(h, x)
    BY <2>1, FirstGrows
  <2>3. Plain(d \o h) = Plain(d) \o Plain(h)
    BY <1>2
  <2> HIDE DEF h, x, n
  <2>4. d \o h \in Seq(Out) /\ Plain(h) \in Seq(Out)
    BY <2>2, PlainType
  <2>5. d \o Append(h, x) = Append(d \o h, x)
    BY <2>2, AppendConcat
  <2>6. Plain(d) \o Append(Plain(h), x) = Append(Plain(d) \o Plain(h), x)
    BY <1>0, <2>2, <2>4, AppendConcat
  <2>7. Plain(Append(h, x)) = IF Plainly(x) THEN Append(Plain(h), x) ELSE Plain(h)
    BY <2>2, PlainAppend
  <2>8. Plain(Append(d \o h, x)) = IF Plainly(x) THEN Append(Plain(d \o h), x) ELSE Plain(d \o h)
    BY <2>2, <2>4, PlainAppend
  <2>9. Plain(d \o First(e, i)) = Plain(d) \o Plain(First(e, i))
    BY ONLY <2>2, <2>3, <2>5, <2>6, <2>7, <2>8
  <2> QED BY <2>1, <2>9
<1>3. \A i \in 0 .. n : i \in P
  <2> HIDE DEF P, n
  <2> QED BY <1>0, <1>1, <1>2, Along
<1>4. n \in P
  <2> HIDE DEF P, n
  <2> QED BY <1>0, <1>3
<1>5. First(e, n) = e
  BY FirstGrows
<1> QED BY <1>4, <1>5

-----------------------------------------------------------------------------
(* What a flush writes and what it leaves are what there was. *)

\* r is a part of s, from its k-th place on.
PartOf(r, s, k) == k \in Nat /\ k + Len(r) <= Len(s) /\ \A i \in 1 .. Len(r) : r[i] = s[k + i]

\* The bytes of the markers are labelled as such.
Labels(s) == \A i \in 1 .. Len(s) : InMarker(s, i) => s[i].sync

LEMMA PartComplete ==
  ASSUME NEW r \in Seq(Byte), NEW s \in Seq(Byte), NEW k, PartOf(r, s, k),
         NEW j \in 1 .. Len(r), Complete(r, j)
  PROVE  Complete(s, k + j)
<1>0. Len(r) \in Nat /\ Len(s) \in Nat /\ k \in Nat
  BY DEF PartOf
<1>1. PICK b \in {"h", "l"} : \A m \in 1 .. 4 : r[j + m - 1].b = Marker(b)[m]
  BY DEF Complete
<1>2. j + 3 <= Len(r)
  BY DEF Complete
<1>3. ASSUME NEW m \in 1 .. 4 PROVE s[k + j + m - 1].b = Marker(b)[m]
  <2>1. j + m - 1 \in 1 .. Len(r) /\ k + (j + m - 1) = k + j + m - 1
    BY <1>0, <1>2
  <2>2. r[j + m - 1] = s[k + (j + m - 1)]
    BY <2>1 DEF PartOf
  <2> HIDE DEF PartOf
  <2> QED BY <1>1, <2>1, <2>2
<1>4. k + j + 3 <= Len(s)
  BY <1>0, <1>2 DEF PartOf
<1> QED BY <1>1, <1>3, <1>4 DEF Complete

LEMMA PartLabels ==
  ASSUME NEW r \in Seq(Byte), NEW s \in Seq(Byte), NEW k, PartOf(r, s, k), Labels(s)
  PROVE  Labels(r)
<1> SUFFICES ASSUME NEW i \in 1 .. Len(r), InMarker(r, i) PROVE r[i].sync
  BY DEF Labels
<1>0. Len(r) \in Nat /\ Len(s) \in Nat /\ k \in Nat /\ k + Len(r) <= Len(s)
  BY DEF PartOf
<1>1. PICK j \in 1 .. i : i <= j + 3 /\ Complete(r, j)
  BY DEF InMarker
<1>2. Complete(s, k + j)
  <2>1. j \in 1 .. Len(r)
    BY <1>0
  <2> QED BY <1>1, <2>1, PartComplete
<1>3. k + j \in 1 .. k + i /\ k + i <= k + j + 3 /\ k + i \in 1 .. Len(s)
  BY <1>0, <1>1
<1>4. InMarker(s, k + i)
  BY <1>2, <1>3 DEF InMarker
<1>5. s[k + i].sync
  BY <1>3, <1>4 DEF Labels
<1> QED BY <1>5 DEF PartOf

LEMMA PlainStripped ==
  ASSUME cfg.sync, NEW d \in Seq(Byte), Labels(d)
  PROVE  Stripped(d) \in Seq(Byte) /\ Plain(Stripped(d)) = Plain(d)
<1> DEFINE K == {i \in DOMAIN d : ~InMarker(d, i)}  n == Len(d)
<1>0. n \in Nat /\ DOMAIN d = 1 .. n
  OBVIOUS
<1>1. PICK f : Picks(f, d, K, Byte) /\ Stripped(d) = f[n]
  BY AtRun DEF Stripped
<1> DEFINE P == {i \in 0 .. n : Plain(f[i]) = Plain(First(d, i))}
<1>2. \A i \in 0 .. n : f[i] \in Seq(Byte) /\ f[i] \in Seq(Out)
  <2>1. \A i \in 0 .. n : f[i] \in Seq(Byte)
    BY <1>1 DEF Picks
  <2> QED BY <2>1, OutTypes
<1>3. \A i \in 0 .. n : First(d, i) \in Seq(Out)
  <2>1. \A i \in 0 .. n : First(d, i) \in Seq(Byte)
    BY FirstGrows
  <2> QED BY <2>1, OutTypes
<1>4. 0 \in P
  <2>1. First(d, 0) = <<>> /\ f[0] = <<>>
    BY <1>1, FirstGrows DEF Picks
  <2>2. Plain(f[0]) = Plain(First(d, 0))
    BY <2>1
  <2>3. 0 \in 0 .. n
    BY <1>0
  <2> QED BY <2>2, <2>3
<1>5. ASSUME NEW i \in 1 .. n, i - 1 \in P PROVE i \in P
  <2> DEFINE a == f[i - 1]  h == First(d, i - 1)  x == d[i]
  <2>1. i - 1 \in 0 .. n /\ i \in 0 .. n
    BY <1>0
  <2>2. a \in Seq(Out) /\ h \in Seq(Out) /\ x \in Byte /\ x \in Out /\ First(d, i) = Append(h, x)
    BY <1>2, <1>3, <2>1, FirstGrows, OutTypes
  <2>3. Plain(a) = Plain(h)
    BY <1>5
  <2>4. f[i] = Pick(K, d, i, a)
    BY <1>1 DEF Picks
  <2>5. i \notin K => ~Plainly(x)
    <3>1. i \notin K => InMarker(d, i)
      BY <1>0
    <3> QED BY <3>1 DEF Plainly, Labels
  <2> HIDE DEF a, h, x, K
  <2>6. Plain(Append(h, x)) = IF Plainly(x) THEN Append(Plain(h), x) ELSE Plain(h)
    BY <2>2, PlainAppend
  <2>7. Plain(Append(a, x)) = IF Plainly(x) THEN Append(Plain(a), x) ELSE Plain(a)
    BY <2>2, PlainAppend
  <2>8. f[i] = IF i \in K THEN Append(a, x) ELSE a
    BY <2>4 DEF Pick, x
  <2>9. Plain(f[i]) = Plain(First(d, i))
    BY ONLY <2>2, <2>3, <2>5, <2>6, <2>7, <2>8
  <2> QED BY <2>1, <2>9
<1>6. \A i \in 0 .. n : i \in P
  <2> HIDE DEF P, n
  <2> QED BY <1>0, <1>4, <1>5, Along
<1>7. n \in P /\ n \in 0 .. n
  <2> HIDE DEF P, n
  <2> QED BY <1>0, <1>6
<1>8. First(d, n) = d
  BY FirstGrows
<1> HIDE DEF n, K
<1> QED BY <1>1, <1>2, <1>7, <1>8

LEMMA OutSeq == \A d \in Seq(Byte) : d \in Seq(Out)
  BY OutTypes

LEMMA PlainWrapped ==
  ASSUME NEW x \in Seq(Byte)
  PROVE  wrapSync(x) \in Seq(Out) /\ Plain(wrapSync(x)) = Plain(x)
<1>0. x \in Seq(Out) /\ Plain(x) \in Seq(Out)
  BY OutSeq, PlainType
<1>1. CASE x = <<>>
  BY <1>0, <1>1 DEF wrapSync
<1>2. CASE x # <<>>
  <2>1. <<BSU>> \in Seq(Out) /\ <<ESU>> \in Seq(Out) /\ <<>> \in Seq(Out)
    BY OutTypes
  <2>2. <<BSU>> = Append(<<>>, BSU) /\ <<ESU>> = Append(<<>>, ESU)
    OBVIOUS
  <2>3. Plain(<<BSU>>) = <<>> /\ Plain(<<ESU>>) = <<>>
    <3>1. Plain(Append(<<>>, BSU)) = Plain(<<>>)
      <4>1. ~Plainly(BSU)
        BY OutTypes DEF Plainly
      <4> QED BY <2>1, <4>1, OutTypes, PlainAppend
    <3>2. Plain(Append(<<>>, ESU)) = Plain(<<>>)
      <4>1. ~Plainly(ESU)
        BY OutTypes DEF Plainly
      <4> QED BY <2>1, <4>1, OutTypes, PlainAppend
    <3> QED BY <2>2, <3>1, <3>2, PlainEmpty
  <2>4. wrapSync(x) = (<<BSU>> \o x) \o <<ESU>>
    BY <1>2 DEF wrapSync
  <2>5. <<BSU>> \o x \in Seq(Out) /\ wrapSync(x) \in Seq(Out)
    BY <1>0, <2>1, <2>4, ConcatProperties
  <2>6. Plain(<<BSU>> \o x) = <<>> \o Plain(x)
    <3>1. x \in Seq(Out)
      BY <1>0
    <3>2. Plain(<<BSU>> \o x) = Plain(<<BSU>>) \o Plain(x)
      BY ONLY <2>1, <3>1, PlainConcat
    <3> QED BY <2>3, <3>2
  <2>7. Plain((<<BSU>> \o x) \o <<ESU>>) = Plain(<<BSU>> \o x) \o <<>>
    <3>1. Plain((<<BSU>> \o x) \o <<ESU>>) = Plain(<<BSU>> \o x) \o Plain(<<ESU>>)
      BY ONLY <2>1, <2>5, PlainConcat
    <3> QED BY <2>3, <3>1
  <2>8. <<>> \o Plain(x) = Plain(x) /\ Plain(x) \o <<>> = Plain(x)
    BY <1>0, ConcatEmptySeq
  <2> QED BY <2>4, <2>5, <2>6, <2>7, <2>8
<1> QED BY <1>1, <1>2

LEMMA SplitRange ==
  ASSUME NEW t \in Trackers, NEW n \in Nat
  PROVE  SplitAt(t, n) \in 0 .. n
  BY DEF SplitAt, Trackers

LEMMA Parts ==
  ASSUME NEW d \in Seq(Byte), NEW k \in 0 .. Len(d)
  PROVE  LET h == SubSeq(d, 1, k)  r == SubSeq(d, k + 1, Len(d)) IN
         /\ h \in Seq(Byte) /\ r \in Seq(Byte) /\ h \o r = d
         /\ Len(h) = k /\ k + Len(r) = Len(d)
         /\ PartOf(h, d, 0) /\ PartOf(r, d, k)
<1> DEFINE h == SubSeq(d, 1, k)  r == SubSeq(d, k + 1, Len(d))
<1>0. Len(d) \in Nat
  OBVIOUS
<1>1. h \in Seq(Byte) /\ Len(h) = k /\ \A i \in 1 .. k : h[i] = d[i]
  OBVIOUS
<1>2. r \in Seq(Byte) /\ Len(r) = Len(d) - k /\ \A i \in 1 .. Len(d) - k : r[i] = d[k + i]
  BY <1>0
<1>3. h \o r = d
  <2> DEFINE u == h \o r  n == Len(d)  lh == Len(h)  lr == Len(r)
  <2>0. h \in Seq(Byte) /\ r \in Seq(Byte) /\ lh = k /\ lr = n - k /\ n \in Nat /\ k \in 0 .. n
    BY <1>0, <1>1, <1>2
  <2> HIDE DEF h, r
  <2>6. u \in Seq(Byte) /\ Len(u) = lh + lr
    BY ONLY <2>0, ConcatProperties
  <2> HIDE DEF n, lh, lr
  <2>1. u \in Seq(Byte) /\ Len(u) = n
    BY ONLY <2>0, <2>6
  <2>2. ASSUME NEW i \in 1 .. n PROVE u[i] = d[i]
    <3>0. i \in 1 .. lh + lr
      BY <2>0
    <3>1. u[i] = IF i <= k THEN h[i] ELSE r[i - k]
      <4>1. h \in Seq(Byte) /\ r \in Seq(Byte) /\ i \in 1 .. Len(h) + Len(r) /\ Len(h) = k
        BY <2>0, <3>0 DEF lh, lr
      <4> QED BY ONLY <4>1, ConcatProperties
    <3> HIDE DEF u
    <3>2. CASE i <= k
      BY <1>1, <3>1, <3>2
    <3>3. CASE ~(i <= k)
      <4>1. i - k \in 1 .. n - k /\ k + (i - k) = i
        BY <2>0, <3>3
      <4> QED BY <1>2, <3>1, <3>3, <4>1 DEF n
    <3> QED BY <3>2, <3>3
  <2> HIDE DEF u
  <2>3. u = d
    <3>1. d \in Seq(Byte) /\ Len(u) = Len(d) /\ \A i \in 1 .. Len(u) : u[i] = d[i]
      BY <2>1, <2>2 DEF n
    <3> QED BY ONLY <2>1, <3>1, SeqEqual
  <2> QED BY <2>3 DEF u
<1> HIDE DEF h, r
<1>4. PartOf(h, d, 0) /\ PartOf(r, d, k)
  BY <1>0, <1>1, <1>2 DEF PartOf
<1>5. k + Len(r) = Len(d)
  BY <1>0, <1>2
<1> QED BY <1>1, <1>2, <1>3, <1>4, <1>5 DEF h, r

LEMMA PartRest ==
  ASSUME NEW b \in Seq(Byte), NEW d \in Seq(Byte), NEW r \in Seq(Byte), NEW k,
         PartOf(b, d, k), k + Len(b) = Len(d)
  PROVE  /\ b \o r \in Seq(Byte) /\ d \o r \in Seq(Byte)
         /\ PartOf(b \o r, d \o r, k) /\ k + Len(b \o r) = Len(d \o r)
<1>1. /\ b \o r \in Seq(Byte) /\ d \o r \in Seq(Byte)
      /\ Len(b \o r) = Len(b) + Len(r) /\ Len(d \o r) = Len(d) + Len(r)
      /\ Len(b) \in Nat /\ Len(d) \in Nat /\ Len(r) \in Nat /\ k \in Nat
  BY ConcatProperties DEF PartOf
<1>2. ASSUME NEW i \in 1 .. Len(b \o r) PROVE (b \o r)[i] = (d \o r)[k + i]
  <2> DEFINE m == k + i  lb == Len(b)  ld == Len(d)  lr == Len(r)
  <2>0. lb \in Nat /\ ld \in Nat /\ lr \in Nat /\ k \in Nat /\ k + lb = ld /\ i \in 1 .. lb + lr
    BY <1>1
  <2> HIDE DEF lb, ld, lr
  <2>2. m \in 1 .. ld + lr /\ (i <= lb <=> m <= ld) /\ m - ld = i - lb /\ m = k + i
    BY ONLY <2>0
  <2>3. i <= lb => b[i] = d[k + i]
    BY <2>0 DEF PartOf, lb
  <2> HIDE DEF m
  <2>4. (b \o r)[i] = IF i <= lb THEN b[i] ELSE r[i - lb]
    BY <2>0, ConcatProperties DEF lb, lr
  <2>5. (d \o r)[m] = IF m <= ld THEN d[m] ELSE r[m - ld]
    BY <2>2, ConcatProperties DEF ld, lr
  <2>6. (b \o r)[i] = (d \o r)[m]
    BY ONLY <2>2, <2>3, <2>4, <2>5
  <2> QED BY <2>6 DEF m
<1>3. PartOf(b \o r, d \o r, k)
  <2> DEFINE u == b \o r  v == d \o r
  <2>1. k \in Nat /\ k + Len(u) <= Len(v) /\ \A i \in 1 .. Len(u) : u[i] = v[k + i]
    BY <1>1, <1>2
  <2> HIDE DEF u, v
  <2>2. PartOf(u, v, k)
    BY ONLY <2>1 DEF PartOf
  <2> QED BY ONLY <2>2 DEF u, v
<1>4. k + Len(b \o r) = Len(d \o r)
  BY <1>1
<1> QED BY <1>1, <1>3, <1>4

LEMMA Regroup ==
  ASSUME NEW b \in Seq(Byte), NEW d \in Seq(Byte), NEW r \in Seq(Byte)
  PROVE  (b \o d) \o r = b \o (d \o r)
  BY ConcatAssociative

\* w is written of d and b left.
Carried(w, b, d) ==
  /\ w \in Seq(Out) /\ b \in Seq(Byte) /\ Plain(w \o b) = Plain(d)
  /\ \E k : PartOf(b, d, k) /\ k + Len(b) = Len(d)

LEMMA FlushCarries ==
  ASSUME Types, NEW d \in Seq(Byte), NEW t \in Trackers, NEW eof \in BOOLEAN,
         cfg.sync => Labels(d), d = <<>> => buf = d, flush(d, t, eof)
  PROVE  /\ Carried(wrote', buf', d)
         /\ eof => Plain(wrote') = Plain(d)
<1> DEFINE split == IF cfg.sync THEN SplitAt(t, Len(d)) ELSE Len(d)
           long  == Len(d) - split > MaxTail
           head  == SubSeq(d, 1, split)
           tail  == SubSeq(d, split + 1, Len(d))
<1>0. cfg.sync \in BOOLEAN /\ Len(d) \in Nat /\ d \in Seq(Out)
      /\ <<>> \in Seq(Out) /\ <<>> \in Seq(Byte)
  BY ConfigTypes, OutSeq
<1>1. CASE d = <<>>
  <2>1. wrote' = <<>> /\ buf' = d
    BY <1>1 DEF flush, Writes
  <2>2. PartOf(d, d, 0)
    BY <1>1 DEF PartOf
  <2>3. <<>> \o d = d /\ 0 + Len(d) = Len(d)
    BY <1>1
  <2> QED BY <1>0, <1>1, <2>1, <2>2, <2>3 DEF Carried
<1>2. CASE d # <<>> /\ (~cfg.sync \/ long)
  <2>1. wrote' = d /\ buf' = <<>>
    BY <1>2 DEF flush, Writes
  <2>2. PartOf(<<>>, d, Len(d)) /\ Len(d) + Len(<<>>) = Len(d)
    BY <1>0 DEF PartOf
  <2>3. d \o <<>> = d
    BY <1>0, ConcatEmptySeq
  <2> QED BY <1>0, <2>1, <2>2, <2>3 DEF Carried
<1>3. CASE d # <<>> /\ cfg.sync /\ ~long
  <2> DEFINE x == wrapSync(Stripped(head))
  <2>1. /\ wrote' = x \o (IF eof THEN tail ELSE <<>>)
        /\ buf' = IF eof THEN <<>> ELSE tail
    BY <1>3 DEF flush, Writes
  <2>2. split \in 0 .. Len(d)
    BY <1>0, <1>3, SplitRange
  <2> HIDE DEF split, long
  <2>3. /\ head \in Seq(Byte) /\ tail \in Seq(Byte) /\ head \o tail = d
        /\ split + Len(tail) = Len(d)
        /\ PartOf(head, d, 0) /\ PartOf(tail, d, split)
    BY <2>2, Parts
  <2> HIDE DEF head, tail
  <2>4. Labels(head)
    BY <1>3, <2>3, PartLabels
  <2>5. Stripped(head) \in Seq(Byte) /\ Plain(Stripped(head)) = Plain(head)
    BY <1>3, <2>3, <2>4, PlainStripped
  <2>6. x \in Seq(Out) /\ Plain(x) = Plain(head)
    BY <2>5, PlainWrapped
  <2>7. head \in Seq(Out) /\ tail \in Seq(Out)
    BY <2>3, OutSeq
  <2> HIDE DEF x
  <2>8. Plain(x \o tail) = Plain(x) \o Plain(tail)
    BY ONLY <2>6, <2>7, PlainConcat
  <2>9. Plain(head \o tail) = Plain(head) \o Plain(tail)
    BY ONLY <2>7, PlainConcat
  <2>10. Plain(x \o tail) = Plain(d)
    BY <2>3, <2>6, <2>8, <2>9
  <2>11. x \o <<>> = x /\ x \o tail \in Seq(Out) /\ (x \o tail) \o <<>> = x \o tail
    BY <2>6, <2>7, ConcatEmptySeq, ConcatProperties
  <2>12. CASE eof
    <3>1. wrote' = x \o tail /\ buf' = <<>>
      BY <2>1, <2>12
    <3>2. PartOf(<<>>, d, Len(d)) /\ Len(d) + Len(<<>>) = Len(d)
      BY <1>0 DEF PartOf
    <3> QED BY <1>0, <2>10, <2>11, <3>1, <3>2 DEF Carried
  <2>13. CASE ~eof
    <3>1. wrote' = x /\ buf' = tail
      BY <2>1, <2>11, <2>13
    <3> QED BY <2>3, <2>6, <2>10, <2>13, <3>1 DEF Carried
  <2> QED BY <2>12, <2>13
<1>4. Carried(wrote', buf', d)
  BY <1>0, <1>1, <1>2, <1>3
<1>5. ASSUME eof PROVE Plain(wrote') = Plain(d)
  <2>1. buf' = <<>>
    <3>1. CASE d = <<>>
      BY <1>5, <3>1 DEF flush
    <3>2. CASE d # <<>>
      BY <1>5, <3>2 DEF flush
    <3> QED BY <3>1, <3>2
  <2>2. wrote' \o <<>> = wrote'
    BY <1>4, ConcatEmptySeq DEF Carried
  <2> QED BY <1>4, <2>1, <2>2 DEF Carried
<1> QED BY <1>4, <1>5

-----------------------------------------------------------------------------
(* Nothing is lost. *)

\* What has not been shown is labelled.
Labelled == ~ended => Labels(buf \o input)

LEMMA RestCarried ==
  ASSUME NEW w, NEW b, NEW d \in Seq(Byte), NEW r \in Seq(Byte), Carried(w, b, d),
         Labels(d \o r)
  PROVE  /\ Plain(w \o b \o r) = Plain(d \o r) /\ Labels(b \o r)
<1>0. w \in Seq(Out) /\ b \in Seq(Byte) /\ b \in Seq(Out) /\ d \in Seq(Out) /\ r \in Seq(Out)
  BY OutSeq DEF Carried
<1>1. w \o b \in Seq(Out) /\ Plain(w \o b) = Plain(d)
  BY <1>0, ConcatProperties DEF Carried
<1>2. Plain((w \o b) \o r) = Plain(w \o b) \o Plain(r)
  BY ONLY <1>0, <1>1, PlainConcat
<1>3. Plain(d \o r) = Plain(d) \o Plain(r)
  BY ONLY <1>0, PlainConcat
<1>4. PICK k : PartOf(b, d, k) /\ k + Len(b) = Len(d)
  BY DEF Carried
<1>7. b \o r \in Seq(Byte) /\ d \o r \in Seq(Byte) /\ PartOf(b \o r, d \o r, k)
  BY <1>0, <1>4, PartRest
<1>8. Labels(b \o r)
  BY <1>7, PartLabels
<1> QED BY <1>1, <1>2, <1>3, <1>8

\* The step of Intact.
Faithful ==
  LET there == Plain(buf \o input)  left == Plain(wrote' \o buf' \o input') IN
  IF input' # <<>> \/ ~ended' THEN left = there ELSE IsPrefix(left, there)

LEMMA PrefixOf ==
  ASSUME NEW s \in Seq(Out), NEW t \in Seq(Out)
  PROVE  IsPrefix(s, s \o t)
<1> DEFINE u == s \o t
<1>1. /\ Len(s) \in Nat /\ Len(t) \in Nat /\ u \in Seq(Out) /\ Len(u) = Len(s) + Len(t)
      /\ \A i \in 1 .. Len(s) : u[i] = s[i]
  OBVIOUS
<1> HIDE DEF u
<1>2. SubSeq(s, 1, Len(s)) = s
  OBVIOUS
<1>3. SubSeq(u, 1, Len(s)) \in Seq(Out) /\ Len(SubSeq(u, 1, Len(s))) = Len(s)
      /\ \A i \in 1 .. Len(s) : SubSeq(u, 1, Len(s))[i] = s[i]
  BY <1>1
<1>4. SubSeq(u, 1, Len(s)) = s
  BY <1>3, SeqEqual
<1>5. Len(s) <= Len(u)
  BY <1>1
<1> QED BY <1>2, <1>4, <1>5 DEF IsPrefix, u

LEMMA FaithfulIf ==
  ASSUME Plain(wrote' \o buf' \o input') = Plain(buf \o input),
         buf \in Seq(Byte), input \in Seq(Byte)
  PROVE  Faithful
<1>1. buf \o input \in Seq(Out)
  BY OutSeq, ConcatProperties
<1>2. Plain(buf \o input) \in Seq(Out)
  BY <1>1, PlainType
<1> DEFINE p == Plain(buf \o input)
<1> HIDE DEF p
<1>3. IsPrefix(p, p)
  <2>1. p \in Seq(Out) /\ <<>> \in Seq(Out)
    BY <1>2 DEF p
  <2>2. p \o <<>> = p
    BY <2>1, ConcatEmptySeq
  <2>3. IsPrefix(p, p \o <<>>)
    BY ONLY <2>1, PrefixOf
  <2> QED BY <2>2, <2>3
<1> QED BY <1>3 DEF Faithful, p

LEMMA ReceiveIntact ==
  ASSUME SyncInv, Labelled, NEW n \in 1 .. Len(input), Receive(n)
  PROVE  Faithful /\ Labelled'
<1> DEFINE d == SubSeq(input, 1, n)  r == SubSeq(input, n + 1, Len(input))  t == Trackee(d)
<1>0. Types /\ ~ended /\ Labels(buf \o input) /\ buf \in Seq(Byte) /\ input \in Seq(Byte)
  BY DEF SyncInv, Labelled, Receive, Types
<1>1. /\ input' = r
      /\ flush(buf \o d, t, FALSE) \/ (buf' = buf \o d /\ wrote' = <<>>)
  BY DEF Receive, Trackee, Writes
<1>2. n \in 0 .. Len(input) /\ n > 0
  OBVIOUS
<1>3. d \in Seq(Byte) /\ r \in Seq(Byte) /\ d \o r = input /\ Len(d) = n
  BY <1>0, <1>2, Parts
<1>4. PICK q, at : Reading(at, q, input) /\ Known(q)
  BY <1>0 DEF SyncInv, Placed
<1>5. t \in Trackers
  <2>1. Chunked(n, d, r)
    BY DEF Chunked
  <2>2. PICK a, z : Reading(a, q, d)
    BY <1>0, <1>4, <2>1, ReadOn
  <2>3. Learnt(q, a[Len(d)], d, Watcher(d), Trackee(d))
    BY <1>0, <1>3, <1>4, <2>2, Learns
  <2> QED BY <2>3 DEF Learnt
<1> HIDE DEF d, r, t
<1> DEFINE e == buf \o d
<1>6. e \in Seq(Byte) /\ Len(e) > 0 /\ e \o r = buf \o input
  <2>0. buf \in Seq(Byte) /\ d \in Seq(Byte) /\ r \in Seq(Byte)
    BY <1>0, <1>3
  <2>1. e \in Seq(Byte) /\ Len(e) = Len(buf) + Len(d) /\ Len(buf) \in Nat
    BY ONLY <2>0
  <2>2. (buf \o d) \o r = buf \o (d \o r)
    BY ONLY <2>0, Regroup
  <2> QED BY <1>2, <1>3, <2>1, <2>2
<1>7. PartOf(e, <<>> \o e \o r, 0) /\ e # <<>>
  <2>1. Len(e) \in Nat /\ Len(r) \in Nat /\ e \in Seq(Byte) /\ r \in Seq(Byte)
    BY <1>3, <1>6
  <2> HIDE DEF e
  <2>2. Len(e \o r) = Len(e) + Len(r) /\ \A i \in 1 .. Len(e) : (e \o r)[i] = e[i]
    BY <2>1
  <2>3. <<>> \o e = e
    BY <1>6, ConcatEmptySeq
  <2> QED BY <1>6, <2>1, <2>2, <2>3 DEF PartOf
<1>8. Carried(wrote', buf', e)
  <2>1. CASE flush(e, t, FALSE)
    <3>1. Labels(e)
      <4>1. <<>> \o e = e /\ e \o r \in Seq(Byte)
        BY <1>3, <1>6, ConcatEmptySeq, ConcatProperties
      <4> HIDE DEF e
      <4> QED BY <1>0, <1>6, <1>7, <4>1, PartLabels
    <3> HIDE DEF e
    <3> QED BY <1>0, <1>5, <1>6, <1>7, <2>1, <3>1, FlushCarries
  <2>2. CASE buf' = e /\ wrote' = <<>>
    <3> HIDE DEF e
    <3>1. <<>> \o e = e /\ <<>> \in Seq(Out)
      BY <1>6, ConcatEmptySeq
    <3>2. PartOf(e, e, 0) /\ 0 + Len(e) = Len(e)
      BY <1>6 DEF PartOf
    <3> QED BY <1>6, <2>2, <3>1, <3>2 DEF Carried
  <2> QED BY <1>1, <2>1, <2>2
<1> HIDE DEF e
<1>9. Labels(e \o r)
  BY <1>0, <1>6
<1>10. Plain(wrote' \o buf' \o r) = Plain(e \o r) /\ Labels(buf' \o r)
  BY <1>3, <1>6, <1>8, <1>9, RestCarried
<1>11. Faithful
  BY <1>0, <1>1, <1>6, <1>10, FaithfulIf
<1> QED BY <1>1, <1>10, <1>11 DEF Labelled

LEMMA FiresIntact ==
  ASSUME SyncInv, Labelled, IdleFires \/ MaxFires
  PROVE  Faithful /\ Labelled'
<1>1. /\ Types /\ Labels(buf \o input) /\ flush(buf, tracker, FALSE) /\ input' = input
      /\ buf \in Seq(Byte) /\ input \in Seq(Byte) /\ tracker \in Trackers
  BY DEF SyncInv, Labelled, IdleFires, MaxFires, Types
<1>2. Labels(buf)
  <2>1. /\ Len(buf) \in Nat /\ Len(input) \in Nat /\ buf \o input \in Seq(Byte)
        /\ Len(buf \o input) = Len(buf) + Len(input)
        /\ \A i \in 1 .. Len(buf) : (buf \o input)[i] = buf[i]
    BY <1>1
  <2>2. PartOf(buf, buf \o input, 0)
    BY <2>1 DEF PartOf
  <2> QED BY <1>1, <2>1, <2>2, PartLabels
<1>3. Carried(wrote', buf', buf)
  BY <1>1, <1>2, FlushCarries
<1>4. Plain(wrote' \o buf' \o input) = Plain(buf \o input) /\ Labels(buf' \o input)
  BY <1>1, <1>3, RestCarried
<1>5. Faithful
  BY <1>1, <1>4, FaithfulIf
<1> QED BY <1>1, <1>4, <1>5 DEF Labelled

LEMMA ReadEndsIntact ==
  ASSUME SyncInv, Labelled, ReadEnds
  PROVE  Faithful /\ Labelled'
<1>1. /\ Types /\ Labels(buf \o input) /\ flush(buf, tracker, TRUE) /\ input' = <<>>
      /\ buf \in Seq(Byte) /\ input \in Seq(Byte) /\ tracker \in Trackers
  BY DEF SyncInv, Labelled, ReadEnds, Types
<1>2. ended' = TRUE
  BY <1>1 DEF flush
<1>3. Labels(buf)
  <2>1. /\ Len(buf) \in Nat /\ Len(input) \in Nat /\ buf \o input \in Seq(Byte)
        /\ Len(buf \o input) = Len(buf) + Len(input)
        /\ \A i \in 1 .. Len(buf) : (buf \o input)[i] = buf[i]
    BY <1>1
  <2>2. PartOf(buf, buf \o input, 0)
    BY <2>1 DEF PartOf
  <2> QED BY <1>1, <2>1, <2>2, PartLabels
<1>4. Carried(wrote', buf', buf)
  BY <1>1, <1>3, FlushCarries
<1>5. wrote' \o buf' \o <<>> = wrote' \o buf' /\ Plain(wrote' \o buf') = Plain(buf)
  <2>1. wrote' \in Seq(Out) /\ buf' \in Seq(Out) /\ Plain(wrote' \o buf') = Plain(buf)
    BY <1>4, OutSeq DEF Carried
  <2>2. wrote' \o buf' \in Seq(Out)
    BY <2>1, ConcatProperties
  <2>3. (wrote' \o buf') \o <<>> = wrote' \o buf'
    BY <2>2, ConcatEmptySeq
  <2> QED BY <2>1, <2>3
<1>6. buf \in Seq(Out) /\ input \in Seq(Out)
  BY <1>1, OutSeq
<1>7. Plain(buf \o input) = Plain(buf) \o Plain(input)
  BY ONLY <1>6, PlainConcat
<1>8. Plain(buf) \in Seq(Out) /\ Plain(input) \in Seq(Out)
  BY <1>6, PlainType
<1>9. IsPrefix(Plain(buf), Plain(buf) \o Plain(input))
  BY ONLY <1>8, PrefixOf
<1>10. Plain(wrote' \o buf' \o input') = Plain(buf)
  BY <1>1, <1>5
<1>11. IsPrefix(Plain(wrote' \o buf' \o input'), Plain(buf \o input))
  BY <1>7, <1>9, <1>10
<1> QED BY <1>1, <1>2, <1>11 DEF Faithful, Labelled

\* Nothing but the program's markers is dropped, doubled or moved (Pump.flush,
\* wrapSync and stripSyncMarkers, wherever the reads and the bursts end).
THEOREM WrapIsIntact == SyncSpec => Intact
<1>1. SyncInit => SyncInv /\ Labelled
  <2> SUFFICES ASSUME SyncInit PROVE SyncInv /\ Labelled
    OBVIOUS
  <2>1. input \in Seq(Byte) /\ Marked(input) /\ buf = <<>>
    BY TtySyncAssumption DEF SyncInit, Byte, Class
  <2>2. <<>> \o input = input
    BY <2>1, ConcatEmptySeq
  <2>3. Labels(input)
    BY <2>1 DEF Labels, Marked
  <2> QED BY <2>1, <2>2, <2>3, InitialSync DEF Labelled
<1>2. SyncInv /\ Labelled /\ [SyncNext]_syncVars => [Faithful]_syncVars /\ Labelled'
  <2> SUFFICES ASSUME SyncInv, Labelled, [SyncNext]_syncVars
               PROVE  [Faithful]_syncVars /\ Labelled'
    OBVIOUS
  <2>1. ASSUME NEW n \in 1 .. Len(input), Receive(n) PROVE Faithful /\ Labelled'
    BY <2>1, ReceiveIntact
  <2>2. CASE IdleFires \/ MaxFires
    BY <2>2, FiresIntact
  <2>3. CASE ReadEnds
    BY <2>3, ReadEndsIntact
  <2>4. CASE Tick
    <3>1. /\ wrote' = <<>> /\ buf' = buf /\ input' = input /\ ended' = ended
          /\ buf \in Seq(Byte) /\ input \in Seq(Byte)
      BY <2>4 DEF Tick, Writes, SyncInv, Types
    <3>2. <<>> \o buf = buf
      BY <3>1, ConcatEmptySeq
    <3>3. wrote' \o buf' \o input' = buf \o input
      BY <3>1, <3>2
    <3>4. Faithful
      BY <3>1, <3>3, FaithfulIf
    <3> QED BY <3>1, <3>4 DEF Labelled
  <2>5. CASE UNCHANGED syncVars
    BY <2>5 DEF syncVars, pumpVars, Labelled
  <2> QED BY <2>1, <2>2, <2>3, <2>4, <2>5 DEF SyncNext
<1> QED BY <1>1, <1>2, SyncInductive, PTL DEF SyncSpec, Intact, Faithful

-----------------------------------------------------------------------------
(* Where a burst may be cut. *)

LEMMA WholeMarker ==
  ASSUME NEW r \in Seq(Byte), NEW s \in Seq(Byte), NEW k, PartOf(r, s, k),
         NEW j \in 1 .. Len(r), j + 3 <= Len(r), Complete(s, k + j)
  PROVE  Complete(r, j)
<1>0. Len(r) \in Nat /\ Len(s) \in Nat /\ k \in Nat
  BY DEF PartOf
<1>1. PICK b \in {"h", "l"} : \A m \in 1 .. 4 : s[k + j + m - 1].b = Marker(b)[m]
  BY DEF Complete
<1>2. ASSUME NEW m \in 1 .. 4 PROVE r[j + m - 1].b = Marker(b)[m]
  <2>1. j + m - 1 \in 1 .. Len(r) /\ k + (j + m - 1) = k + j + m - 1
    BY <1>0
  <2>2. r[j + m - 1] = s[k + (j + m - 1)]
    BY <2>1 DEF PartOf
  <2> HIDE DEF PartOf
  <2> QED BY <1>1, <2>1, <2>2
<1> QED BY <1>1, <1>2 DEF Complete

LEMMA MarkerAt ==
  ASSUME NEW s \in Seq(Byte), Marked(s), NEW j \in 1 .. Len(s), Complete(s, j)
  PROVE  /\ j + 3 <= Len(s) /\ \A i \in j .. j + 2 : ~Stop(s[i])
         /\ Stop(s[j + 3]) => j = 1 \/ Stop(s[j - 1])
<1>1. j + 3 <= Len(s) /\ (Stop(s[j + 3]) => j = 1 \/ Stop(s[j - 1]))
  BY DEF Complete, Marked
<1>2. \A k \in 0 .. 2 : ~Stop(s[j + k])
  BY DEF Marked
<1>3. ASSUME NEW i \in j .. j + 2 PROVE ~Stop(s[i])
  <2>1. i - j \in 0 .. 2 /\ j + (i - j) = i
    OBVIOUS
  <2> QED BY <1>2, <2>1
<1> QED BY <1>1, <1>3

\* No marker lies across the end of a sequence.
LEMMA NoneAcross ==
  ASSUME NEW s \in Seq(Byte), Marked(s), NEW j \in 1 .. Len(s), Complete(s, j),
         NEW k \in 1 .. Len(s), Stop(s[k])
  PROVE  k < j \/ j + 3 <= k
<1>1. k \in j .. j + 2 => ~Stop(s[k])
  BY MarkerAt
<1> QED BY <1>1

\* Cut where a sequence ends, the rest is as well marked as the whole.
LEMMA PartMarked ==
  ASSUME NEW r \in Seq(Byte), NEW s \in Seq(Byte), NEW k, PartOf(r, s, k),
         k + Len(r) = Len(s), k = 0 \/ Stop(s[k]), Marked(s)
  PROVE  Marked(r)
<1>0. Len(r) \in Nat /\ Len(s) \in Nat /\ k \in Nat
  BY DEF PartOf
<1>1. \A i \in 1 .. Len(r) : k + i \in 1 .. Len(s) /\ r[i] = s[k + i]
  BY <1>0 DEF PartOf
<1>2. ASSUME NEW i \in 1 .. Len(r), r[i].sync PROVE InMarker(r, i)
  <2>1. InMarker(s, k + i)
    BY <1>1, <1>2 DEF Marked
  <2>2. PICK j \in 1 .. k + i : k + i <= j + 3 /\ Complete(s, j)
    BY <2>1 DEF InMarker
  <2>3. j \in 1 .. Len(s) /\ j + 3 <= Len(s)
    BY <1>0, <1>1, <2>2 DEF Complete
  <2>4. j > k
    <3>1. CASE k = 0
      BY <2>2, <3>1
    <3>2. CASE k # 0
      <4>1. k \in 1 .. Len(s) /\ Stop(s[k])
        BY <1>0, <3>2
      <4>2. k < j \/ j + 3 <= k
        BY <2>2, <2>3, <4>1, NoneAcross
      <4> QED BY <1>0, <2>2, <4>2
    <3> QED BY <3>1, <3>2
  <2> DEFINE m == j - k
  <2>5. /\ m \in 1 .. i /\ m \in 1 .. Len(r) /\ m + 3 <= Len(r) /\ i <= m + 3 /\ k + m = j
    BY <1>0, <2>2, <2>3, <2>4
  <2> HIDE DEF m
  <2>6. Complete(r, m)
    BY <2>2, <2>5, WholeMarker
  <2> QED BY <2>5, <2>6 DEF InMarker
<1>3. ASSUME NEW i \in 1 .. Len(r), InMarker(r, i) PROVE r[i].sync
  <2>1. Labels(s)
    BY DEF Marked, Labels
  <2>2. Labels(r)
    BY <2>1, PartLabels
  <2> QED BY <1>3, <2>2 DEF Labels
<1>4. ASSUME NEW j \in 1 .. Len(r), Complete(r, j)
      PROVE  /\ \A m \in 0 .. 2 : ~Stop(r[j + m])
             /\ Stop(r[j + 3]) => j = 1 \/ Stop(r[j - 1])
  <2>1. Complete(s, k + j) /\ k + j \in 1 .. Len(s) /\ j + 3 <= Len(r)
    <3>1. Complete(s, k + j)
      BY <1>4, PartComplete
    <3>2. k + j \in 1 .. Len(s)
      BY <1>1
    <3>3. j + 3 <= Len(r)
      BY <1>4 DEF Complete
    <3> QED BY <3>1, <3>2, <3>3
  <2>2. /\ \A i \in k + j .. k + j + 2 : ~Stop(s[i])
        /\ Stop(s[k + j + 3]) => k + j = 1 \/ Stop(s[(k + j) - 1])
    <3> DEFINE c == k + j
    <3>1. c \in 1 .. Len(s) /\ Complete(s, c)
      BY <2>1
    <3> HIDE DEF c
    <3>2. (\A i \in c .. c + 2 : ~Stop(s[i])) /\ (Stop(s[c + 3]) => c = 1 \/ Stop(s[c - 1]))
      BY <3>1, MarkerAt
    <3> QED BY ONLY <3>2 DEF c
  <2>3. ASSUME NEW m \in 0 .. 2 PROVE ~Stop(r[j + m])
    <3>1. j + m \in 1 .. Len(r) /\ k + (j + m) \in k + j .. k + j + 2
      BY <1>0, <2>1
    <3> QED BY <1>1, <2>2, <3>1
  <2>4. ASSUME Stop(r[j + 3]), j # 1 PROVE Stop(r[j - 1])
    <3> DEFINE n == Len(r)
    <3>0. n \in Nat /\ k \in Nat /\ j \in 1 .. n /\ j # 1 /\ j + 3 <= n
      BY <1>0, <2>1, <2>4
    <3> HIDE DEF n
    <3>3. /\ j + 3 \in 1 .. n /\ j - 1 \in 1 .. n
          /\ k + (j + 3) = k + j + 3 /\ k + (j - 1) = (k + j) - 1 /\ k + j # 1
      BY ONLY <3>0
    <3>1. /\ j + 3 \in 1 .. Len(r) /\ j - 1 \in 1 .. Len(r)
          /\ k + (j + 3) = k + j + 3 /\ k + (j - 1) = (k + j) - 1 /\ k + j # 1
      BY ONLY <3>3 DEF n
    <3>2. r[j + 3] = s[k + j + 3] /\ r[j - 1] = s[(k + j) - 1]
      BY <1>1, <3>1
    <3> QED BY <2>2, <2>4, <3>1, <3>2
  <2> QED BY <2>3, <2>4
<1>5. \A i \in 1 .. Len(r) : r[i].sync <=> InMarker(r, i)
  BY <1>2, <1>3
<1> QED BY <1>4, <1>5 DEF Marked

\* x ends where something ends.
Ends(x) == x = <<>> \/ Stop(x[Len(x)])

\* What is put between our markers has none of the program's and ends a sequence.
LEMMA StrippedWell ==
  ASSUME NEW h \in Seq(Byte), NEW s \in Seq(Byte), PartOf(h, s, 0), Marked(s), Ends(h)
  PROVE  /\ Stripped(h) \in Seq(Byte) /\ Ends(Stripped(h))
         /\ \A m \in 1 .. Len(Stripped(h)) : ~Stripped(h)[m].sync
<1> DEFINE K == {i \in DOMAIN h : ~InMarker(h, i)}  n == Len(h)
<1>0. n \in Nat /\ DOMAIN h = 1 .. n /\ \A i \in 1 .. n : h[i] \in Byte
  BY ElementOfSeq
<1>1. PICK f : Picks(f, h, K, Byte) /\ Stripped(h) = f[n]
  BY AtRun DEF Stripped
<1>2. \A i \in 0 .. n : f[i] \in Seq(Byte)
  BY <1>1 DEF Picks
<1>3. f[0] = <<>> /\ \A i \in 1 .. n : f[i] = IF InMarker(h, i) THEN f[i - 1] ELSE Append(f[i - 1], h[i])
  BY <1>0, <1>1 DEF Picks, Pick
<1> HIDE DEF K
<1>4. n <= Len(s) /\ \A i \in 1 .. n : h[i] = s[i]
  BY <1>0 DEF PartOf
<1>5. ASSUME NEW i \in 1 .. n, h[i].sync PROVE InMarker(h, i)
  <2>0. Len(s) \in Nat /\ i \in 1 .. Len(s) /\ n \in 1 .. Len(s) /\ s[i].sync
    BY <1>0, <1>4, <1>5
  <2>1. InMarker(s, i)
    BY <2>0 DEF Marked
  <2>2. PICK j \in 1 .. i : i <= j + 3 /\ Complete(s, j)
    BY <2>1 DEF InMarker
  <2>3. j \in 1 .. Len(s) /\ j \in 1 .. n
    BY <1>0, <2>0
  <2>4. Stop(s[n])
    <3>1. h # <<>>
      BY <1>0
    <3>2. n \in 1 .. n
      BY <1>0
    <3> QED BY <1>4, <3>1, <3>2 DEF Ends
  <2>5. n < j \/ j + 3 <= n
    BY <2>0, <2>2, <2>3, <2>4, NoneAcross
  <2>6. j + 3 <= n
    BY <1>0, <2>5
  <2>7. Complete(h, j)
    <3>1. Complete(s, 0 + j)
      BY <2>2
    <3> QED BY <2>3, <2>6, <3>1, WholeMarker
  <2> QED BY <2>2, <2>7 DEF InMarker
<1>6. \A i \in 0 .. n : \A m \in 1 .. Len(f[i]) : ~f[i][m].sync
  <2> DEFINE P == {i \in 0 .. n : \A m \in 1 .. Len(f[i]) : ~f[i][m].sync}
  <2>1. 0 \in P
    BY <1>0, <1>3
  <2>2. ASSUME NEW i \in 1 .. n, i - 1 \in P PROVE i \in P
    <3> DEFINE a == f[i - 1]  x == h[i]
    <3>1. i \in 0 .. n /\ i - 1 \in 0 .. n
      BY <1>0
    <3>2. a \in Seq(Byte) /\ x \in Byte /\ \A m \in 1 .. Len(a) : ~a[m].sync
      BY <1>0, <1>2, <2>2, <3>1
    <3>3. f[i] = a \/ (f[i] = Append(a, x) /\ ~x.sync)
      BY <1>3, <1>5
    <3> HIDE DEF a, x
    <3>4. \A m \in 1 .. Len(Append(a, x)) : m = Len(a) + 1 \/ m \in 1 .. Len(a)
      BY <3>2
    <3>5. Append(a, x)[Len(a) + 1] = x /\ \A m \in 1 .. Len(a) : Append(a, x)[m] = a[m]
      BY <3>2
    <3>6. \A m \in 1 .. Len(f[i]) : ~f[i][m].sync
      BY <3>2, <3>3, <3>4, <3>5
    <3> QED BY <3>1, <3>6
  <2>3. \A i \in 0 .. n : i \in P
    <3> HIDE DEF P, n
    <3> QED BY <1>0, <2>1, <2>2, Along
  <2> QED BY <2>3
<1>7. \A i \in 0 .. n : (i = 0 \/ Stop(h[i])) => Ends(f[i])
  <2> DEFINE P == {i \in 0 .. n : \A m \in 0 .. i : (m = 0 \/ Stop(h[m])) => Ends(f[m])}
  <2>1. 0 \in P
    BY <1>0, <1>3 DEF Ends
  <2>2. ASSUME NEW i \in 1 .. n, i - 1 \in P PROVE i \in P
    <3>0. i \in 0 .. n /\ i - 1 \in 0 .. n /\ \A m \in 0 .. i : m = i \/ m \in 0 .. i - 1
      BY <1>0
    <3>1. \A m \in 0 .. i - 1 : (m = 0 \/ Stop(h[m])) => Ends(f[m])
      BY <2>2
    <3>2. ASSUME Stop(h[i]) PROVE Ends(f[i])
      <4>1. CASE ~InMarker(h, i)
        <5> DEFINE a == f[i - 1]  x == h[i]  y == f[i]
        <5>1. a \in Seq(Byte) /\ x \in Byte /\ y = Append(a, x) /\ Stop(x)
          BY <1>0, <1>2, <1>3, <3>0, <3>2, <4>1
        <5> HIDE DEF a, x, y
        <5>2. Len(y) = Len(a) + 1 /\ y[Len(a) + 1] = x
          BY <5>1
        <5>3. Ends(y)
          BY <5>1, <5>2 DEF Ends
        <5> QED BY <5>3 DEF y
      <4>2. CASE InMarker(h, i)
        <5>1. PICK j \in 1 .. i : i <= j + 3 /\ Complete(h, j)
          BY <4>2 DEF InMarker
        <5>2. j \in 1 .. n /\ j \in 1 .. Len(s) /\ Len(s) \in Nat /\ j + 3 <= n
          BY <1>0, <1>4, <5>1 DEF Complete
        <5>3. Complete(s, j)
          <6>1. Complete(s, 0 + j)
            BY <5>1, <5>2, PartComplete
          <6>2. 0 + j = j
            BY <5>2
          <6> QED BY <6>1, <6>2
        <5>4. (\A m \in j .. j + 2 : ~Stop(s[m])) /\ (Stop(s[j + 3]) => j = 1 \/ Stop(s[j - 1]))
          BY <5>2, <5>3, MarkerAt
        <5>5. Stop(s[i])
          BY <1>4, <3>2
        <5>6. i = j + 3
          BY <5>1, <5>4, <5>5
        <5>7. j - 1 \in 0 .. i - 1 /\ (j - 1 = 0 \/ Stop(h[j - 1]))
          <6>1. j = 1 \/ Stop(s[j - 1])
            BY <5>4, <5>5, <5>6
          <6>2. j # 1 => j - 1 \in 1 .. n
            BY <1>0, <5>2
          <6> QED BY <1>4, <5>1, <6>1, <6>2
        <5>8. Ends(f[j - 1])
          BY <3>1, <5>7
        <5>9. \A m \in j .. i : f[m] = f[m - 1]
          <6> SUFFICES ASSUME NEW m \in j .. i PROVE f[m] = f[m - 1]
            OBVIOUS
          <6>1. m \in 1 .. n /\ j \in 1 .. m /\ m <= j + 3
            BY <1>0, <5>1
          <6>2. InMarker(h, m)
            BY <5>1, <6>1 DEF InMarker
          <6> QED BY <1>3, <6>1, <6>2
        <5>10. f[j + 3] = f[j - 1]
          <6>1. /\ j \in j .. i /\ j + 1 \in j .. i /\ j + 2 \in j .. i /\ j + 3 \in j .. i
                /\ (j + 1) - 1 = j /\ (j + 2) - 1 = j + 1 /\ (j + 3) - 1 = j + 2
            BY <5>2, <5>6
          <6> QED BY <5>9, <6>1
        <5> QED BY <5>6, <5>8, <5>10
      <4> QED BY <4>1, <4>2
    <3> QED BY <3>0, <3>1, <3>2
  <2>3. \A i \in 0 .. n : i \in P
    <3> HIDE DEF P, n
    <3> QED BY <1>0, <2>1, <2>2, Along
  <2>4. \A i \in 0 .. n : i \in 0 .. i
    BY <1>0
  <2> QED BY <2>3, <2>4
<1>8. n \in 0 .. n /\ (n = 0 \/ Stop(h[n]))
  BY <1>0 DEF Ends
<1> HIDE DEF n
<1> QED BY <1>1, <1>2, <1>6, <1>7, <1>8

\* What is written is one burst between our markers, or has none of ours.
Burst(w) ==
  LET at == {i \in DOMAIN w : Ours(w[i])} IN
  at # {} =>
    /\ w[1] = BSU
    /\ \E k \in 2 .. Len(w) :
         /\ at = {1, k} /\ w[k] = ESU /\ Stop(w[k - 1])
         /\ \A i \in 2 .. k - 1 : ~w[i].sync

LEMMA NoneOfOurs ==
  ASSUME NEW w \in Seq(Byte)
  PROVE  Burst(w)
<1>1. \A i \in DOMAIN w : ~Ours(w[i])
  BY OutTypes
<1> QED BY <1>1 DEF Burst

LEMMA WrappedIsBurst ==
  ASSUME NEW x \in Seq(Byte), NEW r \in Seq(Byte), Ends(x), \A m \in 1 .. Len(x) : ~x[m].sync
  PROVE  Burst(wrapSync(x) \o r)
<1>1. CASE x = <<>>
  <2>1. wrapSync(x) \o r = r
    BY <1>1, ConcatEmptySeq DEF wrapSync
  <2> QED BY <2>1, NoneOfOurs
<1>2. CASE x # <<>>
  <2> DEFINE n == Len(x)  w == wrapSync(x) \o r  k == n + 2
  <2>1. wrapSync(x) = (<<BSU>> \o x) \o <<ESU>>
    BY <1>2 DEF wrapSync
  <2>2. n \in Nat /\ n > 0 /\ Len(r) \in Nat /\ x \in Seq(Out) /\ r \in Seq(Out)
    BY <1>2, OutSeq
  <2>3. BSU \in Out /\ ESU \in Out
    BY OutTypes
  <2>4. /\ w \in Seq(Out) /\ Len(w) = n + 2 + Len(r) /\ w[1] = BSU /\ w[n + 2] = ESU
        /\ \A i \in 1 .. n : w[i + 1] = x[i]
        /\ \A i \in 1 .. Len(r) : w[n + 2 + i] = r[i]
    <3> DEFINE a == BSU  z == ESU
    <3>1. w = ((<<a>> \o x) \o <<z>>) \o r /\ a \in Out /\ z \in Out
      BY <2>1, <2>3
    <3> HIDE DEF a, z, w
    <3>3. /\ w \in Seq(Out) /\ Len(w) = n + 2 + Len(r) /\ w[1] = a /\ w[n + 2] = z
          /\ \A i \in 1 .. n : w[i + 1] = x[i]
          /\ \A i \in 1 .. Len(r) : w[n + 2 + i] = r[i]
      BY ONLY <2>2, <3>1
    <3> QED BY <3>3 DEF a, z
  <2> HIDE DEF w
  <2>5. ASSUME NEW i \in DOMAIN w, Ours(w[i]) PROVE i \in {1, k}
    <3>1. i \in 1 .. n + 2 + Len(r)
      BY <2>4
    <3>2. CASE i \in 2 .. n + 1
      <4>1. i - 1 \in 1 .. n /\ (i - 1) + 1 = i
        BY <2>2, <3>2
      <4>2. w[i] = x[i - 1] /\ x[i - 1] \in Byte
        BY <2>4, <4>1, ElementOfSeq
      <4> QED BY <2>5, <4>2, OutTypes
    <3>3. CASE i > n + 2
      <4>1. i - (n + 2) \in 1 .. Len(r) /\ n + 2 + (i - (n + 2)) = i
        BY <2>2, <3>1, <3>3
      <4>2. w[i] = r[i - (n + 2)] /\ r[i - (n + 2)] \in Byte
        BY <2>4, <4>1, ElementOfSeq
      <4> QED BY <2>5, <4>2, OutTypes
    <3> QED BY <2>2, <3>1, <3>2, <3>3
  <2>6. 1 \in DOMAIN w /\ k \in DOMAIN w /\ Ours(w[1]) /\ Ours(w[k]) /\ k \in 2 .. Len(w)
    BY <2>2, <2>4, OutTypes
  <2>7. {i \in DOMAIN w : Ours(w[i])} = {1, k}
    BY <2>5, <2>6
  <2>8. Stop(w[k - 1])
    <3>1. n \in 1 .. n /\ k - 1 = n + 1
      BY <2>2
    <3>2. Stop(x[n])
      BY <1>2 DEF Ends
    <3> QED BY <2>4, <3>1, <3>2
  <2>9. ASSUME NEW i \in 2 .. k - 1 PROVE ~w[i].sync
    <3>1. i - 1 \in 1 .. n /\ (i - 1) + 1 = i
      BY <2>2
    <3> QED BY <2>4, <3>1
  <2>10. w[k] = ESU /\ w[1] = BSU
    BY <2>4
  <2> HIDE DEF k
  <2>11. Burst(w)
    BY ONLY <2>6, <2>7, <2>8, <2>9, <2>10 DEF Burst
  <2> QED BY <2>11 DEF w
<1> QED BY <1>1, <1>2

\* The terminal is between sequences, and what it has not been shown is well marked.
Settled == cfg.sync /\ ~torn => ~mid /\ Marked(buf \o input)

LEMMA FlushIsBurst ==
  ASSUME Types, NEW d \in Seq(Byte), NEW t \in Trackers, NEW r \in Seq(Byte), NEW eof \in BOOLEAN,
         cfg.sync => Held(d, Len(d), t), cfg.sync /\ ~torn => Cut(d, Len(d), t),
         cfg.sync /\ ~torn => ~mid /\ Marked(d \o r), d = <<>> => buf = d, flush(d, t, eof)
  PROVE  /\ ~torn => Burst(wrote')
         /\ ~eof /\ cfg.sync /\ ~torn' => ~mid' /\ Marked(buf' \o r)
<1> DEFINE split == IF cfg.sync THEN SplitAt(t, Len(d)) ELSE Len(d)
           long  == Len(d) - split > MaxTail
           head  == SubSeq(d, 1, split)
           tail  == SubSeq(d, split + 1, Len(d))
<1>0. /\ cfg.sync \in BOOLEAN /\ Len(d) \in Nat /\ <<>> \in Seq(Byte) /\ torn \in BOOLEAN
      /\ torn' = (torn \/ (cfg.sync /\ long))
  BY ConfigTypes DEF flush, Types
<1>1. CASE d = <<>>
  <2>1. wrote' = <<>> /\ buf' = d /\ mid' = mid
    BY <1>1 DEF flush, Writes
  <2> QED BY <1>0, <2>1, NoneOfOurs
<1>2. CASE d # <<>> /\ (~cfg.sync \/ long)
  <2>1. wrote' = d
    BY <1>2 DEF flush, Writes
  <2> HIDE DEF split, long
  <2> QED BY <1>0, <1>2, <2>1, NoneOfOurs
<1>3. CASE d # <<>> /\ cfg.sync /\ ~long
  <2> DEFINE x == Stripped(head)
  <2>1. /\ wrote' = wrapSync(x) \o (IF eof THEN tail ELSE <<>>)
        /\ buf' = (IF eof THEN <<>> ELSE tail)
        /\ mid' = IF wrote' = <<>> THEN mid ELSE ~Stop(Last(wrote'))
        /\ split = SplitAt(t, Len(d))
    BY <1>3 DEF flush, Writes
  <2>2. split \in 0 .. Len(d) /\ (~torn => split = 0 \/ Stop(d[split]))
    <3>1. Held(d, Len(d), t)
      BY <1>3
    <3>2. SplitAt(t, Len(d)) = CutAt(Len(d), t) /\ SplitAt(t, Len(d)) \in 0 .. Len(d)
      BY <3>1, SplitIsCut
    <3> HIDE DEF split, long
    <3>3. split = CutAt(Len(d), t)
      BY <2>1, <3>2
    <3> QED BY <1>3, <2>1, <3>2, <3>3 DEF Cut
  <2> HIDE DEF split, long
  <2>3. /\ head \in Seq(Byte) /\ tail \in Seq(Byte)
        /\ Len(head) = split /\ split + Len(tail) = Len(d)
        /\ PartOf(head, d, 0) /\ PartOf(tail, d, split)
    BY <2>2, Parts
  <2> HIDE DEF head, tail
  <2> SUFFICES ASSUME ~torn
               PROVE  Burst(wrote') /\ (~eof => ~mid' /\ Marked(buf' \o r))
    BY <1>0
  <2>4. Marked(d \o r) /\ d \o r \in Seq(Byte) /\ Len(d \o r) = Len(d) + Len(r) /\ Len(r) \in Nat
        /\ \A i \in 1 .. Len(d) : (d \o r)[i] = d[i]
    BY <1>3
  <2>5. PartOf(head, d \o r, 0)
    <3> DEFINE s == d \o r
    <3>1. Len(s) = Len(d) + Len(r) /\ \A i \in 1 .. Len(d) : s[i] = d[i]
      BY <2>4
    <3> HIDE DEF s
    <3>2. Len(head) <= Len(d) /\ Len(head) <= Len(s) /\ Len(head) \in Nat
      BY <1>0, <2>2, <2>3, <2>4, <3>1
    <3>3. ASSUME NEW i \in 1 .. Len(head) PROVE head[i] = s[0 + i]
      <4>1. head[i] = d[0 + i]
        BY <2>3 DEF PartOf
      <4>2. i \in 1 .. Len(d) /\ 0 + i = i
        BY <1>0, <3>2
      <4> QED BY <3>1, <4>1, <4>2
    <3>4. PartOf(head, s, 0)
      BY <3>2, <3>3 DEF PartOf
    <3> QED BY <3>4 DEF s
  <2>6. Ends(head)
    <3>1. split # 0 => head[split] = d[split]
      BY <2>2, <2>3 DEF PartOf
    <3>2. split = 0 => head = <<>>
      BY <2>3
    <3> QED BY <2>2, <2>3, <3>1, <3>2 DEF Ends
  <2>7. x \in Seq(Byte) /\ Ends(x) /\ \A m \in 1 .. Len(x) : ~x[m].sync
    BY <2>3, <2>4, <2>5, <2>6, StrippedWell
  <2> HIDE DEF x
  <2>8. Burst(wrote')
    BY <1>0, <2>1, <2>3, <2>7, WrappedIsBurst
  <2>9. ASSUME ~eof PROVE ~mid'
    <3>1. wrapSync(x) \in Seq(Out)
      BY <2>7, PlainWrapped
    <3>2. wrote' = wrapSync(x)
      <4>1. wrapSync(x) \o <<>> = wrapSync(x)
        BY <3>1, ConcatEmptySeq
      <4> QED BY <2>1, <2>9, <4>1
    <3>3. ~mid
      BY <1>3
    <3>4. CASE x = <<>>
      <4>1. wrote' = <<>>
        BY <3>2, <3>4 DEF wrapSync
      <4> QED BY <2>1, <3>3, <4>1
    <3>5. CASE x # <<>>
      <4>1. wrote' = (<<BSU>> \o x) \o <<ESU>>
        BY <3>2, <3>5 DEF wrapSync
      <4> DEFINE y == <<BSU>> \o x
      <4>2. y \in Seq(Out) /\ ESU \in Out
        BY <2>7, OutSeq, OutTypes
      <4> HIDE DEF y
      <4>3. Last(y \o <<ESU>>) = ESU /\ y \o <<ESU>> # <<>>
        <5>1. ASSUME NEW z \in Out PROVE Last(y \o <<z>>) = z /\ y \o <<z>> # <<>>
          BY <4>2 DEF Last
        <5> QED BY <4>2, <5>1
      <4>4. wrote' # <<>> /\ Last(wrote') = ESU
        BY <4>1, <4>3 DEF y
      <4>5. Stop(ESU)
        BY DEF ESU, Stop
      <4> QED BY <2>1, <4>4, <4>5
    <3> QED BY <3>4, <3>5
  <2>10. ASSUME ~eof PROVE Marked(buf' \o r)
    <3>1. /\ tail \o r \in Seq(Byte) /\ PartOf(tail \o r, d \o r, split)
          /\ split + Len(tail \o r) = Len(d \o r)
      BY <2>3, PartRest
    <3>2. split = 0 \/ Stop((d \o r)[split])
      BY <2>2, <2>4
    <3> DEFINE s == d \o r  u == tail \o r
    <3>3. /\ s \in Seq(Byte) /\ u \in Seq(Byte) /\ PartOf(u, s, split) /\ split + Len(u) = Len(s)
          /\ (split = 0 \/ Stop(s[split])) /\ Marked(s)
      BY <2>4, <3>1, <3>2
    <3> HIDE DEF s, u
    <3>4. Marked(u)
      BY <3>3, PartMarked
    <3> QED BY <2>1, <2>10, <3>4 DEF u
  <2> QED BY <2>8, <2>9, <2>10
<1> QED BY <1>0, <1>1, <1>2, <1>3

\* The step of OnlyBetween.
BetweenStep ==
  LET at == {i \in DOMAIN wrote' : Ours(wrote'[i])} IN
  ~torn /\ at # {} =>
    /\ ~mid /\ wrote'[1] = BSU
    /\ \E k \in 2 .. Len(wrote') :
         /\ at = {1, k} /\ wrote'[k] = ESU /\ Stop(wrote'[k - 1])
         /\ \A i \in 2 .. k - 1 : ~wrote'[i].sync

LEMMA BurstIsBetween ==
  ASSUME ~torn => Burst(wrote'), ~torn /\ {i \in DOMAIN wrote' : Ours(wrote'[i])} # {} => ~mid
  PROVE  BetweenStep
  BY DEF BetweenStep, Burst

\* Without SyncWrap nothing of ours is written.
LEMMA OursNeedsSync ==
  ASSUME Types, NEW d \in Seq(Byte), NEW t, NEW eof, ~cfg.sync, flush(d, t, eof)
  PROVE  {i \in DOMAIN wrote' : Ours(wrote'[i])} = {}
<1>1. wrote' \in {<<>>, d}
  BY DEF flush, Writes
<1>2. wrote' \in Seq(Byte)
  <2>1. <<>> \in Seq(Byte)
    BY FreshTracker
  <2>2. CASE wrote' = d
    BY <2>2
  <2>3. CASE wrote' = <<>>
    BY ONLY <2>1, <2>3
  <2> QED BY <1>1, <2>2, <2>3
<1> QED BY <1>2, OutTypes

\* Until the pump returns.
Between == ~ended => Settled

LEMMA FlushBetween ==
  ASSUME Types, NEW d \in Seq(Byte), NEW t \in Trackers, NEW r \in Seq(Byte), NEW eof \in BOOLEAN,
         cfg.sync => Held(d, Len(d), t), cfg.sync /\ ~torn => Cut(d, Len(d), t),
         Settled, d \o r = buf \o input, d = <<>> => buf = d, flush(d, t, eof),
         input' = r, cfg' = cfg
  PROVE  BetweenStep /\ Between'
<1>1. cfg.sync /\ ~torn => ~mid /\ Marked(d \o r)
  BY DEF Settled
<1>2. /\ ~torn => Burst(wrote')
      /\ ~eof /\ cfg.sync /\ ~torn' => ~mid' /\ Marked(buf' \o r)
  BY <1>1, FlushIsBurst
<1>3. cfg.sync \in BOOLEAN
  BY ConfigTypes
<1>4. ~torn /\ {i \in DOMAIN wrote' : Ours(wrote'[i])} # {} => ~mid
  BY <1>1, <1>3, OursNeedsSync
<1>5. eof => ended'
  BY DEF flush
<1>6. BetweenStep
  BY <1>2, <1>4, BurstIsBetween
<1> QED BY <1>2, <1>5, <1>6 DEF Between, Settled

LEMMA ReceiveBetween ==
  ASSUME SyncInv, Between, NEW n \in 1 .. Len(input), Receive(n)
  PROVE  BetweenStep /\ Between'
<1> DEFINE d == SubSeq(input, 1, n)  r == SubSeq(input, n + 1, Len(input))  t == Trackee(d)
<1>0. Types /\ ~ended /\ Settled /\ buf \in Seq(Byte) /\ input \in Seq(Byte)
  BY DEF SyncInv, Between, Receive, Types
<1>1. /\ input' = r /\ cfg' = cfg
      /\ \/ flush(buf \o d, t, FALSE)
         \/ buf' = buf \o d /\ wrote' = <<>> /\ mid' = mid /\ torn' = torn
  BY DEF Receive, Trackee, Writes
<1>2. n \in 0 .. Len(input) /\ n > 0
  OBVIOUS
<1>3. d \in Seq(Byte) /\ r \in Seq(Byte) /\ d \o r = input /\ Len(d) = n
  BY <1>0, <1>2, Parts
<1>4. PICK q, at : Reading(at, q, input) /\ Known(q)
  BY <1>0 DEF SyncInv, Placed
<1>5. PICK p, w : Learnt(q, p, d, w, t)
  <2>1. Chunked(n, d, r)
    BY DEF Chunked
  <2>2. PICK a, z : Reading(a, q, d)
    BY <1>0, <1>4, <2>1, ReadOn
  <2>3. Learnt(q, a[Len(d)], d, Watcher(d), Trackee(d))
    BY <1>0, <1>3, <1>4, <2>2, Learns
  <2> QED BY <2>3
<1> HIDE DEF d, r, t
<1> DEFINE e == buf \o d
<1>6. e \in Seq(Byte) /\ e # <<>> /\ e \o r = buf \o input
  <2>0. buf \in Seq(Byte) /\ d \in Seq(Byte) /\ r \in Seq(Byte)
    BY <1>0, <1>3
  <2>1. e \in Seq(Byte) /\ Len(e) = Len(buf) + Len(d) /\ Len(buf) \in Nat
    BY ONLY <2>0
  <2>2. (buf \o d) \o r = buf \o (d \o r)
    BY ONLY <2>0, Regroup
  <2>3. Len(e) > 0
    BY <1>2, <1>3, <2>1
  <2> HIDE DEF e
  <2>4. e # <<>>
    BY <2>1, <2>3
  <2> QED BY <1>3, <2>1, <2>2, <2>4 DEF e
<1>7. /\ t \in Trackers /\ (cfg.sync => Held(e, Len(e), t))
      /\ (cfg.sync /\ ~torn => Cut(e, Len(e), t))
  BY <1>5 DEF Learnt
<1>8. CASE flush(e, t, FALSE)
  <2> HIDE DEF e
  <2> QED BY <1>0, <1>1, <1>3, <1>6, <1>7, <1>8, FlushBetween
<1>9. CASE buf' = e /\ wrote' = <<>> /\ mid' = mid /\ torn' = torn
  <2> HIDE DEF e
  <2>1. {i \in DOMAIN wrote' : Ours(wrote'[i])} = {}
    BY <1>9
  <2>2. BetweenStep
    BY <2>1 DEF BetweenStep
  <2>3. buf' \o input' = buf \o input
    BY <1>1, <1>6, <1>9
  <2>4. Settled'
    BY <1>0, <1>1, <1>9, <2>3 DEF Settled
  <2> QED BY <2>2, <2>4 DEF Between
<1> QED BY <1>1, <1>8, <1>9

\* A marker of ours is never written inside a sequence or a character, and ours come
\* in pairs around what has none of the program's (Pump.flush, tailTracker.Feed and
\* SplitAt, wrapSync).
THEOREM WrapIsBetween == SyncSpec => OnlyBetween
<1>1. SyncInit => SyncInv /\ Between
  <2> SUFFICES ASSUME SyncInit PROVE SyncInv /\ Between
    OBVIOUS
  <2>1. input \in Seq(Byte) /\ Marked(input) /\ buf = <<>> /\ mid = FALSE
    BY TtySyncAssumption DEF SyncInit, Byte, Class
  <2>2. <<>> \o input = input
    BY <2>1, ConcatEmptySeq
  <2> QED BY <2>1, <2>2, InitialSync DEF Between, Settled
<1>2. SyncInv /\ Between /\ [SyncNext]_syncVars => [BetweenStep]_syncVars /\ Between'
  <2> SUFFICES ASSUME SyncInv, Between, [SyncNext]_syncVars
               PROVE  [BetweenStep]_syncVars /\ Between'
    OBVIOUS
  <2>1. ASSUME NEW n \in 1 .. Len(input), Receive(n) PROVE BetweenStep /\ Between'
    BY <2>1, ReceiveBetween
  <2>2. CASE IdleFires \/ MaxFires \/ ReadEnds
    <3>1. /\ Types /\ ~ended /\ Settled /\ KeptBack /\ cfg' = cfg
          /\ buf \in Seq(Byte) /\ tracker \in Trackers /\ input \in Seq(Byte)
      BY <2>2 DEF IdleFires, MaxFires, ReadEnds, SyncInv, Between, Types
    <3>2. CASE IdleFires \/ MaxFires
      <4>1. flush(buf, tracker, FALSE) /\ input' = input
        BY <3>2 DEF IdleFires, MaxFires
      <4> QED BY <3>1, <4>1, FlushBetween DEF KeptBack
    <3>3. CASE ReadEnds
      <4>1. flush(buf, tracker, TRUE)
        BY <3>3 DEF ReadEnds
      <4>2. /\ ~torn => Burst(wrote')
        BY <3>1, <4>1, FlushIsBurst DEF KeptBack, Settled
      <4>3. cfg.sync \in BOOLEAN
        BY <3>1, ConfigTypes
      <4>4. ~torn /\ {i \in DOMAIN wrote' : Ours(wrote'[i])} # {} => ~mid
        BY <3>1, <4>1, <4>3, OursNeedsSync DEF Settled
      <4>5. ended'
        BY <4>1 DEF flush
      <4> QED BY <4>2, <4>4, <4>5, BurstIsBetween DEF Between
    <3> QED BY <2>2, <3>2, <3>3
  <2>3. CASE Tick
    <3>1. /\ wrote' = <<>> /\ buf' = buf /\ input' = input /\ ended' = ended
          /\ cfg' = cfg /\ torn' = torn /\ mid' = mid
      BY <2>3 DEF Tick, Writes
    <3>2. {i \in DOMAIN wrote' : Ours(wrote'[i])} = {}
      BY <3>1
    <3> QED BY <3>1, <3>2 DEF BetweenStep, Between, Settled
  <2>4. CASE UNCHANGED syncVars
    BY <2>4 DEF syncVars, pumpVars, histVars, Between, Settled
  <2> QED BY <2>1, <2>2, <2>3, <2>4 DEF SyncNext
<1> QED BY <1>1, <1>2, SyncInductive, PTL DEF SyncSpec, OnlyBetween, BetweenStep
=============================================================================
