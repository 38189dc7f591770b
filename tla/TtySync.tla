------------------------------ MODULE TtySync ------------------------------
(***************************************************************************)
(* `tmux-wrap` (internal/ttysync): a program (tmux) runs in a pty, and     *)
(* PumpWithIdleConfig copies what it writes to the terminal in bursts.  A  *)
(* burst ends when nothing has come for a while (longer once the screen has*)
(* been cleared, so that the redraw is in the same burst), when its oldest *)
(* byte has waited long enough, or when it is large.  With SyncWrap each   *)
(* burst is put between the two markers of a synchronized update, its own  *)
(* markers are dropped, and what would be cut in the middle stays behind.  *)
(*                                                                         *)
(* A byte carries, besides its class, what only the properties look at:    *)
(* whether a sequence or a character ends with it, whether it belongs to   *)
(* a marker of the program's, and whether it is one of those after which a *)
(* terminal reads on while tailTracker takes the sequence to be over.  The *)
(* goroutine that reads is folded into the loop: select takes a chunk that *)
(* is ready or a timer that has fired.                                     *)
(***************************************************************************)
EXTENDS Integers, Sequences, SequencesExt

CONSTANTS
  Streams,       \* bound: what the program writes
  Settings,      \* bound: records of SyncWrap, HoldAfterDestructive and MaxHold
                 \* (the two times in ticks, 0 when switched off)
  Idle,          \* Idle, in ticks
  MaxBuffer,     \* MaxBuffer
  MaxTail,       \* maxTailHold
  UTF8           \* continuation bytes that follow a lead byte

VARIABLES
  cfg,
  input,      \* bytes the program has written or will write
  buf,        \* buf
  idle, max,  \* the two timers: ticks left, or Off
  tracker,    \* tailTracker
  parser,     \* state of ansiParser
  holding,    \* holdActive
  ended,      \* the pump has returned
  wrote,      \* history: what this step writes to the terminal
  mid,        \* history: the terminal is inside a sequence or a character, and
              \* tailTracker could know it
  age, quiet, \* history: ticks since the oldest byte that can be shown came,
              \* and since the last read
  astray,     \* history: the parser has lost its place
  torn        \* history: a sequence has been let go in parts

pumpVars == <<buf, idle, max, tracker, parser, holding, ended>>
histVars == <<wrote, mid, age, quiet, astray, torn>>
syncVars == <<cfg, input, pumpVars, histVars>>

Off  == -1
None == -1

\* A sequence or a character as the bytes of these classes, which tailTracker
\* takes to be over at byte n.
Token(bs, sync, n) ==
  [i \in DOMAIN bs |-> [b |-> bs[i], end |-> i = Len(bs), early |-> i \in n .. Len(bs) - 1,
                        sync |-> sync]]
Marker(b) == <<"esc", "[", "?2026", b>>

BSU == [b |-> "BSU", end |-> TRUE, early |-> FALSE, sync |-> FALSE]
ESU == [b |-> "ESU", end |-> TRUE, early |-> FALSE, sync |-> FALSE]
Ours(x) == x \in {BSU, ESU}

\* Where tailTracker lets a burst end.
Stop(x) == x.end \/ x.early

-----------------------------------------------------------------------------
(***************************************************************************)
(* The two state machines.                                                 *)
(***************************************************************************)
\* newTailTracker.  seqStart counts from 0.
Ground == [state |-> "ground", rem |-> 0, start |-> None]

\* Mutant of FeedGround: a lead byte is a character of its own.
FeedGroundBytes(b, off) ==
  IF b = "esc" THEN [state |-> "esc", rem |-> 0, start |-> off] ELSE Ground

FeedGround(b, off) ==
  IF b = "esc" THEN [state |-> "esc", rem |-> 0, start |-> off]
  ELSE IF b \in DOMAIN UTF8 THEN [state |-> "ground", rem |-> UTF8[b], start |-> off]
  ELSE Ground

\* tailTracker.Feed; a string is an OSC or a DCS.
FeedTracker(t, b, off) ==
  IF t.rem > 0 /\ b = "cont" THEN IF t.rem = 1 THEN Ground ELSE [t EXCEPT !.rem = @ - 1]
  ELSE
  CASE t.state = "ground" -> FeedGround(b, off)
    [] t.state = "esc" -> IF b \in {"[", "]", "P"}
                            THEN [t EXCEPT !.state = IF b = "[" THEN "csi" ELSE "string"]
                          ELSE IF b = "esc" THEN [t EXCEPT !.start = off] ELSE Ground
    [] t.state = "csi" -> IF b \in {"?2026", "$"} THEN t ELSE Ground
    [] t.state = "string" -> IF b = "bel" THEN Ground
                             ELSE IF b = "esc" THEN [t EXCEPT !.state = "stringEsc"] ELSE t
    [] t.state = "stringEsc" -> IF b = "\\" THEN Ground ELSE [t EXCEPT !.state = "string"]

Tracked(t, d, base) ==
  LET at[i \in 0 .. Len(d)] ==
        IF i = 0 THEN t ELSE FeedTracker(at[i - 1], d[i].b, base + i - 1)
  IN at[Len(d)]

SplitAt(t, len) == IF t.start < 0 \/ t.start > len THEN len ELSE t.start
Rebase(t, keep) == IF t.start >= 0 THEN [t EXCEPT !.start = IF @ < keep THEN 0 ELSE @ - keep]
                   ELSE t

\* ansiParser.Feed.
FeedParser(s, b) ==
  CASE s = "ground" -> IF b = "esc" THEN "esc" ELSE "ground"
    [] s = "esc"    -> IF b = "[" THEN "csi" ELSE IF b \in {"]", "P"} THEN "string" ELSE "ground"
    [] s = "csi"    -> IF b = "?2026" THEN "csi" ELSE "ground"
    [] s = "string" -> IF b = "bel" THEN "ground" ELSE IF b = "esc" THEN "stringEsc" ELSE "string"
    [] s = "stringEsc" -> "ground"

isDestructive(s, b) == s = "csi" /\ b = "J"

Parsed(s, d) ==
  LET at[i \in 0 .. Len(d)] == IF i = 0 THEN s ELSE FeedParser(at[i - 1], d[i].b)
  IN at[Len(d)]

\* Once the hold is found the rest of the read is not looked at.
Watch(r, h, b) ==
  IF r.hold /\ ~h THEN r
  ELSE [at |-> FeedParser(r.at, b), hold |-> r.hold \/ isDestructive(r.at, b)]

Watched(s, h, d) ==
  LET at[i \in 0 .. Len(d)] ==
        IF i = 0 THEN [at |-> s, hold |-> h] ELSE Watch(at[i - 1], h, d[i].b)
  IN at[Len(d)]

\* stripSyncMarkers: complete markers go, similar sequences stay.
Complete(d, j) ==
  j + 3 <= Len(d) /\ \E b \in {"h", "l"} : \A k \in 1 .. 4 : d[j + k - 1].b = Marker(b)[k]
InMarker(d, i) == \E j \in 1 .. i : i <= j + 3 /\ Complete(d, j)

\* The elements of d at the places in S.
At(d, S) ==
  LET kept[i \in 0 .. Len(d)] ==
        IF i = 0 THEN <<>> ELSE IF i \in S THEN Append(kept[i - 1], d[i]) ELSE kept[i - 1]
  IN kept[Len(d)]

\* Mutant of Stripped: whatever begins like a marker goes.
StrippedAlike(d) ==
  At(d, {i \in DOMAIN d : ~\E j \in 1 .. Len(d) - 3 :
                            j <= i /\ i <= j + 3 /\ d[j + 2].b = "?2026"})

Stripped(d) == At(d, {i \in DOMAIN d : ~InMarker(d, i)})

wrapSync(d) == IF d = <<>> THEN <<>> ELSE <<BSU>> \o d \o <<ESU>>

-----------------------------------------------------------------------------
(***************************************************************************)
(* What the program writes: sequences and characters none of which breaks  *)
(* another off, read the way a terminal does (ECMA-48); left counts what a *)
(* character lacks.  "$" is an intermediate byte, ">" one of the private   *)
(* parameter bytes '<', '=', '>'.  csiRest and escRest are where           *)
(* tailTracker takes the sequence to be over and a terminal does not:      *)
(* after a private byte in a CSI, and after an intermediate byte in an     *)
(* escape sequence (ESC [ > c, ESC ( B).  "J" is the final byte of an      *)
(* erasing CSI and of nothing else.                                        *)
(***************************************************************************)
In(name) == [in |-> name, left |-> 0]
Bad == In("bad")

\* No escape sequence contains these before its final byte, nor ends with them.
Breaks == {"esc", "bel", "cont"} \cup DOMAIN UTF8

Terminal(q, b) ==
  IF q.left > 0 THEN IF b = "cont" THEN [q EXCEPT !.left = @ - 1] ELSE Bad
  ELSE
  CASE q.in = "ground"    -> IF b = "J" THEN Bad ELSE IF b = "esc" THEN In("esc")
                             ELSE IF b \in DOMAIN UTF8 THEN [in |-> "ground", left |-> UTF8[b]]
                             ELSE q
    [] q.in = "esc"       -> IF b \in Breaks \cup {"J"} THEN Bad
                             ELSE IF b = "[" THEN In("csi") ELSE IF b = "]" THEN In("string")
                             ELSE IF b = "P" THEN In("dcs")
                             ELSE In(IF b = "$" THEN "escRest" ELSE "ground")
    [] q.in = "escRest"   -> IF b \in Breaks \cup {"J"} THEN Bad
                             ELSE IF b = "$" THEN q ELSE In("ground")
    [] q.in = "csi"       -> IF b \in Breaks THEN Bad ELSE IF b = "?2026" THEN q
                             ELSE IF b = "$" THEN In("csiInter")
                             ELSE In(IF b = ">" THEN "csiRest" ELSE "ground")
    [] q.in = "csiInter"  -> IF b \in Breaks \cup {"J"} THEN Bad
                             ELSE IF b \in {"?2026", "$"} THEN q
                             ELSE In(IF b = ">" THEN "csiRest" ELSE "ground")
    [] q.in = "csiRest"   -> IF b \in Breaks \cup {"J"} THEN Bad
                             ELSE IF b \in {"?2026", "$", ">"} THEN q ELSE In("ground")
    [] q.in = "string"    -> IF b = "J" THEN Bad ELSE IF b = "bel" THEN In("ground")
                             ELSE IF b = "esc" THEN In("stringEsc") ELSE q
    [] q.in = "stringEsc" -> IF b = "J" THEN Bad
                             ELSE In(IF b = "\\" THEN "ground" ELSE "string")
    [] q.in = "dcs"       -> IF b \in {"J", "bel"} THEN Bad
                             ELSE IF b = "esc" THEN In("dcsEsc") ELSE q
    [] q.in = "dcsEsc"    -> IF b \in {"J", "bel"} THEN Bad
                             ELSE In(IF b = "\\" THEN "ground" ELSE "dcs")
    [] q.in = "bad"       -> Bad

Whole(s) ==
  LET at[i \in 0 .. Len(s)] == IF i = 0 THEN In("ground") ELSE Terminal(at[i - 1], s[i].b)
  IN \A i \in 1 .. Len(s) : /\ at[i] # Bad
                            /\ s[i].end <=> at[i] = In("ground")
                            /\ s[i].early <=> at[i] \in {In("csiRest"), In("escRest")}

\* The markers are the program's bytes marked so; no burst ends inside one, and one
\* that ends a sequence is that sequence.
Marked(s) ==
  /\ \A i \in 1 .. Len(s) : s[i].sync <=> InMarker(s, i)
  /\ \A j \in 1 .. Len(s) : Complete(s, j) =>
       /\ \A k \in 0 .. 2 : ~Stop(s[j + k])
       /\ Stop(s[j + 3]) => j = 1 \/ Stop(s[j - 1])

ASSUME TtySyncAssumption ==
  /\ {Idle, MaxBuffer, MaxTail} \subseteq Nat \ {0}
  /\ Settings \subseteq [sync : BOOLEAN, hold : Nat, max : Nat]
  /\ UTF8 \in [DOMAIN UTF8 -> Nat \ {0}] /\ {"esc", "J"} \cap DOMAIN UTF8 = {}
  /\ \A s \in Streams :
       /\ s \in Seq([b : STRING \ {"BSU", "ESU"}, end : BOOLEAN, early : BOOLEAN,
                      sync : BOOLEAN])
       /\ Whole(s) /\ Marked(s)

-----------------------------------------------------------------------------
SyncInit ==
  /\ cfg \in Settings /\ input \in Streams
  /\ buf = <<>> /\ idle = Off /\ max = Off
  /\ tracker = Ground /\ parser = "ground" /\ holding = FALSE /\ ended = FALSE
  /\ wrote = <<>> /\ mid = FALSE
  /\ age = 0 /\ quiet = 0 /\ astray = FALSE /\ torn = FALSE

\* Something in d can be shown by the terminal.
Shows(d) == IF cfg.sync THEN \E i \in DOMAIN d : d[i].end ELSE d # <<>>

Writes(out) ==
  /\ wrote' = out
  /\ mid' = IF out = <<>> THEN mid ELSE ~Stop(Last(out))

\* flush of d, what the buffer holds with t, what is known of its end.  A write
\* that fails ends the pump.
flush(d, t, eof) ==
  LET split == IF cfg.sync THEN SplitAt(t, Len(d)) ELSE Len(d)
      long  == Len(d) - split > MaxTail
      head  == SubSeq(d, 1, split)
      tail  == SubSeq(d, split + 1, Len(d))
  IN
  /\ \/ d = <<>> /\ Writes(<<>>) /\ UNCHANGED <<buf, tracker>>
     \/ /\ d # <<>> /\ (~cfg.sync \/ long)
        /\ Writes(d) /\ buf' = <<>> /\ tracker' = Ground
     \/ /\ d # <<>> /\ cfg.sync /\ ~long
        /\ Writes(wrapSync(Stripped(head)) \o IF eof THEN tail ELSE <<>>)
        /\ buf' = IF eof THEN <<>> ELSE tail
        /\ tracker' = IF eof THEN Ground ELSE Rebase(t, split)
  /\ idle' = Off /\ max' = Off /\ holding' = FALSE
  /\ ended' \in {eof, eof \/ wrote' # <<>>}
  /\ age' = 0 /\ quiet' = 0 /\ torn' = (torn \/ (cfg.sync /\ long))

\* Mutant of Arm: every read starts the longest wait again.
ArmAgain(h) ==
  /\ max' = IF cfg.max > 0 THEN cfg.max ELSE Off
  /\ idle' = IF h /\ cfg.hold > 0 THEN cfg.hold ELSE Idle

\* The longest wait runs from the first byte, the idle time from the last.
Arm(h) ==
  /\ max' = IF cfg.max > 0 /\ max = Off THEN cfg.max ELSE max
  /\ idle' = IF h /\ cfg.hold > 0 THEN cfg.hold ELSE Idle

\* A chunk: the first n bytes of what the program has written.
Receive(n) ==
  LET d == SubSeq(input, 1, n)
      w == IF cfg.hold > 0 THEN Watched(parser, holding, d)
           ELSE [at |-> parser, hold |-> FALSE]
      t == IF cfg.sync THEN Tracked(tracker, d, Len(buf)) ELSE tracker
  IN
  /\ ~ended /\ input' = SubSeq(input, n + 1, Len(input)) /\ parser' = w.at
  /\ \/ Len(buf \o d) >= MaxBuffer /\ flush(buf \o d, t, FALSE)
     \/ /\ Len(buf \o d) < MaxBuffer
        /\ buf' = buf \o d /\ tracker' = t /\ holding' = w.hold
        /\ Arm(w.hold) /\ Writes(<<>>) /\ quiet' = 0 /\ UNCHANGED <<ended, age, torn>>
  /\ astray' = (astray \/ (cfg.hold > 0 /\ w.at # Parsed(parser, d))) /\ UNCHANGED cfg

IdleFires ==
  ~ended /\ idle = 0 /\ flush(buf, tracker, FALSE) /\ UNCHANGED <<cfg, input, parser, astray>>
MaxFires ==
  ~ended /\ max = 0 /\ flush(buf, tracker, FALSE) /\ UNCHANGED <<cfg, input, parser, astray>>

\* The program ends: WrapStdio closes the master, whatever is still in it.
ReadEnds ==
  /\ ~ended /\ flush(buf, tracker, TRUE)
  /\ input' = <<>> /\ UNCHANGED <<cfg, parser, astray>>

\* The loop serves a timer that has fired before the next tick.
Tick ==
  /\ ~ended /\ idle # 0 /\ max # 0 /\ (idle # Off \/ max # Off)
  /\ idle' = IF idle = Off THEN Off ELSE idle - 1
  /\ max' = IF max = Off THEN Off ELSE max - 1
  /\ age' = IF Shows(buf) THEN age + 1 ELSE 0
  /\ quiet' = quiet + 1 /\ Writes(<<>>)
  /\ UNCHANGED <<cfg, input, buf, tracker, parser, holding, ended, astray, torn>>

SyncNext ==
  \/ \E n \in 1 .. Len(input) : Receive(n)
  \/ IdleFires \/ MaxFires \/ ReadEnds \/ Tick

SyncSpec == SyncInit /\ [][SyncNext]_syncVars

-----------------------------------------------------------------------------
\* The terminal gets a marker of ours only where a sequence or a character has
\* ended, wherever the reads and the bursts end, or where tailTracker takes a
\* sequence to be over that is not: behind a private byte in a CSI or an
\* intermediate byte after ESC (early).  Ours come in pairs, with nothing of the
\* program's markers between them.  A sequence of more than maxTailHold bytes is
\* written in parts, and ends all knowledge of where the terminal is (torn).
OnlyBetween ==
  [][ LET at == {i \in DOMAIN wrote' : Ours(wrote'[i])} IN
      ~torn /\ at # {} =>
        /\ ~mid /\ wrote'[1] = BSU
        /\ \E k \in 2 .. Len(wrote') :
             /\ at = {1, k} /\ wrote'[k] = ESU /\ Stop(wrote'[k - 1])
             /\ \A i \in 2 .. k - 1 : ~wrote'[i].sync ]_syncVars

\* Nothing but the program's markers is dropped, doubled or moved until it ends:
\* what a step writes and what it leaves is what there was; without SyncWrap the
\* markers are there too.
Plain(d) == At(d, {i \in DOMAIN d : ~Ours(d[i]) /\ (cfg.sync => ~d[i].sync)})
Intact ==
  [][ LET there == Plain(buf \o input)  left == Plain(wrote' \o buf' \o input') IN
      IF input' # <<>> \/ ~ended' THEN left = there ELSE IsPrefix(left, there) ]_syncVars

\* What can be shown is not held longer than MaxHold, however steadily the
\* program writes, and not longer than the idle time once it is silent; but a
\* cleared screen is held for HoldAfterDestructive, unless the parser has lost its
\* place (the rest of a read is not fed once its first clear is found).
Clears(d) == \E i \in DOMAIN d : d[i].b = "J"
Timely ==
  ~ended /\ Shows(buf) =>
    /\ cfg.max > 0 => age <= cfg.max
    /\ quiet <= (IF cfg.hold > Idle THEN cfg.hold ELSE Idle)
    /\ idle = 0 /\ Clears(buf) /\ ~astray => quiet >= cfg.hold
=============================================================================
