----------------------------- MODULE SessionLog -----------------------------
(***************************************************************************)
(* SESSION_LOG: the lines that scroll out of the VT model are appended to  *)
(* a file (screen/vt.go lineFeed, screen/flush.go HistoryFlusher,          *)
(* ptyproxy/sessionlog.go), once per read of claude's output and a last    *)
(* time when the server stops.                                             *)
(*                                                                         *)
(* A line is the number under which it scrolled out, so hist, a bounded    *)
(* window, and the flusher, which only knows histTotal and Len(hist), can  *)
(* be compared with what the file should hold.                             *)
(***************************************************************************)
EXTENDS Integers, Sequences

CONSTANTS
  HistMax,     \* lines the VT keeps (5000)
  ChunkMax,    \* lines one read can scroll out (4096 bytes, a byte a line)
  PendCap,     \* pendingCap
  ScreenMax,   \* rows of the screen
  MaxLines     \* bound: lines that scroll out in a behaviour

\* A read can never scroll out more lines than the history keeps: this is
\* what makes capturing once per read enough.
ASSUME LogAssumption ==
  /\ {HistMax, ChunkMax, PendCap} \subseteq Nat \ {0}
  /\ {ScreenMax, MaxLines} \subseteq Nat
  /\ ChunkMax <= HistMax /\ ChunkMax <= PendCap

VARIABLES
  hist, histTotal,     \* VT.hist and VT.histTotal
  feeding, fed,        \* inside VT.Feed; lines the chunk has scrolled out
  armed, lastTotal,    \* HistoryFlusher (its pending is drained at once)
  log, open,           \* the file, and sessFp # nil
  finals,              \* calls of finalizeSessionLog (by the pump, by RunProxy)
  start,               \* history: histTotal when the flusher armed itself
  lost                 \* history: lines erased before a capture, or not written

vars == <<hist, histTotal, feeding, fed, armed, lastTotal, log, open, finals,
          start, lost>>

Init ==
  /\ hist = <<>> /\ histTotal = 0 /\ feeding = FALSE /\ fed = 0
  /\ armed = FALSE /\ lastTotal = 0 /\ log = <<>> /\ open = TRUE /\ finals = 0
  /\ start = 0 /\ lost = {}

Elems(s) == {s[i] : i \in DOMAIN s}

-----------------------------------------------------------------------------
(***************************************************************************)
(* One read of the master: VT.Feed scrolls lines out, then the capture.    *)
(* Server.mu is held from StartRead to EndFeed.                            *)
(***************************************************************************)
StartRead ==
  /\ open /\ ~feeding
  /\ feeding' = TRUE /\ fed' = 0
  /\ UNCHANGED <<hist, histTotal, armed, lastTotal, log, open, finals, start, lost>>

\* Mutant of LineFeed: lines are counted by what the history still holds.
LineFeedRecounts ==
  /\ feeding /\ fed < ChunkMax /\ histTotal < MaxLines
  /\ LET all == Append(hist, histTotal + 1) IN
       hist' = IF Len(all) > HistMax THEN SubSeq(all, 2, Len(all)) ELSE all
  /\ histTotal' = Len(hist')
  /\ fed' = fed + 1
  /\ UNCHANGED <<feeding, armed, lastTotal, log, open, finals, start, lost>>

\* lineFeed with the cursor on the bottom margin.
LineFeed ==
  /\ feeding /\ fed < ChunkMax /\ histTotal < MaxLines
  /\ LET all == Append(hist, histTotal + 1) IN
       hist' = IF Len(all) > HistMax THEN SubSeq(all, 2, Len(all)) ELSE all
  /\ histTotal' = histTotal + 1
  /\ fed' = fed + 1
  /\ UNCHANGED <<feeding, armed, lastTotal, log, open, finals, start, lost>>

\* ED 3 drops the history, the lines no capture has seen with it.
EraseScrollback ==
  /\ feeding /\ hist # <<>>
  /\ hist' = <<>>
  /\ lost' = lost \cup {n \in Elems(hist) : armed /\ n > lastTotal}
  /\ UNCHANGED <<histTotal, feeding, fed, armed, lastTotal, log, open, finals, start>>

-----------------------------------------------------------------------------
(***************************************************************************)
(* HistoryFlusher.                                                         *)
(***************************************************************************)
FirstIdx == histTotal - Len(hist)
Lo       == IF lastTotal < FirstIdx THEN FirstIdx ELSE lastTotal

TakeNew ==
  IF ~armed THEN <<>> ELSE SubSeq(hist, Lo - FirstIdx + 1, Len(hist))

\* Capture and Drain: at most PendCap lines, the newest ones.
Pending ==
  LET n == Len(TakeNew)
  IN  IF n > PendCap THEN SubSeq(TakeNew, n - PendCap + 1, n) ELSE TakeNew

\* The first capture only arms the flusher.
Capture ==
  /\ armed' = TRUE /\ lastTotal' = histTotal
  /\ start' = IF armed THEN start ELSE histTotal

\* WriteString: its error is ignored, so only the first k lines may arrive.
Written(k) == SubSeq(Pending, 1, k)
Unwritten(k) == Elems(SubSeq(Pending, k + 1, Len(Pending)))

EndFeed ==
  /\ feeding /\ feeding' = FALSE
  /\ Capture
  /\ \E k \in 0 .. Len(Pending) :
       log' = log \o Written(k) /\ lost' = lost \cup Unwritten(k)
  /\ UNCHANGED <<hist, histTotal, fed, open, finals>>

-----------------------------------------------------------------------------
\* Lines of the visible screen, its trailing blank rows cut off.
Screen(c) == [i \in 1 .. c |-> histTotal + i]

\* Mutant of Finalize: the file is not marked closed.
FinalizeTwice ==
  /\ ~feeding /\ finals < 2 /\ finals' = finals + 1
  /\ Capture
  /\ \E k \in 0 .. Len(Pending), c \in 0 .. ScreenMax :
       log' = log \o Written(k) \o Screen(c) /\ lost' = lost \cup Unwritten(k)
  /\ UNCHANGED <<hist, histTotal, feeding, fed, open>>

\* finalizeSessionLog: the pump calls it from Stop, RunProxy's deferred Stop
\* once more.
Finalize ==
  /\ ~feeding /\ finals < 2 /\ finals' = finals + 1
  /\ \/ /\ open /\ open' = FALSE
        /\ Capture
        /\ \E k \in 0 .. Len(Pending), c \in 0 .. ScreenMax :
             log' = log \o Written(k) \o Screen(c) /\ lost' = lost \cup Unwritten(k)
     \/ ~open /\ UNCHANGED <<open, armed, lastTotal, log, start, lost>>
  /\ UNCHANGED <<hist, histTotal, feeding, fed>>

-----------------------------------------------------------------------------
Next ==
  \/ StartRead \/ LineFeed \/ EraseScrollback \/ EndFeed
  \/ Finalize
  \/ finals = 2 /\ UNCHANGED vars

Spec == Init /\ [][Next]_vars

-----------------------------------------------------------------------------
TypeOK ==
  /\ hist \in Seq(Nat) /\ Len(hist) <= HistMax /\ histTotal \in Nat
  /\ feeding \in BOOLEAN /\ fed \in 0 .. ChunkMax
  /\ armed \in BOOLEAN /\ lastTotal \in Nat
  /\ log \in Seq(Nat) /\ open \in BOOLEAN /\ finals \in 0 .. 2
  /\ start \in Nat /\ lost \in SUBSET Nat

\* The file holds the lines in the order in which they scrolled out, none of
\* them twice, whatever the history trimmed, claude erased or the disk refused
\* in between (flush.go: the trim-proof index instead of line identity).
LogInOrder ==
  \A i, j \in DOMAIN log : i < j => log[i] < log[j]

\* Between two reads the file holds every line that scrolled out since the
\* flusher was armed, except those claude itself erased and those the disk
\* refused: a burst never outruns the bounded history.
LogComplete ==
  ~feeding /\ armed => start + 1 .. histTotal \subseteq Elems(log) \cup lost

\* The log is an append-only record of scrolled-out lines, closed once.
LL == INSTANCE LineLog WITH confirmed <- histTotal, closed <- ~open
ImplementsLineLog == LL!Spec
=============================================================================
