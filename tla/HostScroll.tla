----------------------------- MODULE HostScroll -----------------------------
(***************************************************************************)
(* The host terminal of a proxy: what HandleHostInput (server.go) does     *)
(* with each read of the keyboard, and what the reads of claude's output   *)
(* do to the host's view meanwhile.  Every action is one critical section  *)
(* of Server.mu.                                                           *)
(*                                                                         *)
(* Lines are numbered as they are first drawn: the canvas is the histLen   *)
(* newest of the histTotal lines that scrolled out, then the screen.       *)
(***************************************************************************)
EXTENDS Integers, ScrollRenderer

CONSTANTS
  HistMax,       \* histMax
  ScreenRows,    \* rows of the VT model (fixed when the proxy starts)
  HostRows,      \* heights the host terminal may be given
  NavStep, PageStep, WheelStep,    \* NavScrollStep, NavPageStep, NavWheelStep
  ChunkMax,      \* bound: lines one read scrolls out
  MaxLines       \* bound: lines that scroll out in a behaviour

ASSUME ScrollAssumption ==
  /\ {HistMax, ScreenRows, NavStep, PageStep, WheelStep, ChunkMax} \subseteq Nat \ {0}
  /\ HostRows \subseteq Nat \ {0} /\ HostRows # {} /\ MaxLines \in Nat

Far == 1000000         \* the step of Home and End

\* What one read of the host's stdin may be.  "report": focus, mouse click,
\* cursor position: what a terminal sends unasked.  "navText": the toggle key
\* together with other bytes.
WheelKey  == {"wheelUp", "wheelDown"}
PageKey   == {"pgUp", "pgDn"}
ScrollKey == PageKey \cup {"up", "down", "home", "end"}
NavToggle == {"nav", "navText"}
Input     == WheelKey \cup ScrollKey \cup NavToggle \cup {"text", "report"}

NoInput == "none"

VARIABLES
  mode,                 \* "managed", "raw" (SIZE_POLICY host), "flow"
  wheelOn, pagekeyOn,   \* WHEEL_SCROLL, PAGEKEY_SCROLL
  histTotal, histLen,   \* VT model
  hRows, view, nav,     \* Server.hRows, hostSR, hostNav
  top,                  \* history: number of the first line last shown
  base,                 \* history: oldest line kept at that render
  toClaude              \* history: what the last step wrote to the master

cfgVars == <<mode, wheelOn, pagekeyOn>>
vtVars  == <<histTotal, histLen>>
vars    == <<cfgVars, vtVars, hRows, view, nav, top, base, toClaude>>

Oldest == histTotal - histLen

\* Write a frame of view v to the host (lines scrolled out: total, kept: len).
Render(v, total, len, rows) ==
  LET r == Rendered(v, len + ScreenRows, rows) IN
  /\ view' = r
  /\ base' = total - len
  /\ top' = total - len + r.lastOy

Init ==
  /\ mode \in {"managed", "raw", "flow"}
  /\ wheelOn \in BOOLEAN /\ pagekeyOn \in BOOLEAN
  /\ histTotal = 0 /\ histLen = 0 /\ hRows = ScreenRows
  /\ view = NewView /\ nav = FALSE /\ top = 0 /\ base = 0
  /\ toClaude = NoInput

-----------------------------------------------------------------------------
(***************************************************************************)
(* Output.  A read is broadcast at once, or held inside a BSU..ESU section *)
(* until a later read or the valve broadcasts it.                          *)
(***************************************************************************)
Capped(n) == IF n > HistMax THEN HistMax ELSE n

Shown(total, len) ==
  \/ Render(view, total, len, hRows)
  \/ UNCHANGED <<view, top, base>>

PumpRead(n) ==
  /\ histTotal + n <= MaxLines
  /\ histTotal' = histTotal + n /\ histLen' = Capped(histLen + n)
  /\ Shown(histTotal', histLen')
  /\ toClaude' = NoInput
  /\ UNCHANGED <<cfgVars, hRows, nav>>

\* A read that holds an ED 3: the history is dropped.
PumpErase ==
  /\ histLen > 0 /\ histLen' = 0
  /\ Shown(histTotal, histLen')
  /\ toClaude' = NoInput
  /\ UNCHANGED <<cfgVars, histTotal, hRows, nav>>

\* SIGWINCH: SetHostSize.  The VT model keeps its size.
SetHostSize(rows) ==
  /\ hRows' = rows
  /\ Render(view, histTotal, histLen, rows)
  /\ toClaude' = NoInput
  /\ UNCHANGED <<cfgVars, vtVars, nav>>

-----------------------------------------------------------------------------
(***************************************************************************)
(* HandleHostInput, in the order of its tests.                             *)
(***************************************************************************)
Managed == mode = "managed"

RenderHost(v) == Render(v, histTotal, histLen, hRows)
ToClaude(d)   == toClaude' = d

\* raw and flow: everything is claude's.
PassThrough(d) ==
  /\ ~Managed /\ ToClaude(d)
  /\ UNCHANGED <<view, top, base, nav>>

ByWheel(d) == Managed /\ wheelOn /\ d \in WheelKey

Wheel(d) ==
  /\ ByWheel(d) /\ ToClaude(NoInput)
  /\ RenderHost(Scroll(view, IF d = "wheelUp" THEN -WheelStep ELSE WheelStep))
  /\ UNCHANGED nav

ByPageKey(d) == Managed /\ pagekeyOn /\ d \in PageKey

Page(d) ==
  /\ ByPageKey(d) /\ ToClaude(NoInput)
  /\ RenderHost(Scroll(view, IF d = "pgUp" THEN -PageStep ELSE PageStep))
  /\ UNCHANGED nav

IsLiveResetKey(d) == d \notin WheelKey \cup {"report"}

\* Mutant of Resets: a report of the terminal also returns to the live view.
ResetsAlways(d) == pagekeyOn /\ ~nav /\ Scrollback(view) > 0

\* The last part of hostPagekeyLocked: a real key returns to the live view.
Resets(d) == pagekeyOn /\ ~nav /\ Scrollback(view) > 0 /\ IsLiveResetKey(d)

Live(d) == IF Resets(d) THEN FollowBottom(view) ELSE view
ShowLive(d) == IF Resets(d) THEN RenderHost(FollowBottom(view))
                            ELSE UNCHANGED <<view, top, base>>

Consumed(d) == ByWheel(d) \/ ByPageKey(d)

NavOn(d) ==
  /\ Managed /\ ~Consumed(d) /\ d \in NavToggle /\ ~nav
  /\ nav' = TRUE /\ ToClaude(NoInput)
  /\ RenderHost(Live(d))

\* Leaving nav mode follows again, but renders nothing.
NavOff(d) ==
  /\ Managed /\ ~Consumed(d) /\ d \in NavToggle /\ nav
  /\ nav' = FALSE /\ view' = FollowBottom(view)
  /\ ToClaude(IF d = "navText" THEN "text" ELSE NoInput)
  /\ UNCHANGED <<top, base>>

ScrollDy ==
  [up |-> -NavStep, down |-> NavStep, pgUp |-> -PageStep, pgDn |-> PageStep,
   home |-> -Far, end |-> Far]

\* In nav mode keys scroll or are swallowed.
NavKeys(d) ==
  /\ Managed /\ ~Consumed(d) /\ d \notin NavToggle /\ nav
  /\ ToClaude(NoInput) /\ UNCHANGED nav
  /\ \/ d \in ScrollKey /\ RenderHost(Scroll(view, ScrollDy[d]))
     \/ d \notin ScrollKey /\ UNCHANGED <<view, top, base>>

Type(d) ==
  /\ Managed /\ ~Consumed(d) /\ d \notin NavToggle /\ ~nav
  /\ ShowLive(d)
  /\ ToClaude(d) /\ UNCHANGED nav

HandleHostInput(d) ==
  /\ PassThrough(d) \/ Wheel(d) \/ Page(d) \/ NavOn(d) \/ NavOff(d)
     \/ NavKeys(d) \/ Type(d)
  /\ UNCHANGED <<cfgVars, vtVars, hRows>>

-----------------------------------------------------------------------------
Output == (\E n \in 0 .. ChunkMax : PumpRead(n)) \/ PumpErase

Next ==
  \/ Output
  \/ \E rows \in HostRows : SetHostSize(rows)
  \/ \E d \in Input : HandleHostInput(d)

Spec == Init /\ [][Next]_vars

-----------------------------------------------------------------------------
TypeOK ==
  /\ mode \in {"managed", "raw", "flow"} /\ wheelOn \in BOOLEAN /\ pagekeyOn \in BOOLEAN
  /\ histTotal \in Nat /\ histLen \in 0 .. HistMax /\ histLen <= histTotal
  /\ hRows \in HostRows \cup {ScreenRows} /\ view \in View /\ nav \in BOOLEAN
  /\ top \in Nat /\ base \in Nat
  /\ toClaude \in Input \cup {NoInput}

\* A view that does not follow is really above the bottom of what was last
\* rendered: there is no state in which the host looks live but is frozen,
\* and Scrollback is positive, so that a key can bring it back.
FrozenIsAbove == ~view.follow => view.anchor < view.lastMaxOy

\* While the user reads back, claude's output moves nothing: the first line
\* shown stays, and the view does not turn live, as long as the history has
\* not dropped a line since the last render (scroll.go: the anchor counts
\* from the oldest line so that appended output does not make it drift).
ViewPinned ==
  [][Output /\ ~view.follow /\ histTotal' - histLen' = base
       => top' = top /\ ~view'.follow]_vars

\* In nav mode no key reaches claude, whatever the other two scroll settings
\* do with it first.
NavSwallows == [][nav /\ nav' => toClaude' = NoInput]_vars

\* With PAGEKEY_SCROLL a key that claude gets was typed into the live view:
\* no typing blindly into a scrolled-back screen.  A report of the terminal
\* passes through and leaves a scrolled-back view where it is.
TypedLive ==
  [][Managed /\ pagekeyOn /\ toClaude' # NoInput
       => IF IsLiveResetKey(toClaude') THEN view'.follow
          ELSE <<view, top>>' = <<view, top>>]_vars
=============================================================================
