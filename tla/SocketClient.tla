---------------------------- MODULE SocketClient ----------------------------
(***************************************************************************)
(* A client in a terminal (client.go) and the server's side of it.  The    *)
(* client has its own nav mode and remembers for itself whether it has     *)
(* scrolled back (pkScrolled); the position is in the server's             *)
(* ScrollRenderer, and all that goes there are the frames ClientInput      *)
(* parses.  Two goroutines write them: the one that reads the keyboard and *)
(* the one that is told of the terminal's size.                            *)
(*                                                                         *)
(* The terminal hands over what it has: one read may hold several keys.  A *)
(* key is a byte here, whatever its escape sequence.  The end of the       *)
(* connection is Lifecycle's.                                              *)
(***************************************************************************)
EXTENDS ClientInput

CONSTANTS
  Reads,       \* bound: reads of the keyboard, sequences of keys
  Settings,    \* bound: records of the three switches, and whether the client
               \* is a browser's terminal instead
  NavStep, PageStep, WheelStep,   \* NavScrollStep, NavPageStep, NavWheelStep
  Sizes,       \* heights of the terminal
  Images,      \* what the clipboard may hold
  WebItems,    \* IMAGE frames of a browser's terminal, with any length and payload
  MaxInputs,   \* bound: reads and browser items
  MaxResizes,  \* bound: changes of the size
  Onward       \* bound: whether the terminal goes on once the parser is astray

VARIABLES
  cfg,        \* PAGEKEY_SCROLL, WHEEL_SCROLL, IMG_PASTE_KEY
  nav, pk,    \* navMode, pkScrolled
  todo,       \* what processStdin has still to write
  size,       \* height of the terminal
  watching,   \* watchResize has been called
  winch,      \* a change of size is signalled
  taken,      \* size that sendResize has got and not written, or 0
  unseen,     \* history: the size changed before watchResize
  inputs, resizes

keyVars  == <<cfg, nav, pk, todo, inputs>>
sizeVars == <<size, watching, winch, taken, unseen, resizes>>
vars     == <<connVars, keyVars, sizeVars>>

Code == [text |-> 97, pgUp |-> 1, pgDn |-> 2, up |-> 3, down |-> 4, home |-> 5,
         end |-> 6, wheelUp |-> 7, wheelDown |-> 8, mouse |-> 9, focus |-> 10,
         img |-> 22, nav |-> 28]

\* A key is no byte of a magic (UTF-8 has none of them).
ASSUME SocketClientAssumption ==
  /\ Settings \subseteq [pagekey : BOOLEAN, wheel : BOOLEAN, img : BOOLEAN, web : BOOLEAN]
  /\ MaxInputs \in Nat /\ MaxResizes \in Nat /\ Onward \in BOOLEAN
  /\ \A d \in Reads : d \in Seq(DOMAIN Code) /\ d # <<>>

ASSUME StepsAssumption ==
  /\ {NavStep, PageStep, WheelStep} \subseteq Nat
  /\ \A r \in Sizes : r \in Nat \ {0} /\ r < 65536

\* The length of a picture has four bytes in the frame.
ASSUME PicturesAssumption ==
  /\ MaxImage \div 65536 < 65536
  /\ \A d \in Images : d \in Seq(0 .. 255) /\ Len(d) \in 1 .. MaxImage

ASSUME WebAssumption ==
  \A it \in WebItems :
    /\ it = [kind |-> "image", len |-> it.len, data |-> it.data]
    /\ it.len \in Nat /\ it.len \div 65536 < 65536 /\ it.data \in Seq(0 .. 255)

Keys(d) == [kind |-> "keys", data |-> [i \in DOMAIN d |-> Code[d[i]]]]
ResizeTo(r)  == [kind |-> "resize", rows |-> r]
Picture(d) == [kind |-> "image", len |-> Len(d), data |-> d]

\* sendScroll, clamp16.
ScrollBy(dy) ==
  [kind |-> "scroll", dy |-> IF dy > 32767 THEN 32767 ELSE IF dy < -32768 THEN -32768 ELSE dy]
Follow == ScrollBy(32767)

\* RunConn: the first frame is the size.
Init ==
  /\ cfg \in Settings /\ nav = FALSE /\ pk = FALSE /\ todo = <<>> /\ inputs = 0
  /\ size \in Sizes /\ watching = FALSE /\ winch = FALSE /\ taken = 0
  /\ unseen = FALSE /\ resizes = 0
  /\ wire = Bytes(ResizeTo(size)) /\ buf = <<>> /\ parsing = FALSE
  /\ asked = << [do |-> <<"resize", size>>, typed |-> FALSE] >> /\ astray = FALSE
  /\ hist = 0 /\ rows = ScreenRows /\ view = Rendered(NewView, ScreenRows, ScreenRows)

-----------------------------------------------------------------------------
(***************************************************************************)
(* The size of the terminal.  The signal is asked for after the first      *)
(* frame has been written; signals of several changes become one.          *)
(***************************************************************************)
SizeFrame == UNCHANGED <<keyVars, viewVars, buf, parsing>>

SizeChanges ==
  /\ resizes < MaxResizes /\ resizes' = resizes + 1
  /\ size' \in Sizes \ {size}
  /\ winch' = watching /\ unseen' = (unseen \/ ~watching)
  /\ UNCHANGED <<watching, taken, wire, asked, astray>> /\ SizeFrame

watchResize ==
  /\ ~watching /\ watching' = TRUE
  /\ UNCHANGED <<size, winch, taken, unseen, resizes, wire, asked, astray>> /\ SizeFrame

\* sendResize: the size, and then the frame.
GetSize ==
  /\ winch /\ taken = 0 /\ taken' = size /\ winch' = FALSE
  /\ UNCHANGED <<size, watching, unseen, resizes, wire, asked, astray>> /\ SizeFrame

\* Mutant of WriteSize: what was signalled meanwhile is taken to be written too.
WriteSizeClears ==
  /\ taken # 0 /\ taken' = 0 /\ winch' = FALSE /\ Send(ResizeTo(taken), FALSE)
  /\ UNCHANGED <<size, watching, unseen, resizes>> /\ SizeFrame

WriteSize ==
  /\ taken # 0 /\ taken' = 0 /\ Send(ResizeTo(taken), FALSE)
  /\ UNCHANGED <<size, watching, winch, unseen, resizes>> /\ SizeFrame

-----------------------------------------------------------------------------
(***************************************************************************)
(* processStdin, in the order of its tests.                                *)
(***************************************************************************)
\* ClassifyWheel and IsLiveResetKey look for a report of the mouse at the
\* beginning of the read, and for other reports in a read of nothing else.
\* (A wheel report in the old encoding counts anywhere in a read; such reads are
\* not among Reads.)
IsWheel(d)   == d[1] \in {"wheelUp", "wheelDown"}
IsPage(d)    == d \in {<<"pgUp">>, <<"pgDn">>}
IsLiveResetKey(d) == ~IsWheel(d) /\ d[1] # "mouse" /\ d # <<"focus">>
Without(d, k) ==
  LET kept[i \in 0 .. Len(d)] == IF i = 0 THEN <<>>
                                 ELSE IF d[i] = k THEN kept[i - 1] ELSE Append(kept[i - 1], d[i])
  IN kept[Len(d)]

ByWheel(d) == cfg.wheel /\ IsWheel(d)
ByPage(d)  == ~ByWheel(d) /\ cfg.pagekey /\ IsPage(d)
Other(d)   == ~ByWheel(d) /\ ~ByPage(d)

Item(it, d)  == [it |-> it, typed |-> IsLiveResetKey(d)]
Rest(d, k)   == IF Without(d, k) = <<>> THEN <<>> ELSE << Item(Keys(Without(d, k)), d) >>

\* Mutant of Resets: only page keys are remembered in pkScrolled.
ResetsPaged(d) == cfg.pagekey /\ pk /\ IsLiveResetKey(d)

\* A real key while scrolled back: the live view first.
Resets(d) == (cfg.pagekey \/ cfg.wheel) /\ pk /\ IsLiveResetKey(d)

Live(d)   == IF Resets(d) THEN << Item(Follow, d) >> ELSE <<>>

WheelScroll(d) ==
  /\ ByWheel(d) /\ pk' = TRUE /\ UNCHANGED nav
  /\ todo' = << Item(ScrollBy(IF d[1] = "wheelUp" THEN -WheelStep ELSE WheelStep), d) >>

PageKeyScroll(d) ==
  /\ ByPage(d) /\ pk' = TRUE /\ UNCHANGED nav
  /\ todo' = << Item(ScrollBy(IF d[1] = "pgUp" THEN -PageStep ELSE PageStep), d) >>

NavOn(d) ==
  /\ Other(d) /\ Contains(d, "nav") /\ ~nav /\ nav' = TRUE
  /\ pk' = (pk /\ ~Resets(d)) /\ todo' = Live(d)

NavOff(d) ==
  /\ Other(d) /\ Contains(d, "nav") /\ nav /\ nav' = FALSE /\ pk' = FALSE
  /\ todo' = Live(d) \o << Item(Follow, d) >> \o Rest(d, "nav")

scrollKeys == [up |-> -NavStep, down |-> NavStep, pgUp |-> -PageStep, pgDn |-> PageStep,
               home |-> -1000000, end |-> 1000000]

\* In nav mode a read that is one of the keys scrolls, any other is swallowed.
NavKeys(d) ==
  /\ Other(d) /\ ~Contains(d, "nav") /\ nav /\ UNCHANGED nav
  /\ pk' = (pk /\ ~Resets(d))
  /\ todo' = Live(d) \o IF Len(d) = 1 /\ d[1] \in DOMAIN scrollKeys
                        THEN << Item(ScrollBy(scrollKeys[d[1]]), d) >> ELSE <<>>

\* The picture in the clipboard, if there is one.
PasteImage(d) ==
  /\ Other(d) /\ ~Contains(d, "nav") /\ ~nav /\ UNCHANGED nav
  /\ cfg.img /\ Contains(d, "img") /\ pk' = (pk /\ ~Resets(d))
  /\ \E p \in Images :
       todo' = Live(d) \o << Item(Picture(p), d) >> \o Rest(d, "img")

Type(d) ==
  /\ Other(d) /\ ~Contains(d, "nav") /\ ~nav /\ UNCHANGED nav
  /\ pk' = (pk /\ ~Resets(d)) /\ todo' = Live(d) \o << Item(Keys(d), d) >>

ProcessStdin(d) ==
  /\ ~cfg.web /\ todo = <<>> /\ inputs < MaxInputs /\ inputs' = inputs + 1
  /\ WheelScroll(d) \/ PageKeyScroll(d) \/ NavOn(d) \/ NavOff(d) \/ NavKeys(d)
     \/ PasteImage(d) \/ Type(d)
  /\ UNCHANGED <<cfg, connVars, sizeVars>>

WriteNext ==
  /\ todo # <<>> /\ todo' = Tail(todo)
  /\ Send(Head(todo).it, Head(todo).typed)
  /\ UNCHANGED <<cfg, nav, pk, inputs, buf, parsing, viewVars, sizeVars>>

\* External: a browser's terminal behind the relay writes what it likes.
WebClient ==
  /\ cfg.web /\ inputs < MaxInputs /\ inputs' = inputs + 1
  /\ \E it \in WebItems : Send(it, FALSE)
  /\ UNCHANGED <<cfg, nav, pk, todo, buf, parsing, viewVars, sizeVars>>

-----------------------------------------------------------------------------
Server == (Parse \/ \E n \in 1 .. Len(wire) : Read(n)) /\ UNCHANGED <<keyVars, sizeVars>>

Terminal ==
  \/ \E d \in Reads : ProcessStdin(d)
  \/ WriteNext \/ WebClient
  \/ SizeChanges \/ watchResize \/ GetSize \/ WriteSize

Next ==
  \/ Server
  \/ Output /\ UNCHANGED <<keyVars, sizeVars>>
  \/ (astray => Onward) /\ Terminal

Spec == Init /\ [][Next]_vars

-----------------------------------------------------------------------------
\* Types, and the carry-over of the parser.
TypeOK ==
  /\ ParseTypeOK
  /\ cfg \in Settings /\ {nav, pk, watching, winch, unseen} \subseteq BOOLEAN
  /\ size \in Sizes /\ taken \in Sizes \cup {0}
  /\ inputs \in 0 .. MaxInputs /\ resizes \in 0 .. MaxResizes

\* Whatever the chunking and whoever writes in between, the server does exactly
\* what the items ask for, in their order: no byte of a frame reaches claude as
\* a key, and no key is taken for a frame; of a picture with an invalid length,
\* or with a payload longer than that, claude gets what is left over.  Not so
\* when a read ends inside a magic: its first byte is typed, and from then on
\* (astray), or after a picture that misleads, nothing is claimed.
OnlyAsked ==
  ~astray /\ parsing => \A i \in DOMAIN Turn.do :
                          \/ i <= Len(asked) /\ Turn.do[i] = asked[i].do
                          \/ HalfMagic /\ i = Len(buf)

\* What the user types reaches claude only while the live screen is shown to
\* them, although it is the server that knows the position and the client that
\* decides when to return.  (A read that begins with a report of the mouse is
\* taken for a report.)
TypedLive ==
  ~astray /\ parsing => \A i \in DOMAIN Turn.do :
    i <= Len(asked) /\ asked[i].typed /\ asked[i].do[1] = "forward" => view.follow

\* When nothing is on its way any more, everything has been done; the server
\* has the height of the terminal, unless it changed before watchResize; and a
\* view that is scrolled back is one the client knows to be so.
CaughtUp ==
  ~astray /\ wire = <<>> /\ ~parsing /\ todo = <<>> =>
    /\ buf = <<>> /\ asked = <<>>
    /\ ~winch /\ taken = 0 /\ ~unseen => rows = size
    /\ ~view.follow => nav \/ pk
=============================================================================
