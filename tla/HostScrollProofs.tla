-------------------------- MODULE HostScrollProofs --------------------------
(***************************************************************************)
(* Proofs about HostScroll, for every history size, step and height.       *)
(*                                                                         *)
(* The inductive invariant adds to TypeOK what a render leaves behind:     *)
(* where the first line shown is, and how far down the canvas the bottom   *)
(* then was.                                                               *)
(***************************************************************************)
EXTENDS HostScroll, TLAPS

\* A frozen view is above the bottom and was rendered at its anchor.
Anchored(v) == ~v.follow => v.anchor < v.lastMaxOy /\ v.lastOy = v.anchor

\* What the last render showed, and how the canvas can have changed since.
LastRender ==
  /\ top = base + view.lastOy
  /\ base <= Oldest
  /\ view.lastMaxOy <= Floor0(histTotal - base + ScreenRows - hRows)

IInv == TypeOK /\ Anchored(view) /\ LastRender /\ (nav => Managed)

-----------------------------------------------------------------------------
(* The renderer. *)

LEMMA ScrollType ==
  ASSUME NEW v \in View, NEW dy \in Int
  PROVE  Scroll(v, dy) \in View
<1>1. \A f \in BOOLEAN, n \in Nat :
        /\ [v EXCEPT !.follow = f, !.anchor = n] \in View
        /\ [v EXCEPT !.anchor = n] \in View
  BY DEF View
<1>2. v.anchor \in Nat /\ v.lastMaxOy \in Nat
  BY DEF View
<1>3. CASE v.follow
  <2>1. Floor0(v.lastMaxOy + dy) \in Nat
    BY <1>2 DEF Floor0
  <2> QED BY <1>1, <1>3, <2>1 DEF Scroll
<1>4. CASE ~v.follow /\ v.anchor + dy >= v.lastMaxOy
  <2>1. v.anchor + dy \in Nat
    BY <1>2, <1>4
  <2> QED BY <1>1, <1>4, <2>1 DEF Scroll
<1>5. CASE ~v.follow /\ ~(v.anchor + dy >= v.lastMaxOy)
  <2>1. Floor0(v.anchor + dy) \in Nat
    BY <1>2 DEF Floor0
  <2> QED BY <1>1, <1>5, <2>1 DEF Scroll
<1> QED BY <1>3, <1>4, <1>5

LEMMA FollowBottomType ==
  ASSUME NEW v \in View
  PROVE  FollowBottom(v) \in View /\ FollowBottom(v).follow
  BY DEF FollowBottom, View

LEMMA RenderedProps ==
  ASSUME NEW v \in View, NEW total \in Nat, NEW vrows \in Nat
  PROVE  /\ Rendered(v, total, vrows) \in View
         /\ Anchored(Rendered(v, total, vrows))
         /\ Rendered(v, total, vrows).lastMaxOy = Floor0(total - vrows)
<1> DEFINE maxOy == Floor0(total - vrows)
           oy    == IF v.follow \/ v.anchor >= maxOy THEN maxOy ELSE v.anchor
           r     == Rendered(v, total, vrows)
<1>1. maxOy \in Nat /\ v.anchor \in Nat /\ v.follow \in BOOLEAN
  BY DEF Floor0, View
<1>2. oy \in Nat
  BY <1>1
<1>3. /\ r.follow <=> (v.follow \/ v.anchor >= maxOy)
      /\ r.anchor = (IF v.follow THEN v.anchor ELSE oy)
      /\ r.lastMaxOy = maxOy /\ r.lastOy = oy
  BY DEF Rendered
<1>4. r \in View
  <2> DEFINE f == v.follow \/ v.anchor >= maxOy
             a == IF v.follow THEN v.anchor ELSE oy
  <2>1. f \in BOOLEAN /\ a \in Nat
    BY <1>1, <1>2
  <2>2. r = [follow |-> f, anchor |-> a, lastMaxOy |-> maxOy, lastOy |-> oy]
    BY DEF Rendered
  <2> HIDE DEF f, a, maxOy, oy, r
  <2> QED BY <1>1, <1>2, <2>1, <2>2 DEF View
<1> HIDE DEF r, maxOy
<1>5. Anchored(r)
  <2> SUFFICES ASSUME ~r.follow
               PROVE  r.anchor < r.lastMaxOy /\ r.lastOy = r.anchor
    BY DEF Anchored
  <2>1. ~v.follow /\ v.anchor < maxOy
    BY <1>1, <1>3
  <2> QED BY <1>1, <1>3, <2>1
<1> QED BY <1>3, <1>4, <1>5 DEF r, maxOy

LEMMA RenderedPinned ==
  ASSUME NEW v \in View, NEW total \in Nat, NEW vrows \in Nat,
         ~v.follow, v.anchor < Floor0(total - vrows)
  PROVE  Rendered(v, total, vrows) =
           [follow |-> FALSE, anchor |-> v.anchor,
            lastMaxOy |-> Floor0(total - vrows), lastOy |-> v.anchor]
<1>1. ~(v.anchor >= Floor0(total - vrows))
  BY DEF View, Floor0
<1> QED BY <1>1 DEF Rendered

LEMMA RenderedLive ==
  ASSUME NEW v \in View, NEW total \in Nat, NEW vrows \in Nat, v.follow
  PROVE  Rendered(v, total, vrows).follow
  BY DEF Rendered

\* A scrolled-back view is really above the bottom, so Scrollback tells.
LEMMA ScrollbackTells ==
  ASSUME NEW v \in View, Anchored(v)
  PROVE  v.follow <=> Scrollback(v) = 0
  BY DEF View, Anchored, Scrollback, Floor0

-----------------------------------------------------------------------------
(* The steps. *)

\* Writing a frame establishes everything the invariant says of the view.
LEMMA RenderStep ==
  ASSUME NEW v \in View, NEW total \in Nat, NEW len \in Nat, len <= total,
         NEW rows \in Nat, ScreenRows \in Nat, Render(v, total, len, rows)
  PROVE  /\ view' \in View /\ Anchored(view') /\ base' = total - len
         /\ base' \in Nat /\ top' \in Nat /\ top' = base' + view'.lastOy
         /\ view'.lastMaxOy = Floor0(total - base' + ScreenRows - rows)
<1>1. len + ScreenRows \in Nat
  OBVIOUS
<1>2. /\ view' \in View /\ Anchored(view')
      /\ view'.lastMaxOy = Floor0(len + ScreenRows - rows)
  <2> DEFINE n == len + ScreenRows
  <2>1. n \in Nat /\ view' = Rendered(v, n, rows)
    BY <1>1 DEF Render
  <2> HIDE DEF n
  <2>2. /\ Rendered(v, n, rows) \in View /\ Anchored(Rendered(v, n, rows))
        /\ Rendered(v, n, rows).lastMaxOy = Floor0(n - rows)
    BY <2>1, RenderedProps
  <2> QED BY <2>1, <2>2 DEF n
<1>3. /\ base' = total - len /\ top' = base' + view'.lastOy
      /\ base' \in Nat
  BY DEF Render
<1>4. view'.lastOy \in Nat
  BY <1>2 DEF View
<1>5. total - base' + ScreenRows - rows = len + ScreenRows - rows
  BY <1>3
<1> QED BY <1>2, <1>3, <1>4, <1>5

\* A read of claude's output, shown or held back.
LEMMA ShownStep ==
  ASSUME IInv, NEW total \in Nat, NEW len \in 0 .. HistMax, len <= total,
         total >= histTotal, total - len >= Oldest,
         Shown(total, len), UNCHANGED hRows,
         histTotal' = total, histLen' = len
  PROVE  /\ view' \in View /\ top' \in Nat /\ base' \in Nat
         /\ Anchored(view') /\ LastRender'
<1> USE ScrollAssumption
<1>1. /\ view \in View /\ hRows \in Nat /\ ScreenRows \in Nat
      /\ top \in Nat /\ base \in Nat /\ histTotal \in Nat /\ histLen \in Nat
      /\ len \in Nat
  BY DEF IInv, TypeOK
<1>2. CASE Render(view, total, len, hRows)
  <2>1. /\ view' \in View /\ Anchored(view') /\ base' = total - len
        /\ base' \in Nat /\ top' \in Nat /\ top' = base' + view'.lastOy
        /\ view'.lastMaxOy = Floor0(total - base' + ScreenRows - hRows)
    BY <1>1, <1>2, RenderStep
  <2>2. view'.lastMaxOy \in Nat
    BY <2>1 DEF View
  <2> QED BY <1>1, <2>1, <2>2 DEF LastRender, Oldest
<1>3. CASE UNCHANGED <<view, top, base>>
  <2>1. /\ view' \in View /\ top' \in Nat /\ base' \in Nat /\ Anchored(view')
        /\ top' = base' + view'.lastOy /\ base' <= total - len
    BY <1>1, <1>3 DEF IInv, Anchored, LastRender, Oldest
  <2>2. view.lastMaxOy <= Floor0(histTotal - base + ScreenRows - hRows)
    BY DEF IInv, LastRender
  <2>3. Floor0(histTotal - base + ScreenRows - hRows)
          <= Floor0(total - base + ScreenRows - hRows)
    BY <1>1 DEF Floor0
  <2>4. view.lastMaxOy \in Nat
    BY <1>1 DEF View
  <2>5. Floor0(histTotal - base + ScreenRows - hRows) \in Int
    BY <1>1 DEF Floor0
  <2>6. Floor0(total - base + ScreenRows - hRows) \in Int
    BY <1>1 DEF Floor0
  <2>7. view.lastMaxOy <= Floor0(total - base + ScreenRows - hRows)
    BY <2>2, <2>3, <2>4, <2>5, <2>6
  <2> QED BY <1>3, <2>1, <2>7 DEF LastRender, Oldest
<1> QED BY <1>2, <1>3 DEF Shown

\* A step of the host's own view: the canvas stays, a new view is rendered
\* or the old one stays.
LEMMA ViewStep ==
  ASSUME IInv, NEW v \in View, NEW rows \in HostRows \cup {ScreenRows},
         Render(v, histTotal, histLen, rows), hRows' = rows, UNCHANGED vtVars
  PROVE  /\ view' \in View /\ top' \in Nat /\ base' \in Nat
         /\ Anchored(view') /\ LastRender'
<1> USE ScrollAssumption
<1>1. /\ rows \in Nat /\ ScreenRows \in Nat
      /\ histTotal \in Nat /\ histLen \in Nat /\ histLen <= histTotal
  BY DEF IInv, TypeOK
<1>2. /\ view' \in View /\ Anchored(view') /\ base' = histTotal - histLen
      /\ base' \in Nat /\ top' \in Nat /\ top' = base' + view'.lastOy
      /\ view'.lastMaxOy = Floor0(histTotal - base' + ScreenRows - rows)
  BY <1>1, RenderStep
<1>3. view'.lastMaxOy \in Nat
  BY <1>2 DEF View
<1> QED BY <1>1, <1>2, <1>3 DEF LastRender, Oldest, vtVars

LEMMA OutputStep ==
  ASSUME IInv, Output
  PROVE  IInv'
<1> USE ScrollAssumption
<1>1. ASSUME NEW n \in 0 .. ChunkMax, PumpRead(n)
      PROVE  IInv'
  <2>1. /\ histTotal \in Nat /\ histLen \in 0 .. HistMax /\ histLen <= histTotal
        /\ n \in Nat /\ HistMax \in Nat
    BY DEF IInv, TypeOK
  <2>2. /\ histTotal' = histTotal + n /\ histTotal' \in Nat /\ histTotal' >= histTotal
        /\ histLen' = Capped(histLen + n)
    BY <1>1, <2>1 DEF PumpRead
  <2>3. /\ histLen' \in 0 .. HistMax /\ histLen' <= histTotal'
        /\ histTotal' - histLen' >= Oldest
    BY <2>1, <2>2 DEF Capped, Oldest
  <2>4. /\ view' \in View /\ top' \in Nat /\ base' \in Nat
        /\ Anchored(view') /\ LastRender'
    BY <1>1, <2>2, <2>3, ShownStep DEF PumpRead
  <2> QED BY <1>1, <2>2, <2>3, <2>4 DEF PumpRead, IInv, TypeOK, cfgVars, Managed
<1>2. ASSUME PumpErase
      PROVE  IInv'
  <2>1. /\ histTotal \in Nat /\ histLen \in 0 .. HistMax /\ histLen <= histTotal
        /\ HistMax \in Nat
    BY DEF IInv, TypeOK
  <2>2. /\ histTotal' = histTotal /\ histLen' = 0 /\ histLen' \in 0 .. HistMax
        /\ histTotal - 0 >= Oldest
    BY <1>2, <2>1 DEF PumpErase, Oldest
  <2>3. /\ view' \in View /\ top' \in Nat /\ base' \in Nat
        /\ Anchored(view') /\ LastRender'
    BY <1>2, <2>1, <2>2, ShownStep DEF PumpErase
  <2> QED BY <1>2, <2>1, <2>2, <2>3 DEF PumpErase, IInv, TypeOK, cfgVars, Managed
<1> QED BY <1>1, <1>2 DEF Output

LEMMA ScrollDyInt == \A d \in ScrollKey : ScrollDy[d] \in Int
<1> USE ScrollAssumption
<1>1. NavStep \in Int /\ PageStep \in Int /\ Far \in Int
  BY DEF Far
<1> QED BY <1>1 DEF ScrollKey, PageKey, ScrollDy

\* The handler leaves the invariant's view part intact when it renders the
\* current canvas, and when it touches neither the view nor the canvas.
LEMMA RenderHostStep ==
  ASSUME IInv, NEW v \in View, RenderHost(v), UNCHANGED <<vtVars, hRows>>
  PROVE  /\ view' \in View /\ top' \in Nat /\ base' \in Nat
         /\ Anchored(view') /\ LastRender'
<1>1. hRows \in HostRows \cup {ScreenRows} /\ hRows' = hRows
  BY DEF IInv, TypeOK
<1> QED BY <1>1, ViewStep DEF RenderHost

LEMMA SameViewStep ==
  ASSUME IInv, UNCHANGED <<view, top, base, vtVars, hRows>>
  PROVE  /\ view' \in View /\ top' \in Nat /\ base' \in Nat
         /\ Anchored(view') /\ LastRender'
  BY DEF IInv, TypeOK, Anchored, LastRender, Oldest, vtVars

LEMMA InputStep ==
  ASSUME IInv, NEW d \in Input, HandleHostInput(d)
  PROVE  IInv'
<1> USE ScrollAssumption
<1>1. /\ view \in View /\ nav \in BOOLEAN
      /\ UNCHANGED <<vtVars, hRows, mode, wheelOn, pagekeyOn>>
  BY DEF IInv, TypeOK, HandleHostInput, cfgVars
<1>2. /\ WheelStep \in Int /\ -WheelStep \in Int
      /\ PageStep \in Int /\ -PageStep \in Int
  OBVIOUS
<1> DEFINE ViewFine == /\ view' \in View /\ top' \in Nat /\ base' \in Nat
                       /\ Anchored(view') /\ LastRender'
           KeyFine  == nav' \in BOOLEAN /\ toClaude' \in Input \cup {NoInput}
<1>3. ASSUME PassThrough(d)
      PROVE  ViewFine /\ KeyFine
  BY <1>1, <1>3, SameViewStep DEF PassThrough, ToClaude
<1>4. ASSUME Wheel(d)
      PROVE  ViewFine /\ KeyFine
  <2> DEFINE v == Scroll(view, IF d = "wheelUp" THEN -WheelStep ELSE WheelStep)
  <2>1. v \in View
    BY <1>1, <1>2, ScrollType
  <2>2. RenderHost(v)
    BY <1>4 DEF Wheel
  <2> HIDE DEF v
  <2>3. ViewFine
    BY <1>1, <2>1, <2>2, RenderHostStep
  <2> QED BY <1>1, <1>4, <2>3 DEF Wheel, ToClaude
<1>5. ASSUME Page(d)
      PROVE  ViewFine /\ KeyFine
  <2> DEFINE v == Scroll(view, IF d = "pgUp" THEN -PageStep ELSE PageStep)
  <2>1. v \in View
    BY <1>1, <1>2, ScrollType
  <2>2. RenderHost(v)
    BY <1>5 DEF Page
  <2> HIDE DEF v
  <2>3. ViewFine
    BY <1>1, <2>1, <2>2, RenderHostStep
  <2> QED BY <1>1, <1>5, <2>3 DEF Page, ToClaude
<1>6. ASSUME NavOn(d)
      PROVE  ViewFine /\ KeyFine
  <2>1. Live(d) \in View
    BY <1>1, FollowBottomType DEF Live
  <2>2. ViewFine
    BY <1>1, <1>6, <2>1, RenderHostStep DEF NavOn
  <2> QED BY <1>6, <2>2 DEF NavOn, ToClaude
<1>7. ASSUME NavOff(d)
      PROVE  ViewFine /\ KeyFine
  <2>1. /\ FollowBottom(view) \in View /\ FollowBottom(view).follow
        /\ FollowBottom(view).lastOy = view.lastOy
        /\ FollowBottom(view).lastMaxOy = view.lastMaxOy
    BY <1>1 DEF FollowBottom, View
  <2>2. view' = FollowBottom(view) /\ UNCHANGED <<top, base, histTotal, histLen, hRows>>
    BY <1>1, <1>7 DEF NavOff, vtVars
  <2>3. ViewFine
    BY <2>1, <2>2 DEF IInv, TypeOK, Anchored, LastRender, Oldest
  <2>4. nav' = FALSE /\ toClaude' \in {"text", NoInput}
    BY <1>7 DEF NavOff, ToClaude
  <2> QED BY <2>3, <2>4 DEF Input
<1>8. ASSUME NavKeys(d)
      PROVE  ViewFine /\ KeyFine
  <2>1. CASE d \in ScrollKey /\ RenderHost(Scroll(view, ScrollDy[d]))
    <3>1. Scroll(view, ScrollDy[d]) \in View
      BY <1>1, <2>1, ScrollType, ScrollDyInt
    <3>2. ViewFine
      BY <1>1, <2>1, <3>1, RenderHostStep
    <3> QED BY <1>1, <1>8, <3>2 DEF NavKeys, ToClaude
  <2>2. CASE UNCHANGED <<view, top, base>>
    BY <1>1, <1>8, <2>2, SameViewStep DEF NavKeys, ToClaude
  <2> QED BY <1>8, <2>1, <2>2 DEF NavKeys
<1>9. ASSUME Type(d)
      PROVE  ViewFine /\ KeyFine
  <2>1. ViewFine
    <3>1. CASE Resets(d)
      <4>1. FollowBottom(view) \in View
        BY <1>1, FollowBottomType
      <4>2. RenderHost(FollowBottom(view))
        BY <1>9, <3>1 DEF Type, ShowLive
      <4> QED BY <1>1, <4>1, <4>2, RenderHostStep
    <3>2. CASE ~Resets(d)
      <4>1. UNCHANGED <<view, top, base>>
        BY <1>9, <3>2 DEF Type, ShowLive
      <4> QED BY <1>1, <4>1, SameViewStep
    <3> QED BY <3>1, <3>2
  <2> QED BY <1>1, <1>9, <2>1 DEF Type, ToClaude
<1>10. nav' => Managed'
  BY <1>1 DEF IInv, HandleHostInput, PassThrough, Wheel, Page, NavOn, NavOff, NavKeys,
              Type, Managed
<1>11. ViewFine /\ KeyFine
  BY <1>3, <1>4, <1>5, <1>6, <1>7, <1>8, <1>9 DEF HandleHostInput
<1> QED BY <1>1, <1>10, <1>11 DEF IInv, TypeOK, vtVars

-----------------------------------------------------------------------------
(* The theorems. *)

LEMMA Invariance == Spec => []IInv
<1> USE ScrollAssumption
<1>1. Init => IInv
  <2> SUFFICES ASSUME Init PROVE IInv
    OBVIOUS
  <2>1. NewView \in View /\ Anchored(NewView) /\ NewView.lastOy = 0
        /\ NewView.lastMaxOy = 0
    BY DEF NewView, View, Anchored
  <2>2. TypeOK
    <3>1. histLen \in 0 .. HistMax /\ histTotal \in Nat /\ histLen <= histTotal
      BY DEF Init
    <3>2. view \in View /\ top \in Nat /\ base \in Nat
      BY <2>1 DEF Init
    <3> QED BY <3>1, <3>2 DEF Init, TypeOK
  <2>3. LastRender
    BY <2>1 DEF Init, LastRender, Oldest, Floor0
  <2> QED BY <2>1, <2>2, <2>3 DEF Init, IInv
<1>2. IInv /\ [Next]_vars => IInv'
  <2> SUFFICES ASSUME IInv, [Next]_vars PROVE IInv'
    OBVIOUS
  <2>1. CASE Output
    BY <2>1, OutputStep
  <2>2. ASSUME NEW rows \in HostRows, SetHostSize(rows)
        PROVE  IInv'
    <3>1. /\ view' \in View /\ top' \in Nat /\ base' \in Nat
          /\ Anchored(view') /\ LastRender'
      BY <2>2, ViewStep DEF SetHostSize, IInv, TypeOK
    <3> QED BY <2>2, <3>1 DEF SetHostSize, IInv, TypeOK, cfgVars, vtVars, Managed
  <2>3. ASSUME NEW d \in Input, HandleHostInput(d)
        PROVE  IInv'
    BY <2>3, InputStep
  <2>4. CASE UNCHANGED vars
    BY <2>4 DEF vars, cfgVars, vtVars, IInv, TypeOK, Anchored, LastRender, Oldest,
               Managed
  <2> QED BY <2>1, <2>2, <2>3, <2>4 DEF Next
<1> QED BY <1>1, <1>2, PTL DEF Spec

\* The values of every variable stay in range: the history never outgrows
\* histMax, the viewport never leaves the canvas.
THEOREM HostScrollTypeOK == Spec => []TypeOK
  BY Invariance, PTL DEF IInv

\* A host view that does not follow is above the bottom of its last render.
THEOREM FrozenViewsAreAbove == Spec => []FrozenIsAbove
<1>1. IInv => FrozenIsAbove
  BY DEF IInv, Anchored, FrozenIsAbove
<1> QED BY <1>1, Invariance, PTL

\* While the user reads back, output that drops no line shown moves nothing.
THEOREM ReadingBackIsPinned == Spec => ViewPinned
<1> USE ScrollAssumption
<1> DEFINE Pinned == Output /\ ~view.follow /\ histTotal' - histLen' = base
                       => top' = top /\ ~view'.follow
<1>1. IInv /\ [Next]_vars => [Pinned]_vars
  <2> SUFFICES ASSUME IInv, Output, ~view.follow, histTotal' - histLen' = base
               PROVE  top' = top /\ ~view'.follow
    OBVIOUS
  <2>1. /\ view \in View /\ hRows \in Nat /\ ScreenRows \in Nat /\ HistMax \in Nat
        /\ histTotal \in Nat /\ histLen \in 0 .. HistMax /\ histLen <= histTotal
        /\ base \in Nat
    BY DEF IInv, TypeOK
  <2>2. /\ histTotal' \in Nat /\ histTotal' >= histTotal /\ histLen' \in Nat
        /\ hRows' = hRows
    BY <2>1 DEF Output, PumpRead, PumpErase, Capped
  <2>5. \/ UNCHANGED <<view, top, base>>
        \/ Render(view, histTotal', histLen', hRows)
    <3>1. ASSUME NEW n \in 0 .. ChunkMax, PumpRead(n)
          PROVE  \/ UNCHANGED <<view, top, base>>
                 \/ Render(view, histTotal', histLen', hRows)
      BY <3>1 DEF PumpRead, Shown
    <3>2. ASSUME PumpErase
          PROVE  \/ UNCHANGED <<view, top, base>>
                 \/ Render(view, histTotal', histLen', hRows)
      BY <3>2 DEF PumpErase, Shown, Render
    <3> QED BY <3>1, <3>2 DEF Output
  <2>3. CASE UNCHANGED <<view, top, base>>
    BY <2>3
  <2>4. CASE Render(view, histTotal', histLen', hRows)
    <3> DEFINE total == histTotal'
               len   == histLen'
               maxOy == Floor0(len + ScreenRows - hRows)
    <3>1. /\ total \in Nat /\ total >= histTotal /\ len \in Nat
          /\ total - len = base
      BY <2>2
    <3>2. Render(view, total, len, hRows)
      BY <2>4
    <3>3. base' = base /\ top' = base + view'.lastOy
      BY <2>4 DEF Render
    <3> HIDE DEF total, len
    <3>4. view' = Rendered(view, len + ScreenRows, hRows)
      BY <3>2 DEF Render
    <3>5. view.lastMaxOy <= maxOy
      <4>1. view.lastMaxOy <= Floor0(histTotal - base + ScreenRows - hRows)
        BY DEF IInv, LastRender
      <4>2. histTotal - base + ScreenRows - hRows <= len + ScreenRows - hRows
        BY <2>1, <3>1
      <4>3. view.lastMaxOy \in Nat
        BY <2>1 DEF View
      <4> QED BY <2>1, <3>1, <4>1, <4>2, <4>3 DEF Floor0
    <3>6. view.anchor < maxOy /\ view.lastOy = view.anchor
      <4>1. view.anchor < view.lastMaxOy /\ view.lastOy = view.anchor
        BY DEF IInv, Anchored
      <4>2. view.anchor \in Nat /\ view.lastMaxOy \in Nat /\ maxOy \in Int
        BY <2>1, <3>1 DEF View, Floor0
      <4> HIDE DEF maxOy
      <4> QED BY <3>5, <4>1, <4>2
    <3>7. ~view'.follow /\ view'.lastOy = view.anchor
      <4> DEFINE n == len + ScreenRows
      <4>1. n \in Nat /\ view' = Rendered(view, n, hRows) /\ view.anchor < Floor0(n - hRows)
        BY <2>1, <3>1, <3>4, <3>6
      <4> HIDE DEF n
      <4>2. Rendered(view, n, hRows) =
              [follow |-> FALSE, anchor |-> view.anchor,
               lastMaxOy |-> Floor0(n - hRows), lastOy |-> view.anchor]
        BY <2>1, <4>1, RenderedPinned
      <4> QED BY <4>1, <4>2
    <3>8. top = base + view.lastOy
      BY DEF IInv, LastRender
    <3> QED BY <3>3, <3>6, <3>7, <3>8
  <2> QED BY <2>3, <2>4, <2>5
<1> QED BY <1>1, Invariance, PTL DEF Spec, ViewPinned

\* Nav mode keeps every key from claude.
THEOREM NavModeSwallows == Spec => NavSwallows
<1>1. IInv /\ [Next]_vars => [nav /\ nav' => toClaude' = NoInput]_vars
  <2> SUFFICES ASSUME IInv, Next, nav, nav' PROVE toClaude' = NoInput
    OBVIOUS
  <2>1. CASE Output
    BY <2>1 DEF Output, PumpRead, PumpErase
  <2>2. ASSUME NEW rows \in HostRows, SetHostSize(rows)
        PROVE  toClaude' = NoInput
    BY <2>2 DEF SetHostSize
  <2>3. ASSUME NEW d \in Input, HandleHostInput(d)
        PROVE  toClaude' = NoInput
    BY <2>3 DEF HandleHostInput, PassThrough, Wheel, Page, NavOn, NavOff, NavKeys, Type,
                ToClaude, IInv
  <2> QED BY <2>1, <2>2, <2>3 DEF Next
<1> QED BY <1>1, Invariance, PTL DEF Spec, NavSwallows

\* With PAGEKEY_SCROLL nobody types into a scrolled-back view, and the
\* terminal's own reports do not disturb it.
THEOREM TypingIsLive == Spec => TypedLive
<1> USE ScrollAssumption
<1> DEFINE Typed == Managed /\ pagekeyOn /\ toClaude' # NoInput
                      => IF IsLiveResetKey(toClaude') THEN view'.follow
                         ELSE <<view, top>>' = <<view, top>>
<1>1. IInv /\ [Next]_vars => [Typed]_vars
  <2> SUFFICES ASSUME IInv, Next, Managed, pagekeyOn, toClaude' # NoInput
               PROVE  IF IsLiveResetKey(toClaude') THEN view'.follow
                      ELSE <<view, top>>' = <<view, top>>
    OBVIOUS
  <2>1. ~Output /\ \A rows \in HostRows : ~SetHostSize(rows)
    BY DEF Output, PumpRead, PumpErase, SetHostSize
  <2>2. PICK d \in Input : HandleHostInput(d)
    BY <2>1 DEF Next
  <2>3. view \in View /\ hRows \in Nat /\ histLen + ScreenRows \in Nat
    BY DEF IInv, TypeOK
  <2>4. CASE NavOff(d)
    <3>1. toClaude' = "text" /\ view' = FollowBottom(view)
      BY <2>4 DEF NavOff, ToClaude
    <3>2. IsLiveResetKey(toClaude')
      BY <3>1 DEF IsLiveResetKey, WheelKey
    <3>3. view'.follow
      BY <2>3, <3>1, FollowBottomType
    <3> QED BY <3>2, <3>3
  <2>5. CASE Type(d)
    <3>1. toClaude' = d /\ ShowLive(d) /\ ~nav
      BY <2>5 DEF Type, ToClaude
    <3>2. CASE Resets(d)
      <4>1. IsLiveResetKey(d) /\ view' = Rendered(FollowBottom(view), histLen + ScreenRows, hRows)
        BY <3>1, <3>2 DEF Resets, ShowLive, RenderHost, Render
      <4>2. view'.follow
        BY <2>3, <4>1, FollowBottomType, RenderedLive
      <4> QED BY <3>1, <4>1, <4>2
    <3>3. CASE ~Resets(d)
      <4>1. view' = view /\ top' = top
        BY <3>1, <3>3 DEF ShowLive
      <4>2. ASSUME IsLiveResetKey(d)
            PROVE  view.follow
        <5>1. ~(Scrollback(view) > 0)
          BY <3>1, <3>3, <4>2 DEF Resets
        <5>2. Scrollback(view) = 0
          BY <2>3, <5>1 DEF Scrollback, Floor0, View
        <5> QED BY <2>3, <5>2, ScrollbackTells DEF IInv
      <4> QED BY <3>1, <4>1, <4>2
    <3> QED BY <3>2, <3>3
  <2>6. ~PassThrough(d) /\ ~Wheel(d) /\ ~Page(d) /\ ~NavOn(d) /\ ~NavKeys(d)
    BY DEF PassThrough, Wheel, Page, NavOn, NavKeys, ToClaude
  <2> QED BY <2>2, <2>4, <2>5, <2>6 DEF HandleHostInput
<1> QED BY <1>1, Invariance, PTL DEF Spec, TypedLive
=============================================================================
