--------------------------- MODULE ScrollRenderer ---------------------------
(***************************************************************************)
(* screen.ScrollRenderer: the viewport a terminal has on the canvas of a   *)
(* VT model (its history, then its screen).  A view is a record; rows of   *)
(* the canvas are counted from its oldest line.                            *)
(***************************************************************************)
EXTENDS Integers

View == [follow : BOOLEAN, anchor : Nat, lastMaxOy : Nat, lastOy : Nat]

NewView == [follow |-> TRUE, anchor |-> 0, lastMaxOy |-> 0, lastOy |-> 0]

Floor0(n) == IF n < 0 THEN 0 ELSE n

FollowBottom(v) == [v EXCEPT !.follow = TRUE]

\* Scroll(dy): dy < 0 goes back in time.  It leaves the live view relative to
\* the last render, and returns to it when it reaches the bottom of that
\* render.
Scroll(v, dy) ==
  IF v.follow
    THEN IF dy < 0
           THEN [v EXCEPT !.follow = FALSE, !.anchor = Floor0(v.lastMaxOy + dy)]
           ELSE v
    ELSE IF v.anchor + dy >= v.lastMaxOy
           THEN [v EXCEPT !.follow = TRUE, !.anchor = @ + dy]
           ELSE [v EXCEPT !.anchor = Floor0(@ + dy)]

\* How many rows the view is above the bottom; 0 when it follows.
Scrollback(v) == IF v.follow THEN 0 ELSE Floor0(v.lastMaxOy - v.anchor)

\* Mutant of Rendered: the position is kept as a distance from the bottom.
RenderedFromBottom(v, total, vrows) ==
  LET maxOy == Floor0(total - vrows)
      oy    == IF v.follow THEN maxOy ELSE Floor0(maxOy - (v.lastMaxOy - v.anchor))
  IN  [follow    |-> v.follow \/ oy >= maxOy,
       anchor    |-> IF v.follow THEN v.anchor ELSE oy,
       lastMaxOy |-> maxOy,
       lastOy    |-> oy]

\* ViewCells: render vrows rows of a canvas of total rows.
Rendered(v, total, vrows) ==
  LET maxOy == Floor0(total - vrows)
      oy    == IF v.follow \/ v.anchor >= maxOy THEN maxOy ELSE v.anchor
  IN  [follow    |-> v.follow \/ v.anchor >= maxOy,
       anchor    |-> IF v.follow THEN v.anchor ELSE oy,
       lastMaxOy |-> maxOy,
       lastOy    |-> oy]
=============================================================================
