------------------------------ MODULE LineLog ------------------------------
(***************************************************************************)
(* What a session log promises: a file to which the lines of a terminal    *)
(* are appended in the order in which they scrolled out, each at most      *)
(* once, and that never changes again after it was closed.                 *)
(*                                                                         *)
(* A line is its number: the n-th line that scrolled out.  The lines still *)
(* on the screen when the log is closed come next.                         *)
(***************************************************************************)
EXTENDS Integers, Sequences

CONSTANT ScreenMax   \* rows of the screen

VARIABLES
  confirmed,   \* how many lines have scrolled out
  log,         \* the lines in the file
  closed

lineVars == <<confirmed, log, closed>>

Newest    == IF log = <<>> THEN 0 ELSE log[Len(log)]
Lines(a, b) == [i \in 1 .. b - a |-> a + i]      \* lines a+1 to b

Init == confirmed = 0 /\ log = <<>> /\ closed = FALSE

Confirm ==
  /\ confirmed' = confirmed + 1
  /\ UNCHANGED <<log, closed>>

\* Append some consecutive lines, all newer than the file's last one.
Record ==
  /\ ~closed
  /\ \E a, b \in Newest .. confirmed :
       a <= b /\ log' = log \o Lines(a, b)
  /\ UNCHANGED <<confirmed, closed>>

\* Append the rest, then the screen, and close.
Close ==
  /\ ~closed /\ closed' = TRUE
  /\ \E a, b \in Newest .. confirmed, c \in 0 .. ScreenMax :
       a <= b /\ log' = log \o Lines(a, b) \o Lines(confirmed, confirmed + c)
  /\ UNCHANGED confirmed

Next == Confirm \/ Record \/ Close

Spec == Init /\ [][Next]_lineVars
=============================================================================
