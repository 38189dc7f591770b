----------------------------- MODULE MCTtySync ------------------------------
(***************************************************************************)
(* Streams for TLC: three sequences of any of the kinds the state machines *)
(* tell apart.  The longest outgrows maxTailHold, and two outgrow          *)
(* MaxBuffer.                                                              *)
(***************************************************************************)
EXTENDS TtySync

\* Most are over where tailTracker takes them to be.
Plainly(bs) == Token(bs, FALSE, Len(bs))

MCTokens ==
  { Plainly(<<"x">>), Plainly(<<"esc", "[", "J">>),
    Token(Marker("h"), TRUE, 4), Token(Marker("l"), TRUE, 4),
    Plainly(<<"esc", "[", "?2026", "$", "m">>), Token(<<"esc", "[", ">", "x">>, FALSE, 3),
    Token(<<"esc", "$", "x">>, FALSE, 2),
    Plainly(<<"esc", "]", "x", "bel">>), Plainly(<<"esc", "P", "esc", "\\">>),
    Plainly(<<"esc", "]", "x", "x", "x", "x", "bel">>),
    Plainly(<<"lead", "cont", "cont">>) }

MCStreams == { FlattenSeq(s) : s \in [1 .. 3 -> MCTokens] }

MCSettings == { [sync |-> TRUE, hold |-> 2, max |-> 3], [sync |-> TRUE, hold |-> 0, max |-> 0],
                [sync |-> FALSE, hold |-> 2, max |-> 3] }

MCUTF8 == [lead |-> 2]
=============================================================================
