--------------------------- MODULE MCSocketClient ---------------------------
(***************************************************************************)
(* Keys for TLC: the classes of keys alone, and the pairs that the client  *)
(* treats differently from their parts.  (Without page keys pgUp stands for*)
(* text as well: out of nav mode it is typed, in it it scrolls.)  Steps of *)
(* 1 and 3 lines make scroll frames whose arguments are the bytes of a     *)
(* magic (-1 is ff ff, -3 is ff fd), and so do the browser's pictures.     *)
(***************************************************************************)
EXTENDS SocketClient

MCReads ==
  { <<"pgUp">>, <<"wheelUp">>, <<"nav">>, <<"nav", "text">>,
    <<"img", "text">>, <<"mouse", "text">>, <<"focus">> }

Switches(p, w, i) == [pagekey |-> p, wheel |-> w, img |-> i, web |-> FALSE]

MCSettings ==
  { Switches(TRUE, FALSE, TRUE), Switches(FALSE, TRUE, FALSE),
    [Switches(FALSE, FALSE, FALSE) EXCEPT !.web = TRUE] }

MCImages == { <<255>> }

\* Lengths that are zero, true, too large and untrue, with payloads that are
\* swallowed, typed, or can be taken for frames.
Frame(n, d) == [kind |-> "image", len |-> n, data |-> d]
MCWebItems ==
  { Frame(0, <<97>>), Frame(65536, <<>>), Frame(1, <<255>>), Frame(1, <<>>),
    Frame(65536, <<255>>) }
=============================================================================
