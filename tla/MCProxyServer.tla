--------------------------- MODULE MCProxyServer ---------------------------
(***************************************************************************)
(* Model values for TLC: the sockets of a proxy are interchangeable.       *)
(***************************************************************************)
EXTENDS ProxyServer, TLC

Symmetry == Permutations(Clients)
=============================================================================
