---------------------------- MODULE MCLifecycle ----------------------------
(* Directories "root" and "sub", which is inside it.                         *)
EXTENDS Lifecycle

MCBelow == {<<"root", "sub">>}
=============================================================================
