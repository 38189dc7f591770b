----------------------------- MODULE ProxyLife -----------------------------
(***************************************************************************)
(* What one PTY proxy promises to those that only meet its socket and its  *)
(* client counter: start, attach, restart-proxy and the idle GC (the       *)
(* phases are those of Lifecycle).  It can be reached until something has  *)
(* ended it, leaves no socket behind, takes each connection once, and      *)
(* counts exactly those it serves.                                         *)
(***************************************************************************)
EXTENDS Integers, FiniteSets

CONSTANT Clients

VARIABLES
  phase,   \* "up"; "closing": claude has ended or the PTY is closed; "gone"
  sock,    \* its socket exists and takes connections
  at,      \* clients: not yet, dialled, served, done with
  count    \* what diag/ snapshots and IdleGC reads

lifeVars == <<phase, sock, at, count>>

Served == {c \in Clients : at[c] = "in"}

Init ==
  /\ phase = "up" /\ sock = TRUE
  /\ at = [c \in Clients |-> "out"] /\ count = 0

Closes == phase = "up" /\ phase' = "closing" /\ UNCHANGED <<sock, at, count>>

Dial(c) ==
  /\ sock /\ at[c] = "out" /\ at' = [at EXCEPT ![c] = "dialled"]
  /\ UNCHANGED <<phase, sock, count>>

\* Served from now on, or lost at the first frame.
Arrive(c) ==
  /\ phase # "gone" /\ at[c] = "dialled"
  /\ \/ at' = [at EXCEPT ![c] = "in"] /\ count' = count + 1
     \/ at' = [at EXCEPT ![c] = "left"] /\ UNCHANGED count
  /\ UNCHANGED <<phase, sock>>

Leave(G) ==
  /\ phase # "gone" /\ G \subseteq Served
  /\ at' = [c \in Clients |-> IF c \in G THEN "left" ELSE at[c]]
  /\ count' = count - Cardinality(G)
  /\ UNCHANGED <<phase, sock>>

\* Those that nobody has accepted yet are refused.
Unlink ==
  /\ phase = "closing" /\ sock /\ sock' = FALSE
  /\ \E R \in SUBSET {c \in Clients : at[c] = "dialled"} :
       at' = [c \in Clients |-> IF c \in R THEN "left" ELSE at[c]]
  /\ UNCHANGED <<phase, count>>

Ends ==
  /\ phase = "closing" /\ ~sock /\ phase' = "gone"
  /\ UNCHANGED <<sock, at, count>>

Next ==
  \/ Closes \/ Unlink \/ Ends
  \/ \E c \in Clients : Dial(c) \/ Arrive(c)
  \/ \E G \in SUBSET Clients : Leave(G)

Spec == Init /\ [][Next]_lifeVars
=============================================================================
