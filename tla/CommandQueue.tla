---------------------------- MODULE CommandQueue ----------------------------
(***************************************************************************)
(* What the control line for commands promises an owner (state/commands.go,*)
(* agent/commands.go), whatever agents, streams and calls to Firestore do: *)
(* a command is claimed once, done at most once, and answered at most once;*)
(* an answer is true and final.  Some commands end the process that is to  *)
(* answer (Late): those are done after their answer, if it was not a       *)
(* refusal.                                                                *)
(***************************************************************************)
EXTENDS Integers

CONSTANTS
  Cmds,
  Kinds,     \* ValidCommands
  Late,      \* those that are answered first
  NoKind     \* of a command that has not been sent

VARIABLES
  cmd,       \* kind and status
  ran        \* how often it has been done

queueVars == <<cmd, ran>>

Init ==
  /\ cmd = [c \in Cmds |-> [kind |-> NoKind, status |-> "absent"]]
  /\ ran = [c \in Cmds |-> 0]

Send(c) ==
  /\ cmd[c].status = "absent"
  /\ \E k \in Kinds : cmd' = [cmd EXCEPT ![c] = [kind |-> k, status |-> "pending"]]
  /\ UNCHANGED ran

Claim(c) ==
  /\ cmd[c].status = "pending" /\ cmd' = [cmd EXCEPT ![c].status = "running"]
  /\ UNCHANGED ran

Do(c) ==
  /\ ran[c] = 0 /\ ran' = [ran EXCEPT ![c] = 1]
  /\ cmd[c].status = "running" \/ (cmd[c].kind \in Late /\ cmd[c].status = "done")
  /\ UNCHANGED cmd

\* Success is only reported of what has been done, or will be at once.
Answer(c) ==
  /\ cmd[c].status = "running" /\ UNCHANGED ran
  /\ \E result \in {"done", "error"} :
       /\ cmd' = [cmd EXCEPT ![c].status = result]
       /\ IF cmd[c].kind \in Late THEN ran[c] = 0 ELSE result = "done" => ran[c] = 1

Next == \E c \in Cmds : Send(c) \/ Claim(c) \/ Do(c) \/ Answer(c)

Spec == Init /\ [][Next]_queueVars
=============================================================================
