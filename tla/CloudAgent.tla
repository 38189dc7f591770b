----------------------------- MODULE CloudAgent ----------------------------
(***************************************************************************)
(* The two control lines of `cloud agent`, both documents in Firestore it  *)
(* listens to: commands an owner sends to this PC (state/commands.go,      *)
(* agent/commands.go) and wakes of viewers on other PCs (WatchWake,        *)
(* agent.go), for which it opens a data line from a session's socket to    *)
(* the relay (relay.go).  A command may restart the agent, which closes    *)
(* its data lines.  Viewers are the windows CloudSync makes: each runs     *)
(* `cloud attach` in a loop (remotecmd_unix.go, runCloudAttach).           *)
(*                                                                         *)
(* The relay itself is another program: it admits whom CheckRelayGrant     *)
(* admits and joins the viewer of a session with a source of it.           *)
(***************************************************************************)
EXTENDS Integers, FiniteSets

CONSTANTS
  Agents,       \* agent processes of this PC: a second one may be running
  Wakers,       \* bound: those of them whose wakes and data lines are followed
  Cmds,         \* bound: commands
  Sids,         \* sessions of this PC, each with a viewer elsewhere
  Ended,        \* sessions that have ended, whose windows still ask for them
  MaxFaults     \* bound: calls that fail, streams that end, agents killed

NoSid == "none"
NoCmd == "none"

ASSUME CloudAgentAssumption ==
  /\ Wakers \subseteq Agents /\ MaxFaults \in Nat
  /\ NoCmd \notin Cmds /\ NoSid \notin Sids \cup Ended

VARIABLES
  cmd,      \* commands/{pc}/q/{id}: what to do and its status
  ran,      \* history: how often it has been done
  lost,     \* history: a call about it failed, or its agent was killed
  ag,       \* the agents, as far as commands go
  wake,     \* wake/{pc}: the sid of the last viewer that asked
  woken,    \* agents whose listener has it still to deliver
  line,     \* data lines of an agent; those that are not "none" are in Agent.active
  viewer,   \* the loop in the window
  revoked,  \* revoked/{pc}
  faults

cmdVars  == <<cmd, ran, lost>>
lineVars == <<wake, woken, line, viewer>>
vars == <<cmdVars, ag, lineVars, revoked, faults>>

Kinds    == {"restart-agent", "self-update", "restart-proxy"}
Restarts == {"restart-agent", "self-update"}
Fresh == [pc |-> "idle", known |-> {}, batch |-> {}, id |-> NoCmd, then |-> "done"]
Down  == [Fresh EXCEPT !.pc = "down"]

Init ==
  /\ cmd = [c \in Cmds |-> [kind |-> NoCmd, status |-> "absent"]]
  /\ ran = [c \in Cmds |-> 0] /\ lost = {}
  /\ ag = [a \in Agents |-> Down]
  /\ wake = NoSid /\ woken = {}
  /\ line = [a \in Wakers |-> [s \in Sids |-> "none"]]
  /\ viewer = [s \in Sids |-> "sleep"]
  /\ revoked = FALSE /\ faults = 0

Fault == faults < MaxFaults /\ faults' = faults + 1
Fine  == UNCHANGED faults

Up(a)     == ag[a].pc # "down"
Open(s)   == {a \in Wakers : line[a][s] = "open"}
Pending   == {c \in Cmds : cmd[c].status = "pending"}
Status(c, s) == cmd' = [cmd EXCEPT ![c].status = s]

-----------------------------------------------------------------------------
(***************************************************************************)
(* Commands.                                                               *)
(***************************************************************************)
\* An owner; PushCommand refuses other kinds.
PushCommand(c) ==
  /\ cmd[c].status = "absent"
  /\ \E k \in Kinds : cmd' = [cmd EXCEPT ![c] = [kind |-> k, status |-> "pending"]]
  /\ UNCHANGED <<ran, lost, ag, lineVars, revoked, faults>>

\* A snapshot of the pending commands: those that were not in the one before.
Snapshot(a) ==
  /\ ag[a].pc = "idle" /\ ag[a].batch = {} /\ ag[a].known # Pending
  /\ ag' = [ag EXCEPT ![a].known = Pending, ![a].batch = Pending \ ag[a].known]
  /\ UNCHANGED <<cmdVars, lineVars, revoked, faults>>

\* keepSubscribed: the new stream begins with all of them.
CommandStreamEnds(a) ==
  /\ ag[a].pc = "idle" /\ ag[a].batch = {} /\ ag[a].known # {} /\ Fault
  /\ ag' = [ag EXCEPT ![a].known = {}]
  /\ UNCHANGED <<cmdVars, lineVars, revoked>>

Drop(a, c)  == ag' = [ag EXCEPT ![a].batch = @ \ {c}]
Take(a, c)  == ag' = [ag EXCEPT ![a].batch = @ \ {c}, ![a].pc = "run", ![a].id = c]

\* Mutant of claimCommand: the status is not read in the transaction.
claimBlind(a, c) ==
  /\ ag[a].pc = "idle" /\ c \in ag[a].batch /\ Fine
  /\ Status(c, "running") /\ Take(a, c)
  /\ UNCHANGED <<ran, lost, lineVars, revoked>>

\* The transaction; its error may come although it was committed.
claimCommand(a, c) ==
  /\ ag[a].pc = "idle" /\ c \in ag[a].batch
  /\ \/ c \in Pending /\ Fine /\ Status(c, "running") /\ Take(a, c) /\ UNCHANGED lost
     \/ c \notin Pending /\ Fine /\ Drop(a, c) /\ UNCHANGED <<cmd, lost>>
     \/ /\ c \in Pending /\ Fault /\ lost' = lost \cup {c} /\ Drop(a, c)
        /\ Status(c, "running") \/ UNCHANGED cmd
  /\ UNCHANGED <<ran, lineVars, revoked>>

Ran(c) == ran' = [ran EXCEPT ![c] = @ + 1]
Acks(a, res, pc) == ag' = [ag EXCEPT ![a].pc = pc, ![a].then = res]

\* Mutant of handle: restarts the agent first and acknowledges afterwards.
handleRestartFirst(a) ==
  /\ ag[a].pc = "run" /\ Fine
  /\ LET c == ag[a].id IN
     \/ cmd[c].kind \in Restarts /\ UNCHANGED ran /\ Acks(a, "done", "restart")
     \/ cmd[c].kind = "restart-proxy" /\ Ran(c) /\ Acks(a, "done", "ack")
  /\ UNCHANGED <<cmd, lost, lineVars, revoked>>

\* What a command does; the acknowledgement comes after an update or a restart
\* of the proxy, and before a restart of the agent.
handle(a) ==
  /\ ag[a].pc = "run"
  /\ LET c == ag[a].id
         k == cmd[c].kind IN
     \/ revoked /\ Fine /\ Acks(a, "error", "ack") /\ UNCHANGED ran
     \/ /\ (~revoked /\ Fine) \/ (revoked /\ Fault)
        /\ \/ k = "restart-agent" /\ Acks(a, "done", "ack+restart") /\ UNCHANGED ran
           \/ k = "self-update" /\ Ran(c) /\ Acks(a, "done", "ack+restart")
           \/ k # "restart-agent" /\ Ran(c) /\ Acks(a, "error", "ack")
           \/ k # "restart-agent" /\ Ran(c) /\ Acks(a, "done", "ack")
  /\ UNCHANGED <<cmd, lost, lineVars, revoked>>

\* AckCommand; its error is ignored.
AckCommand(a) ==
  /\ ag[a].pc \in {"ack", "ack+restart"}
  /\ LET c == ag[a].id IN
     \/ Fine /\ Status(c, ag[a].then) /\ UNCHANGED lost
     \/ Fault /\ lost' = lost \cup {c} /\ UNCHANGED cmd
  /\ ag' = [ag EXCEPT ![a].pc = IF @ = "ack" THEN "idle" ELSE "restart",
                      ![a].id = IF ag[a].pc = "ack" THEN NoCmd ELSE @]
  /\ UNCHANGED <<ran, lineVars, revoked>>

\* Mutant of Dies: its data lines outlive the process.
DiesWithoutLines(a) ==
  /\ ag' = [ag EXCEPT ![a] = Down]
  /\ woken' = woken \ {a} /\ UNCHANGED <<line, viewer>>

\* The process is gone, with its data lines; the relay closes their viewers.
Dies(a) ==
  /\ ag' = [ag EXCEPT ![a] = Down]
  /\ woken' = woken \ {a}
  /\ line' = [b \in Wakers |-> IF b = a THEN [s \in Sids |-> "none"] ELSE line[b]]
  /\ viewer' = [s \in Sids |-> IF viewer[s] = "in" /\ Open(s) = {a} THEN "sleep" ELSE viewer[s]]

\* restartDaemons, when it works, does not return (the agent launchd runs is
\* taken to be this one).
DoRestart(a) ==
  /\ ag[a].pc = "restart"
  /\ IF cmd[ag[a].id].kind = "restart-agent" THEN Ran(ag[a].id) ELSE UNCHANGED ran
  /\ \/ Fine /\ Dies(a)
     \/ /\ Fault /\ ag' = [ag EXCEPT ![a].pc = "idle", ![a].id = NoCmd]
        /\ UNCHANGED <<woken, line, viewer>>
  /\ UNCHANGED <<cmd, lost, wake, revoked>>

\* Killed by anything else.
Killed(a) ==
  /\ Up(a) /\ Fault /\ Dies(a)
  /\ lost' = IF ag[a].id = NoCmd THEN lost ELSE lost \cup {ag[a].id}
  /\ UNCHANGED <<cmd, ran, wake, revoked>>

\* runOneCloud: both listeners begin with what is there, an old wake too.
Starts(a) ==
  /\ ~Up(a) /\ ag' = [ag EXCEPT ![a] = Fresh]
  /\ woken' = IF wake = NoSid THEN woken ELSE woken \cup ({a} \cap Wakers)
  /\ UNCHANGED <<cmdVars, wake, line, viewer, revoked, faults>>

-----------------------------------------------------------------------------
(***************************************************************************)
(* Wakes and data lines.                                                   *)
(***************************************************************************)
WakeFrame == UNCHANGED <<cmdVars, ag, revoked>>

\* runCloudAttach: the wake; what an earlier viewer wrote is overwritten.
Wake(s) ==
  /\ viewer[s] = "sleep" /\ Fine
  /\ wake' = s /\ woken' = {a \in Wakers : Up(a)}
  /\ viewer' = [viewer EXCEPT ![s] = "dial"]
  /\ UNCHANGED line /\ WakeFrame

\* The same for a session that is not there any more.
WakeEnded ==
  /\ Fine /\ wake' \in Ended /\ woken' = {a \in Wakers : Up(a)}
  /\ UNCHANGED <<line, viewer>> /\ WakeFrame

\* Its grant and its connection, to be tried again in 30 s when it fails.
ViewerDial(s) ==
  /\ viewer[s] = "dial"
  /\ \/ Fine /\ viewer' = [viewer EXCEPT ![s] = "in"]
     \/ Fault /\ viewer' = [viewer EXCEPT ![s] = "sleep"]
  /\ UNCHANGED <<wake, woken, line>> /\ WakeFrame

\* The stream ends; the next one begins with the last wake.
WakeStreamEnds(a) ==
  /\ Up(a) /\ wake # NoSid /\ a \notin woken /\ Fault /\ woken' = woken \cup {a}
  /\ UNCHANGED <<wake, line, viewer>> /\ WakeFrame

\* Mutant of handleWake: active is set before the session is resolved, and
\* cleared only by a data line that was opened.
handleWakeLeaks(a) ==
  /\ a \in woken /\ woken' = woken \ {a}
  /\ \/ /\ wake \in Sids /\ ~revoked /\ Fine /\ line[a][wake] = "none"
        /\ line' = [line EXCEPT ![a][wake] = "dial"]
     \/ wake \in Sids /\ (revoked \/ line[a][wake] # "none") /\ Fine /\ UNCHANGED line
     \/ wake \in Ended /\ Fine /\ UNCHANGED line
     \/ wake \in Sids /\ Fault /\ line' = [line EXCEPT ![a][wake] = "stuck"]
  /\ UNCHANGED <<wake, viewer>> /\ WakeFrame

\* Ignored while a data line of the session is there, being opened or not yet
\* closed by this side, when this PC is revoked, and when STATUS does not name the session.
handleWake(a) ==
  /\ a \in woken /\ woken' = woken \ {a}
  /\ \/ /\ wake \in Sids /\ line[a][wake] = "none"
        /\ (~revoked /\ Fine) \/ (revoked /\ Fault)
        /\ line' = [line EXCEPT ![a][wake] = "dial"]
     \/ wake \in Sids /\ (revoked \/ line[a][wake] # "none") /\ Fine /\ UNCHANGED line
     \/ wake \in Ended /\ Fine /\ UNCHANGED line
     \/ wake \in Sids /\ Fault /\ UNCHANGED line
  /\ UNCHANGED <<wake, viewer>> /\ WakeFrame

\* PutRelayGrant and BridgeSourceIdle.  The relay refuses a revoked PC even if
\* it was not when the agent looked (CheckRelayGrant).
BridgeSource(a, s) ==
  /\ line[a][s] = "dial"
  /\ \/ ~revoked /\ Fine /\ line' = [line EXCEPT ![a][s] = "open"]
     \/ revoked /\ Fine /\ line' = [line EXCEPT ![a][s] = "none"]
     \/ Fault /\ \E l \in {"none", "open"} : line' = [line EXCEPT ![a][s] = l]
  /\ UNCHANGED <<wake, woken, viewer>> /\ WakeFrame

Closes(a, s) ==
  /\ line' = [line EXCEPT ![a][s] = "closing"]
  /\ viewer' = [viewer EXCEPT ![s] = IF @ = "in" /\ Open(s) = {a} THEN "sleep" ELSE @]

\* idlePump: 30 s without a byte, the session ends, or the relay closes it.  That
\* this happens while a viewer is connecting, which takes less time, is a fault.
LineCloses(a, s) ==
  /\ line[a][s] = "open" /\ Closes(a, s)
  /\ (viewer[s] # "dial" /\ Fine) \/ (viewer[s] = "dial" /\ Fault)
  /\ UNCHANGED <<wake, woken>> /\ WakeFrame

\* handleWake has returned from BridgeSourceIdle: the session leaves Agent.active.
Deactivates(a, s) ==
  /\ line[a][s] = "closing" /\ Fine /\ line' = [line EXCEPT ![a][s] = "none"]
  /\ UNCHANGED <<wake, woken, viewer>> /\ WakeFrame

\* External: the relay does not keep a viewer for ever that has no source, but
\* for longer than its wake and the data line take.
RelayDrops(s) ==
  /\ viewer[s] = "in" /\ Open(s) = {}
  /\ \A a \in Wakers : line[a][s] # "dial" /\ (a \in woken => wake # s)
  /\ viewer' = [viewer EXCEPT ![s] = "sleep"]
  /\ UNCHANGED <<wake, woken, line, faults>> /\ WakeFrame

SetRevoked ==
  /\ ~revoked /\ revoked' = TRUE
  /\ UNCHANGED <<cmdVars, ag, lineVars, faults>>

-----------------------------------------------------------------------------
Agent(a) == \/ Starts(a) \/ Snapshot(a) \/ handle(a) \/ AckCommand(a) \/ DoRestart(a)
            \/ \E c \in Cmds : claimCommand(a, c)

Viewer(s) == Wake(s) \/ ViewerDial(s) \/ RelayDrops(s)

Next ==
  \/ \E c \in Cmds : PushCommand(c)
  \/ \E a \in Agents : Agent(a) \/ CommandStreamEnds(a) \/ Killed(a)
  \/ \E a \in Wakers : WakeStreamEnds(a) \/ handleWake(a)
  \/ \E a \in Wakers, s \in Sids :
       BridgeSource(a, s) \/ LineCloses(a, s) \/ Deactivates(a, s)
  \/ \E s \in Sids : Viewer(s)
  \/ WakeEnded \/ SetRevoked

Spec == Init /\ [][Next]_vars

\* Agents are kept running and their calls return; a window's loop goes on, and
\* though viewers overwrite each other's wakes, that of each is heard some day.
Fairness ==
  /\ \A a \in Agents : WF_vars(Agent(a))
  /\ \A a \in Wakers, s \in Sids :
       /\ WF_vars(BridgeSource(a, s)) /\ WF_vars(Deactivates(a, s))
       /\ SF_vars(wake = s /\ handleWake(a))
  /\ \A s \in Sids : WF_vars(Viewer(s))

FairSpec == Spec /\ Fairness

-----------------------------------------------------------------------------
\* Types; an agent has a command exactly while it works on it, Agent.active has
\* no session without a data line that is there, being opened or being closed, and
\* a process that is gone has no data line.
TypeOK ==
  /\ cmd \in [Cmds -> [kind : Kinds \cup {NoCmd},
                       status : {"absent", "pending", "running", "done", "error"}]]
  /\ ran \in [Cmds -> Nat] /\ lost \subseteq Cmds
  /\ ag \in [Agents -> [pc : {"down", "idle", "run", "ack", "ack+restart", "restart"},
                        known : SUBSET Cmds, batch : SUBSET Cmds,
                        id : Cmds \cup {NoCmd}, then : {"done", "error"}]]
  /\ \A a \in Agents : ag[a].pc \in {"down", "idle"} <=> ag[a].id = NoCmd
  /\ wake \in Sids \cup Ended \cup {NoSid} /\ woken \subseteq {a \in Wakers : Up(a)}
  /\ line \in [Wakers -> [Sids -> {"none", "dial", "open", "closing"}]]
  /\ \A a \in Wakers : ~Up(a) => line[a] = [s \in Sids |-> "none"]
  /\ viewer \in [Sids -> {"sleep", "dial", "in"}]
  /\ revoked \in BOOLEAN /\ faults \in 0 .. MaxFaults

\* No command is claimed, done or answered twice, though two agents get it and
\* streams repeat it; what is reported done has been done, except a restart of
\* the agent, which follows its answer; a refused command is not done afterwards.
CQ == INSTANCE CommandQueue WITH Late <- {"restart-agent"}, NoKind <- NoCmd
ImplementsQueue == CQ!Spec

\* Every command an owner sends is answered, also one that restarts the agent
\* that is to answer it, unless a call about it failed or its agent was killed
\* meanwhile: then it may stay pending, or running, for ever.
Answered ==
  \A c \in Cmds : cmd[c].status = "pending"
                    ~> c \in lost \/ cmd[c].status \in {"done", "error"}

\* A viewer gets to see its session in the end, however wakes are overwritten
\* or ignored and agents restarted, unless the PC is revoked.
Watched ==
  \A s \in Sids : viewer[s] = "dial" ~> revoked \/ (viewer[s] = "in" /\ Open(s) # {})
=============================================================================
