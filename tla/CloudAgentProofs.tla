-------------------------- MODULE CloudAgentProofs --------------------------
(***************************************************************************)
(* Proofs about CloudAgent, for any number of agents, commands, sessions   *)
(* and faults.                                                             *)
(*                                                                         *)
(* The argument: an agent gets a command only by turning it from pending   *)
(* to running, which happens once; so at most one agent ever has it, and   *)
(* until that agent has gone through the step that does it, it is undone.  *)
(***************************************************************************)
EXTENDS CloudAgent, TLAPS

\* At most one agent has a command.
OneClaimer == \A a, b \in Agents : ag[a].id = ag[b].id /\ ag[a].id # NoCmd => a = b

\* What an agent has was claimed, and is unanswered until the acknowledgement.
Claimed ==
  \A a \in Agents : ag[a].id # NoCmd =>
    /\ cmd[ag[a].id].status \notin {"absent", "pending"}
    /\ ag[a].pc # "restart" => cmd[ag[a].id].status = "running"

\* Neither before a command is claimed nor before its agent does it, which for
\* restart-agent is the last step of all.
Undone(a) == \/ ag[a].pc = "run"
             \/ ag[a].pc \in {"ack+restart", "restart"} /\ cmd[ag[a].id].kind = "restart-agent"

NotYet ==
  /\ \A c \in Cmds : cmd[c].status \in {"absent", "pending"} => ran[c] = 0
  /\ \A a \in Agents : Undone(a) => ran[ag[a].id] = 0

\* Nothing is done twice.
DoneOnce == \A c \in Cmds : ran[c] <= 1

\* The part of the invariant that is about commands.
Once == OneClaimer /\ Claimed /\ NotYet /\ DoneOnce

-----------------------------------------------------------------------------
(* The steps of the two control lines. *)

CommandStep ==
  \/ \E c \in Cmds : PushCommand(c)
  \/ \E a \in Agents : \/ Snapshot(a) \/ CommandStreamEnds(a) \/ handle(a) \/ AckCommand(a)
                        \/ \E c \in Cmds : claimCommand(a, c)

ProcessStep == \E a \in Agents : Starts(a) \/ DoRestart(a) \/ Killed(a)

LineStep ==
  \/ \E a \in Wakers : WakeStreamEnds(a) \/ handleWake(a)
  \/ \E a \in Wakers, s \in Sids : BridgeSource(a, s) \/ LineCloses(a, s) \/ Deactivates(a, s)
  \/ \E s \in Sids : Wake(s) \/ ViewerDial(s) \/ RelayDrops(s)
  \/ WakeEnded

LEMMA StepCases ==
  ASSUME [Next]_vars
  PROVE  CommandStep \/ ProcessStep \/ LineStep \/ SetRevoked \/ UNCHANGED vars
  BY DEF Next, Agent, Viewer, CommandStep, ProcessStep, LineStep

\* TypeOK, by the two control lines.
Records == [pc : {"down", "idle", "run", "ack", "ack+restart", "restart"},
            known : SUBSET Cmds, batch : SUBSET Cmds,
            id : Cmds \cup {NoCmd}, then : {"done", "error"}]

Docs == [kind : Kinds \cup {NoCmd},
         status : {"absent", "pending", "running", "done", "error"}]

\* A record says idle or down exactly if it has no command.
Fits(r) == r \in Records /\ (r.pc \in {"down", "idle"} <=> r.id = NoCmd)

CmdTypes == cmd \in [Cmds -> Docs] /\ ran \in [Cmds -> Nat] /\ lost \subseteq Cmds

AgentTypes == ag \in [Agents -> Records] /\ \A a \in Agents : Fits(ag[a])

LineTypes ==
  /\ wake \in Sids \cup Ended \cup {NoSid}
  /\ line \in [Wakers -> [Sids -> {"none", "dial", "open", "closing"}]]
  /\ viewer \in [Sids -> {"sleep", "dial", "in"}]
  /\ woken \subseteq {a \in Wakers : Up(a)}
  /\ \A a \in Wakers : ~Up(a) => line[a] = [s \in Sids |-> "none"]

OtherTypes == revoked \in BOOLEAN /\ faults \in 0 .. MaxFaults

Types == CmdTypes /\ AgentTypes /\ LineTypes /\ OtherTypes

LEMMA TypesAre == Types <=> TypeOK
  BY DEF Types, TypeOK, CmdTypes, AgentTypes, LineTypes, OtherTypes, Records, Docs, Fits

\* Faults are bounded.
LEMMA FaultsKept ==
  ASSUME OtherTypes, Fine \/ Fault, UNCHANGED revoked
  PROVE  OtherTypes'
  BY CloudAgentAssumption DEF OtherTypes, Fine, Fault

\* An agent takes another record.
LEMMA RecordSet ==
  ASSUME AgentTypes, NEW a \in Agents, NEW r, Fits(r), ag' = [ag EXCEPT ![a] = r]
  PROVE  AgentTypes' /\ ag'[a] = r /\ \A b \in Agents \ {a} : ag'[b] = ag[b]
  BY DEF AgentTypes, Fits

\* A step of the first control line, by one agent a that goes on running.
LEMMA CommandTypesKept ==
  ASSUME Types, NEW a \in Agents, NEW r, Fits(r), ag' = [ag EXCEPT ![a] = r],
         r.pc = "down" <=> ag[a].pc = "down",
         CmdTypes', UNCHANGED <<lineVars, revoked>>, Fine \/ Fault
  PROVE  Types'
<1>1. AgentTypes' /\ \A b \in Agents : Up(b)' <=> Up(b)
  BY RecordSet DEF Types, Up
<1>2. LineTypes'
  BY <1>1, CloudAgentAssumption DEF Types, LineTypes, lineVars
<1> QED BY <1>1, <1>2, FaultsKept DEF Types

LEMMA CommandStepTypes ==
  ASSUME Types, CommandStep
  PROVE  Types'
<1>1. ASSUME NEW c \in Cmds, PushCommand(c) PROVE Types'
  <2>1. CmdTypes'
    BY <1>1 DEF PushCommand, Types, CmdTypes, Docs
  <2>2. AgentTypes' /\ LineTypes' /\ OtherTypes'
    BY <1>1 DEF PushCommand, Types, AgentTypes, LineTypes, OtherTypes, lineVars, Up
  <2> QED BY <2>1, <2>2 DEF Types
<1>2. ASSUME NEW a \in Agents, Snapshot(a) PROVE Types'
  <2> DEFINE r == [ag[a] EXCEPT !.known = Pending, !.batch = Pending \ ag[a].known]
  <2>1. Fits(r) /\ r.pc = ag[a].pc
    BY DEF Types, AgentTypes, Fits, Records, Pending
  <2>2. ag' = [ag EXCEPT ![a] = r] /\ CmdTypes'
    BY <1>2 DEF Snapshot, Types, AgentTypes, Records, CmdTypes, cmdVars
  <2> HIDE DEF r
  <2> QED BY <1>2, <2>1, <2>2, CommandTypesKept DEF Snapshot, Fine
<1>3. ASSUME NEW a \in Agents, CommandStreamEnds(a) PROVE Types'
  <2> DEFINE r == [ag[a] EXCEPT !.known = {}]
  <2>1. Fits(r) /\ r.pc = ag[a].pc
    BY DEF Types, AgentTypes, Fits, Records
  <2>2. ag' = [ag EXCEPT ![a] = r] /\ CmdTypes'
    BY <1>3 DEF CommandStreamEnds, Types, AgentTypes, Records, CmdTypes, cmdVars
  <2> HIDE DEF r
  <2> QED BY <1>3, <2>1, <2>2, CommandTypesKept DEF CommandStreamEnds
<1>4. ASSUME NEW a \in Agents, NEW c \in Cmds, claimCommand(a, c) PROVE Types'
  <2>1. CmdTypes'
    BY <1>4 DEF claimCommand, Status, Types, CmdTypes, Docs
  <2> DEFINE drop == [ag[a] EXCEPT !.batch = @ \ {c}]
             take == [ag[a] EXCEPT !.batch = @ \ {c}, !.pc = "run", !.id = c]
  <2>2. ag' = [ag EXCEPT ![a] = drop] \/ ag' = [ag EXCEPT ![a] = take]
    BY <1>4 DEF claimCommand, Take, Drop, Types, AgentTypes, Records
  <2>3. ag[a].pc = "idle" /\ ag[a] \in Records /\ Fits(ag[a])
    BY <1>4 DEF claimCommand, Types, AgentTypes
  <2>4. Fits(drop) /\ drop.pc # "down"
    <3>1. drop \in Records /\ drop.pc = ag[a].pc /\ drop.id = ag[a].id
      BY <2>3 DEF Records
    <3> HIDE DEF drop
    <3> QED BY <2>3, <3>1 DEF Fits
  <2>5. Fits(take) /\ take.pc # "down"
    <3>1. take \in Records /\ take.pc = "run" /\ take.id = c
      BY <2>3 DEF Records
    <3> HIDE DEF take
    <3> QED BY <3>1, CloudAgentAssumption DEF Fits, CloudAgentAssumption
  <2> HIDE DEF drop, take
  <2>6. UNCHANGED <<lineVars, revoked>> /\ (Fine \/ Fault)
    BY <1>4 DEF claimCommand
  <2> QED BY <2>1, <2>2, <2>3, <2>4, <2>5, <2>6, CommandTypesKept
<1>5. ASSUME NEW a \in Agents, handle(a) PROVE Types'
  <2>1. ag[a].pc = "run" /\ ag[a] \in Records /\ Fits(ag[a])
    BY <1>5 DEF handle, Types, AgentTypes
  <2>2. ag[a].id \in Cmds
    BY <2>1 DEF Fits, Records
  <2>3. CmdTypes'
    BY <1>5, <2>2 DEF handle, Ran, Types, CmdTypes
  <2>4. PICK res \in {"done", "error"}, p \in {"ack", "ack+restart"} : Acks(a, res, p)
    BY <1>5 DEF handle
  <2> DEFINE r == [ag[a] EXCEPT !.pc = p, !.then = res]
  <2>5. ag' = [ag EXCEPT ![a] = r] /\ Fits(r) /\ r.pc # "down"
    BY <2>1, <2>4 DEF Acks, Types, AgentTypes, Fits, Records
  <2>6. UNCHANGED <<lineVars, revoked>> /\ (Fine \/ Fault)
    BY <1>5 DEF handle
  <2> HIDE DEF r
  <2> QED BY <2>1, <2>3, <2>5, <2>6, CommandTypesKept
<1>6. ASSUME NEW a \in Agents, AckCommand(a) PROVE Types'
  <2>1. ag[a].pc \in {"ack", "ack+restart"} /\ ag[a] \in Records /\ Fits(ag[a])
    BY <1>6 DEF AckCommand, Types, AgentTypes
  <2>2. ag[a].id \in Cmds /\ ag[a].then \in {"done", "error"}
    BY <2>1 DEF Fits, Records
  <2>3. CmdTypes'
    BY <1>6, <2>2 DEF AckCommand, Status, Types, CmdTypes, Docs
  <2> DEFINE r == [ag[a] EXCEPT !.pc = IF @ = "ack" THEN "idle" ELSE "restart",
                                !.id = IF ag[a].pc = "ack" THEN NoCmd ELSE @]
  <2>4. ag' = [ag EXCEPT ![a] = r]
    BY <1>6 DEF AckCommand, Types, AgentTypes, Records
  <2>5. Fits(r) /\ r.pc # "down"
    BY <2>1, <2>2, CloudAgentAssumption DEF Fits, Records
  <2>6. UNCHANGED <<lineVars, revoked>> /\ (Fine \/ Fault)
    BY <1>6 DEF AckCommand
  <2> HIDE DEF r
  <2> QED BY <2>1, <2>3, <2>4, <2>5, <2>6, CommandTypesKept
<1> QED BY <1>1, <1>2, <1>3, <1>4, <1>5, <1>6 DEF CommandStep

LEMMA FreshFits == Fits(Fresh) /\ Fits(Down) /\ Fresh.id = NoCmd /\ Down.id = NoCmd
                   /\ Fresh.pc = "idle" /\ Down.pc = "down"
  BY DEF Fits, Records, Fresh, Down

\* The end of a process takes its data lines and wakes with it.
LEMMA DiesTypes ==
  ASSUME Types, NEW a \in Agents, Dies(a), UNCHANGED wake
  PROVE  AgentTypes' /\ LineTypes'
<1>1. AgentTypes' /\ ag'[a] = Down /\ \A b \in Agents \ {a} : ag'[b] = ag[b]
  BY FreshFits, RecordSet DEF Types, Dies
<1>2. ~Up(a)' /\ \A b \in Agents \ {a} : Up(b)' <=> Up(b)
  BY <1>1, FreshFits DEF Up
<1>3. line' \in [Wakers -> [Sids -> {"none", "dial", "open", "closing"}]]
      /\ \A b \in Wakers : line'[b] = IF b = a THEN [s \in Sids |-> "none"] ELSE line[b]
  BY DEF Types, LineTypes, Dies
<1>4. viewer' \in [Sids -> {"sleep", "dial", "in"}]
  BY DEF Types, LineTypes, Dies
<1>5. woken' \subseteq {b \in Wakers : Up(b)'}
  BY <1>2, CloudAgentAssumption DEF Types, LineTypes, Dies
<1>6. \A b \in Wakers : ~Up(b)' => line'[b] = [s \in Sids |-> "none"]
  BY <1>2, <1>3, CloudAgentAssumption DEF Types, LineTypes
<1> QED BY <1>1, <1>3, <1>4, <1>5, <1>6 DEF Types, LineTypes

LEMMA ProcessStepTypes ==
  ASSUME Types, ProcessStep
  PROVE  Types'
<1>1. ASSUME NEW a \in Agents, Starts(a) PROVE Types'
  <2>1. AgentTypes' /\ ag'[a] = Fresh /\ \A b \in Agents \ {a} : ag'[b] = ag[b]
    BY <1>1, FreshFits, RecordSet DEF Types, Starts
  <2>2. Up(a)' /\ ~Up(a) /\ \A b \in Agents \ {a} : Up(b)' <=> Up(b)
    BY <1>1, <2>1, FreshFits DEF Up, Starts
  <2>3. LineTypes'
    BY <1>1, <2>2, CloudAgentAssumption DEF Starts, Types, LineTypes
  <2> QED BY <1>1, <2>1, <2>3 DEF Starts, cmdVars, Types, CmdTypes, OtherTypes
<1>2. ASSUME NEW a \in Agents, DoRestart(a) PROVE Types'
  <2>1. ag[a].pc = "restart" /\ ag[a] \in Records /\ Fits(ag[a])
    BY <1>2 DEF DoRestart, Types, AgentTypes
  <2>2. ag[a].id \in Cmds
    BY <2>1 DEF Fits, Records
  <2>3. CmdTypes'
    BY <1>2, <2>2 DEF DoRestart, Ran, Types, CmdTypes
  <2>4. CASE Dies(a) /\ Fine
    <3>1. AgentTypes' /\ LineTypes'
      BY <1>2, <2>4, DiesTypes DEF DoRestart
    <3>2. OtherTypes'
      BY <1>2, <2>4, FaultsKept DEF DoRestart, Types
    <3> QED BY <2>3, <3>1, <3>2 DEF Types
  <2>5. CASE /\ Fault /\ ag' = [ag EXCEPT ![a].pc = "idle", ![a].id = NoCmd]
             /\ UNCHANGED <<woken, line, viewer>>
    <3> DEFINE r == [ag[a] EXCEPT !.pc = "idle", !.id = NoCmd]
    <3>1. ag' = [ag EXCEPT ![a] = r] /\ Fits(r) /\ r.pc # "down"
      BY <2>1, <2>5 DEF Types, AgentTypes, Fits, Records
    <3>2. UNCHANGED <<lineVars, revoked>>
      BY <1>2, <2>5 DEF DoRestart, lineVars
    <3> HIDE DEF r
    <3> QED BY <2>1, <2>3, <2>5, <3>1, <3>2, CommandTypesKept
  <2> QED BY <1>2, <2>4, <2>5 DEF DoRestart
<1>3. ASSUME NEW a \in Agents, Killed(a) PROVE Types'
  <2>1. AgentTypes' /\ LineTypes'
    BY <1>3, DiesTypes DEF Killed
  <2>2. CmdTypes' /\ OtherTypes'
    <3>1. ag[a].id \in Cmds \cup {NoCmd}
      BY DEF Types, AgentTypes, Records
    <3> QED BY <1>3, <3>1, FaultsKept DEF Killed, Types, CmdTypes
  <2> QED BY <2>1, <2>2 DEF Types
<1> QED BY <1>1, <1>2, <1>3 DEF ProcessStep

LEMMA LineStepTypes ==
  ASSUME Types, LineStep
  PROVE  Types'
<1>1. CmdTypes' /\ AgentTypes' /\ OtherTypes' /\ \A a \in Agents : Up(a)' <=> Up(a)
  <2>1. UNCHANGED <<cmdVars, ag, revoked>> /\ (Fine \/ Fault)
    BY DEF LineStep, WakeFrame, WakeStreamEnds, handleWake, BridgeSource, LineCloses,
           Deactivates, Wake, ViewerDial, RelayDrops, WakeEnded, Fine
  <2> QED BY <2>1, FaultsKept DEF Types, CmdTypes, AgentTypes, cmdVars, Up
<1>2. LineTypes'
  <2> USE CloudAgentAssumption, <1>1 DEF Types, LineTypes
  <2>1. ASSUME NEW a \in Wakers, WakeStreamEnds(a) \/ handleWake(a) PROVE LineTypes'
    <3>1. CASE WakeStreamEnds(a)
      BY <3>1 DEF WakeStreamEnds
    <3>2. CASE handleWake(a)
      <4>1. Up(a)
        BY <3>2 DEF handleWake
      <4>2. UNCHANGED line \/ (wake \in Sids /\ line' = [line EXCEPT ![a][wake] = "dial"])
        BY <3>2 DEF handleWake
      <4>3. /\ line' \in [Wakers -> [Sids -> {"none", "dial", "open", "closing"}]]
            /\ \A b \in Wakers : ~Up(b) => line'[b] = line[b]
        BY <4>1, <4>2
      <4> QED BY <3>2, <4>3 DEF handleWake
    <3> QED BY <2>1, <3>1, <3>2
  <2>2. ASSUME NEW a \in Wakers, NEW s \in Sids, BridgeSource(a, s) PROVE LineTypes'
    <3>1. \E l \in {"none", "open"} : line' = [line EXCEPT ![a][s] = l]
      BY <2>2 DEF BridgeSource
    <3>2. Up(a)
      BY <2>2 DEF BridgeSource
    <3>3. /\ line' \in [Wakers -> [Sids -> {"none", "dial", "open", "closing"}]]
          /\ \A b \in Wakers : ~Up(b) => line'[b] = line[b]
      BY <3>1, <3>2
    <3> QED BY <2>2, <3>3 DEF BridgeSource
  <2>3. ASSUME NEW a \in Wakers, NEW s \in Sids, LineCloses(a, s) PROVE LineTypes'
    <3>1. Up(a)
      BY <2>3 DEF LineCloses
    <3>2. /\ line' \in [Wakers -> [Sids -> {"none", "dial", "open", "closing"}]]
          /\ \A b \in Wakers : ~Up(b) => line'[b] = line[b]
      BY <2>3, <3>1 DEF LineCloses, Closes
    <3>3. viewer' \in [Sids -> {"sleep", "dial", "in"}]
      BY <2>3 DEF LineCloses, Closes
    <3> QED BY <2>3, <3>2, <3>3 DEF LineCloses
  <2>6. ASSUME NEW a \in Wakers, NEW s \in Sids, Deactivates(a, s) PROVE LineTypes'
    <3>1. Up(a)
      BY <2>6 DEF Deactivates
    <3>2. /\ line' \in [Wakers -> [Sids -> {"none", "dial", "open", "closing"}]]
          /\ \A b \in Wakers : ~Up(b) => line'[b] = line[b]
      BY <2>6, <3>1 DEF Deactivates
    <3> QED BY <2>6, <3>2 DEF Deactivates
  <2>4. ASSUME NEW s \in Sids, Wake(s) \/ ViewerDial(s) \/ RelayDrops(s) PROVE LineTypes'
    BY <2>4 DEF Wake, ViewerDial, RelayDrops
  <2>5. CASE WakeEnded
    BY <2>5 DEF WakeEnded
  <2> QED BY <2>1, <2>2, <2>3, <2>4, <2>5, <2>6 DEF LineStep
<1> QED BY <1>1, <1>2 DEF Types

LEMMA TypesKept == Types /\ [Next]_vars => Types'
<1> SUFFICES ASSUME Types, [Next]_vars PROVE Types'
  OBVIOUS
<1>1. CASE SetRevoked
  BY <1>1 DEF SetRevoked, Types, CmdTypes, AgentTypes, LineTypes, OtherTypes, cmdVars,
              lineVars, Up
<1>2. CASE UNCHANGED vars
  BY <1>2 DEF vars, Types, CmdTypes, AgentTypes, LineTypes, OtherTypes, cmdVars, lineVars, Up
<1> QED BY <1>1, <1>2, CommandStepTypes, ProcessStepTypes, LineStepTypes, StepCases

-----------------------------------------------------------------------------
(* Who has a command, and whether it has been done. *)

\* An agent lets go of what it has, or goes on with it, and does nothing.
LEMMA OnceKept ==
  ASSUME Types, Once, UNCHANGED <<cmd, ran>>, Types',
         \A a \in Agents : \/ ag'[a].id = NoCmd
                           \/ ag'[a].id = ag[a].id /\ ag'[a].pc = ag[a].pc
  PROVE  Once'
<1>1. OneClaimer'
  BY DEF Once, OneClaimer
<1>2. Claimed'
  BY DEF Once, Claimed
<1>3. \A a \in Agents : Undone(a)' => Undone(a) /\ ag'[a].id = ag[a].id
  BY DEF Undone, Types, AgentTypes, Fits
<1>4. NotYet' /\ DoneOnce'
  BY <1>3 DEF Once, NotYet, DoneOnce
<1> QED BY <1>1, <1>2, <1>4 DEF Once

\* What the types say of the agent that takes a step, and of the others.
LEMMA Holder ==
  ASSUME Types, Once, NEW a \in Agents, ag[a].id # NoCmd
  PROVE  /\ ag[a].id \in Cmds
         /\ cmd[ag[a].id].status \notin {"absent", "pending"}
         /\ \A b \in Agents \ {a} : ag[b].id # ag[a].id
  BY DEF Types, AgentTypes, Fits, Records, Once, OneClaimer, Claimed

LEMMA UndoneHolds ==
  ASSUME Types, NEW a \in Agents, Undone(a)
  PROVE  ag[a].id \in Cmds /\ ag[a].id # NoCmd
  BY DEF Types, AgentTypes, Fits, Records, Undone

LEMMA PushOnce ==
  ASSUME Types, Once, NEW c \in Cmds, PushCommand(c)
  PROVE  Once'
<1>1. cmd[c].status = "absent" /\ UNCHANGED <<ran, ag>>
      /\ \A d \in Cmds \ {c} : cmd'[d] = cmd[d]
  BY DEF PushCommand, Types, CmdTypes
<1>2. ran[c] = 0
  BY <1>1 DEF Once, NotYet
<1>3. \A a \in Agents : ag[a].id # NoCmd => ag[a].id \in Cmds /\ ag[a].id # c
  BY <1>1, Holder
<1>4. Claimed' /\ OneClaimer' /\ DoneOnce'
  BY <1>1, <1>3 DEF Once, Claimed, OneClaimer, DoneOnce
<1>5. ASSUME NEW a \in Agents, Undone(a)' PROVE ran'[ag'[a].id] = 0
  <2>1. ag[a].id # NoCmd
    BY <1>1, <1>5 DEF Undone, Types, AgentTypes, Fits
  <2>2. Undone(a)
    BY <1>1, <1>3, <1>5, <2>1 DEF Undone
  <2> QED BY <1>1, <2>2 DEF Once, NotYet
<1>6. \A d \in Cmds : cmd'[d].status \in {"absent", "pending"} => ran'[d] = 0
  BY <1>1, <1>2 DEF Once, NotYet
<1> QED BY <1>4, <1>5, <1>6 DEF Once, NotYet

LEMMA ClaimOnce ==
  ASSUME Types, Once, NEW a \in Agents, NEW c \in Cmds, claimCommand(a, c), Types'
  PROVE  Once'
<1>1. ag[a].pc = "idle" /\ ag[a].id = NoCmd /\ UNCHANGED ran
  BY DEF claimCommand, Types, AgentTypes, Fits
<1>2. CASE UNCHANGED cmd /\ Drop(a, c)
  <2>1. \A b \in Agents : ag'[b].id = ag[b].id /\ ag'[b].pc = ag[b].pc
    BY <1>2 DEF Drop, Types, AgentTypes, Records
  <2> QED BY <1>1, <1>2, <2>1, OnceKept
<1>3. CASE c \in Pending /\ Status(c, "running")
  <2>1. /\ cmd[c].status = "pending" /\ cmd'[c].status = "running"
        /\ \A d \in Cmds \ {c} : cmd'[d] = cmd[d]
    BY <1>3 DEF Pending, Status, Types, CmdTypes, Docs
  <2>2. ran[c] = 0
    BY <2>1 DEF Once, NotYet
  <2>3. \A b \in Agents : ag[b].id # c
    BY <2>1, Holder, CloudAgentAssumption
  <2>4. /\ \A b \in Agents \ {a} : ag'[b].id = ag[b].id /\ ag'[b].pc = ag[b].pc
        /\ \/ ag'[a].id = NoCmd /\ ag'[a].pc = "idle"
           \/ ag'[a].id = c /\ ag'[a].pc = "run"
    BY <1>1 DEF claimCommand, Take, Drop, Types, AgentTypes, Records
  <2>5. OneClaimer'
    BY <2>3, <2>4 DEF Once, OneClaimer
  <2>6. Claimed'
    <3> SUFFICES ASSUME NEW b \in Agents, ag'[b].id # NoCmd
                 PROVE  /\ cmd'[ag'[b].id].status \notin {"absent", "pending"}
                        /\ ag'[b].pc # "restart" => cmd'[ag'[b].id].status = "running"
      BY DEF Claimed
    <3>1. CASE ag'[b].id = c
      BY <2>1, <3>1
    <3>2. CASE ag'[b].id # c
      <4>1. b # a /\ ag[b].id \in Cmds
        BY <2>4, <3>2, Holder
      <4> QED BY <2>1, <2>4, <3>2, <4>1 DEF Once, Claimed
    <3> QED BY <3>1, <3>2
  <2>7. ASSUME NEW b \in Agents, Undone(b)' PROVE ran'[ag'[b].id] = 0
    <3>1. CASE b = a
      BY <1>1, <2>2, <2>4, <2>7, <3>1 DEF Undone
    <3>2. CASE b # a
      <4>1. ag[b].id \in Cmds \ {c}
        BY <2>3, <2>4, <2>7, <3>2 DEF Undone, Types, AgentTypes, Fits, Records
      <4>2. Undone(b)
        BY <2>1, <2>4, <2>7, <3>2, <4>1 DEF Undone
      <4> QED BY <1>1, <2>4, <3>2, <4>2 DEF Once, NotYet
    <3> QED BY <3>1, <3>2
  <2>8. NotYet' /\ DoneOnce'
    BY <1>1, <2>1, <2>2, <2>7 DEF Once, NotYet, DoneOnce
  <2> QED BY <2>5, <2>6, <2>8 DEF Once
<1> QED BY <1>2, <1>3 DEF claimCommand

LEMMA HandleOnce ==
  ASSUME Types, Once, NEW a \in Agents, handle(a)
  PROVE  Once'
<1> DEFINE c == ag[a].id
<1>1. /\ ag[a].pc = "run" /\ c \in Cmds /\ c # NoCmd /\ UNCHANGED cmd
      /\ cmd[c].status = "running" /\ ran[c] = 0
  BY UndoneHolds DEF handle, Undone, Once, NotYet, Claimed
<1>2. \A b \in Agents \ {a} : ag[b].id # c
  BY <1>1, Holder
<1>3. /\ \A b \in Agents \ {a} : ag'[b] = ag[b]
      /\ ag'[a].id = c /\ ag'[a].pc \in {"ack", "ack+restart"}
  BY DEF handle, Acks, Types, AgentTypes, Records
<1>4. \/ UNCHANGED ran
      \/ /\ ran' = [ran EXCEPT ![c] = 1]
         /\ ag'[a].pc = "ack" \/ cmd[c].kind # "restart-agent"
  BY <1>1 DEF handle, Ran, Acks, Types, AgentTypes, CmdTypes, Records
<1>5. \A d \in Cmds : ran'[d] = ran[d] \/ (d = c /\ ran'[d] = 1)
  BY <1>4 DEF Types, CmdTypes
<1> HIDE DEF c
<1>6. OneClaimer' /\ Claimed'
  <2>1. \A b \in Agents : ag'[b].id = ag[b].id
    BY <1>3 DEF c
  <2> QED BY <1>1, <1>3, <2>1 DEF c, Once, OneClaimer, Claimed
<1>7. DoneOnce'
  BY <1>5 DEF Once, DoneOnce
<1>8. ASSUME NEW b \in Agents, Undone(b)' PROVE ran'[ag'[b].id] = 0
  <2>1. CASE b = a
    BY <1>1, <1>3, <1>4, <1>8, <2>1 DEF Undone
  <2>2. CASE b # a
    <3>1. Undone(b) /\ ag'[b] = ag[b]
      BY <1>1, <1>3, <1>8, <2>2 DEF Undone
    <3>2. ag[b].id \in Cmds /\ ag[b].id # c
      BY <1>2, <2>2, <3>1, UndoneHolds
    <3> QED BY <1>5, <3>1, <3>2 DEF Once, NotYet
  <2> QED BY <2>1, <2>2
<1>9. \A d \in Cmds : cmd'[d].status \in {"absent", "pending"} => ran'[d] = 0
  BY <1>1, <1>5 DEF Once, NotYet
<1> QED BY <1>6, <1>7, <1>8, <1>9 DEF Once, NotYet

LEMMA AckOnce ==
  ASSUME Types, Once, NEW a \in Agents, AckCommand(a)
  PROVE  Once'
<1> DEFINE c == ag[a].id
<1>1. /\ ag[a].pc \in {"ack", "ack+restart"} /\ UNCHANGED ran
      /\ c # NoCmd /\ ag[a].then \in {"done", "error"}
  BY DEF AckCommand, Types, AgentTypes, Fits, Records
<1>2. c \in Cmds /\ cmd[c].status = "running" /\ \A b \in Agents \ {a} : ag[b].id # c
  BY <1>1, Holder DEF Once, Claimed
<1>3. /\ \A b \in Agents \ {a} : ag'[b] = ag[b]
      /\ \/ ag[a].pc = "ack" /\ ag'[a].pc = "idle" /\ ag'[a].id = NoCmd
         \/ ag[a].pc = "ack+restart" /\ ag'[a].pc = "restart" /\ ag'[a].id = c
  BY <1>1 DEF AckCommand, Types, AgentTypes, Records
<1>4. /\ \A d \in Cmds \ {c} : cmd'[d] = cmd[d]
      /\ cmd'[c].kind = cmd[c].kind /\ cmd'[c].status \in {"running", "done", "error"}
  BY <1>1, <1>2 DEF AckCommand, Status, Types, CmdTypes, Docs
<1> HIDE DEF c
<1>5. \A b \in Agents : ag'[b].id # NoCmd => ag'[b].id = ag[b].id
  BY <1>3 DEF c
<1>6. OneClaimer'
  BY <1>5 DEF Once, OneClaimer
<1>7. Claimed'
  <2> SUFFICES ASSUME NEW b \in Agents, ag'[b].id # NoCmd
               PROVE  /\ cmd'[ag'[b].id].status \notin {"absent", "pending"}
                      /\ ag'[b].pc # "restart" => cmd'[ag'[b].id].status = "running"
    BY DEF Claimed
  <2>1. CASE b = a
    BY <1>3, <1>4, <2>1
  <2>2. CASE b # a
    <3>1. ag'[b] = ag[b] /\ ag[b].id \in Cmds \ {c}
      BY <1>2, <1>3, <2>2, Holder
    <3> QED BY <1>4, <3>1 DEF Once, Claimed
  <2> QED BY <2>1, <2>2
<1>8. ASSUME NEW b \in Agents, Undone(b)' PROVE ran'[ag'[b].id] = 0
  <2>1. ag'[b].id = ag[b].id /\ Undone(b)
    <3>1. CASE b = a
      BY <1>3, <1>4, <1>8, <3>1 DEF Undone, c
    <3>2. CASE b # a
      <4>1. ag'[b] = ag[b]
        BY <1>3, <3>2
      <4>2. ag[b].id \in Cmds \ {c}
        BY <1>2, <1>8, <3>2, <4>1 DEF Undone, Types, AgentTypes, Fits, Records
      <4> QED BY <1>4, <1>8, <4>1, <4>2 DEF Undone
    <3> QED BY <3>1, <3>2
  <2> QED BY <1>1, <2>1 DEF Once, NotYet
<1>9. NotYet' /\ DoneOnce'
  BY <1>1, <1>2, <1>4, <1>8 DEF Once, NotYet, DoneOnce
<1> QED BY <1>6, <1>7, <1>9 DEF Once

LEMMA RestartOnce ==
  ASSUME Types, Once, NEW a \in Agents, DoRestart(a)
  PROVE  Once'
<1> DEFINE c == ag[a].id
<1>1. ag[a].pc = "restart" /\ c # NoCmd /\ UNCHANGED cmd
  BY DEF DoRestart, Types, AgentTypes, Fits, Records
<1>2. c \in Cmds /\ cmd[c].status \notin {"absent", "pending"}
      /\ \A b \in Agents \ {a} : ag[b].id # c
  BY <1>1, Holder
<1>3. ag'[a].id = NoCmd /\ ag'[a].pc \in {"down", "idle"}
      /\ \A b \in Agents \ {a} : ag'[b] = ag[b]
  BY FreshFits DEF DoRestart, Dies, Types, AgentTypes, Records
<1>4. \A d \in Cmds : ran'[d] = ran[d] \/ (d = c /\ ran'[d] = 1)
  BY <1>1, <1>2 DEF DoRestart, Ran, Undone, Once, NotYet, Types, CmdTypes
<1> HIDE DEF c
<1>5. OneClaimer' /\ Claimed'
  BY <1>1, <1>3 DEF Once, OneClaimer, Claimed
<1>6. DoneOnce'
  BY <1>4 DEF Once, DoneOnce
<1>7. ASSUME NEW b \in Agents, Undone(b)' PROVE ran'[ag'[b].id] = 0
  <2>1. b # a /\ ag'[b] = ag[b] /\ Undone(b)
    BY <1>1, <1>3, <1>7 DEF Undone
  <2>2. ag[b].id \in Cmds /\ ag[b].id # c
    BY <1>2, <2>1, UndoneHolds
  <2> QED BY <1>4, <2>1, <2>2 DEF Once, NotYet
<1>8. NotYet'
  BY <1>1, <1>2, <1>4, <1>7 DEF Once, NotYet
<1> QED BY <1>5, <1>6, <1>8 DEF Once

-----------------------------------------------------------------------------
(* The invariant, and what follows from it. *)

LEMMA Initial == Init => Types /\ Once
<1> SUFFICES ASSUME Init PROVE Types /\ Once
  OBVIOUS
<1>1. CmdTypes
  BY DEF Init, CmdTypes, Docs
<1>2. AgentTypes /\ \A a \in Agents : ag[a] = Down
  BY FreshFits DEF Init, AgentTypes, Fits
<1>3. LineTypes /\ OtherTypes
  <2>1. /\ line \in [Wakers -> [Sids -> {"none", "dial", "open", "closing"}]]
        /\ \A a \in Wakers : line[a] = [s \in Sids |-> "none"]
    BY DEF Init
  <2>2. viewer \in [Sids -> {"sleep", "dial", "in"}]
    BY DEF Init
  <2>3. 0 \in 0 .. MaxFaults
    BY CloudAgentAssumption
  <2>4. OtherTypes
    BY <2>3 DEF Init, OtherTypes
  <2> QED BY <2>1, <2>2, <2>4 DEF Init, LineTypes
<1>4. Once
  BY <1>2, FreshFits DEF Init, Once, OneClaimer, Claimed, NotYet, Undone, DoneOnce
<1> QED BY <1>1, <1>2, <1>3, <1>4 DEF Types

LEMMA OnceStep == Types /\ Once /\ [Next]_vars => Once'
<1> SUFFICES ASSUME Types, Once, [Next]_vars PROVE Once'
  OBVIOUS
<1>1. Types'
  BY TypesKept
<1>2. CASE CommandStep
  <2>1. ASSUME NEW a \in Agents, Snapshot(a) \/ CommandStreamEnds(a) PROVE Once'
    <3>1. \A b \in Agents : ag'[b].id = ag[b].id /\ ag'[b].pc = ag[b].pc
      BY <2>1 DEF Snapshot, CommandStreamEnds, Types, AgentTypes, Records
    <3>2. UNCHANGED <<cmd, ran>>
      BY <2>1 DEF Snapshot, CommandStreamEnds, cmdVars
    <3> QED BY <1>1, <3>1, <3>2, OnceKept
  <2> QED BY <1>1, <1>2, <2>1, PushOnce, ClaimOnce, HandleOnce, AckOnce DEF CommandStep
<1>3. CASE ProcessStep
  <2>1. ASSUME NEW a \in Agents, Starts(a) \/ Killed(a) PROVE Once'
    <3>1. ag'[a].id = NoCmd /\ \A b \in Agents \ {a} : ag'[b] = ag[b]
      BY <2>1, FreshFits DEF Starts, Killed, Dies, Types, AgentTypes
    <3>2. UNCHANGED <<cmd, ran>>
      BY <2>1 DEF Starts, Killed, cmdVars
    <3> QED BY <1>1, <3>1, <3>2, OnceKept
  <2> QED BY <1>3, <2>1, RestartOnce DEF ProcessStep
<1>4. CASE LineStep \/ SetRevoked \/ UNCHANGED vars
  <2>1. UNCHANGED <<cmd, ran, ag>>
    BY <1>4 DEF LineStep, SetRevoked, vars, WakeFrame, cmdVars, WakeStreamEnds, handleWake,
                BridgeSource, LineCloses, Deactivates, Wake, ViewerDial, RelayDrops, WakeEnded
  <2> QED BY <1>1, <2>1, OnceKept
<1> QED BY <1>2, <1>3, <1>4, StepCases

\* The inductive invariant; Types is TypeOK.
LEMMA Inductive == Spec => [](Types /\ Once)
<1>1. Types /\ Once /\ [Next]_vars => Types' /\ Once'
  BY TypesKept, OnceStep
<1> QED BY <1>1, Initial, PTL DEF Spec

\* The types hold: an agent has a command exactly while it works on it, and a
\* process that is gone has neither data lines nor wakes (agent.go, Agent.active).
THEOREM CloudAgentTypeOK == Spec => []TypeOK
  BY Inductive, TypesAre, PTL

\* At most one agent has a command, one that was claimed and is not answered
\* before the agent is through with it (agent/commands.go, claimCommand, handle).
THEOREM CommandHasOneAgent == Spec => [](OneClaimer /\ Claimed)
<1>1. Once => OneClaimer /\ Claimed
  BY DEF Once
<1> QED BY <1>1, Inductive, PTL

\* However many agents get a command, however often streams repeat it and
\* whenever agents are killed, it is not done twice (handle).
THEOREM CommandDoneOnce == Spec => []DoneOnce
<1>1. Once => DoneOnce
  BY DEF Once
<1> QED BY <1>1, Inductive, PTL

\* An answer stands: after its acknowledgement nothing touches a command again,
\* neither another agent nor the same one after its restart (AckCommand).
THEOREM AnswerStands ==
  Spec => [][\A c \in Cmds : cmd[c].status \in {"done", "error"} => cmd'[c] = cmd[c]]_vars
<1> DEFINE Stands == \A c \in Cmds : cmd[c].status \in {"done", "error"} => cmd'[c] = cmd[c]
<1>1. Types /\ Once /\ [Next]_vars => [Stands]_vars
  <2> SUFFICES ASSUME Types, Once, [Next]_vars PROVE Stands \/ UNCHANGED vars
    OBVIOUS
  <2> SUFFICES ASSUME ~UNCHANGED vars, NEW c \in Cmds, cmd[c].status \in {"done", "error"}
               PROVE  cmd'[c] = cmd[c]
    OBVIOUS
  <2>1. ASSUME NEW a \in Agents, AckCommand(a) PROVE cmd'[c] = cmd[c]
    <3>1. ag[a].pc \in {"ack", "ack+restart"} /\ ag[a].id # NoCmd
      BY <2>1 DEF AckCommand, Types, AgentTypes, Fits
    <3>2. cmd[ag[a].id].status = "running"
      BY <3>1 DEF Once, Claimed
    <3>3. ag[a].id # c
      BY <3>2
    <3> QED BY <2>1, <3>3 DEF AckCommand, Status, Types, CmdTypes
  <2>2. ASSUME NEW d \in Cmds, NEW a \in Agents, claimCommand(a, d) PROVE cmd'[c] = cmd[c]
    BY <2>2 DEF claimCommand, Status, Pending, Types, CmdTypes
  <2>3. ASSUME NEW d \in Cmds, PushCommand(d) PROVE cmd'[c] = cmd[c]
    BY <2>3 DEF PushCommand, Types, CmdTypes
  <2>4. CASE CommandStep
    BY <2>1, <2>2, <2>3, <2>4
       DEF CommandStep, Snapshot, CommandStreamEnds, handle, cmdVars
  <2>5. CASE ProcessStep
    BY <2>5 DEF ProcessStep, Starts, DoRestart, Killed, cmdVars
  <2>6. CASE LineStep \/ SetRevoked
    BY <2>6 DEF LineStep, SetRevoked, WakeFrame, cmdVars, WakeStreamEnds, handleWake,
                BridgeSource, LineCloses, Deactivates, Wake, ViewerDial, RelayDrops, WakeEnded
  <2> QED BY <2>4, <2>5, <2>6, StepCases
<1> QED BY <1>1, Inductive, PTL DEF Spec

-----------------------------------------------------------------------------
(* The queue: what an agent is about to answer is true. *)

LateKind(c) == cmd[c].kind = "restart-agent"

\* Of what an agent has done, or is going to do after its answer.
Says(a) ==
  LET c == ag[a].id IN
  /\ ag[a].pc \in {"ack", "ack+restart"} =>
       IF LateKind(c) THEN ran[c] = 0 ELSE ag[a].then = "done" => ran[c] = 1
  /\ ag[a].pc \in {"ack+restart", "restart"} /\ LateKind(c) =>
       ag[a].then = "done" /\ cmd[c].status # "error"

Reported == \A a \in Agents : Says(a)

\* What an answer says, once it is given.
Truthful ==
  \A c \in Cmds :
    /\ cmd[c].status = "done" => LateKind(c) \/ ran[c] = 1
    /\ cmd[c].status = "error" /\ LateKind(c) => ran[c] = 0

\* An agent whose command is not touched, and one that has nothing to say.
LEMMA SaysKept ==
  ASSUME NEW a \in Agents, Says(a),
         ag'[a].id = ag[a].id /\ ag'[a].pc = ag[a].pc /\ ag'[a].then = ag[a].then,
         cmd'[ag[a].id] = cmd[ag[a].id] /\ ran'[ag[a].id] = ran[ag[a].id]
  PROVE  Says(a)'
  BY DEF Says, LateKind

LEMMA Silent ==
  ASSUME Types', NEW a \in Agents, ag'[a].id = NoCmd \/ ag'[a].pc = "run"
  PROVE  Says(a)'
  BY DEF Says, Types, AgentTypes, Fits

\* Agents that have other commands than the one dealt with.
LEMMA OthersSay ==
  ASSUME Types, Types', Reported, NEW c \in Cmds, NEW b \in Agents,
         ag'[b].id = ag[b].id /\ ag'[b].pc = ag[b].pc /\ ag'[b].then = ag[b].then,
         ag[b].id # c, \A d \in Cmds \ {c} : cmd'[d] = cmd[d] /\ ran'[d] = ran[d]
  PROVE  Says(b)'
<1>1. CASE ag[b].id = NoCmd
  BY <1>1, Silent
<1>2. CASE ag[b].id # NoCmd
  <2>1. ag[b].id \in Cmds \ {c}
    BY <1>2 DEF Types, AgentTypes, Fits, Records
  <2> QED BY <2>1, SaysKept DEF Reported
<1> QED BY <1>1, <1>2

LEMMA PushQueues ==
  ASSUME Types, Types', Once, Reported, NEW c \in Cmds, PushCommand(c)
  PROVE  CQ!Send(c) /\ Reported'
<1>1. CQ!Send(c)
  BY DEF PushCommand, CQ!Send
<1>2. cmd[c].status = "absent" /\ UNCHANGED <<ran, ag>>
      /\ \A d \in Cmds \ {c} : cmd'[d] = cmd[d]
  BY DEF PushCommand, Types, CmdTypes
<1>3. \A a \in Agents : ag[a].id # c
  BY <1>2, Holder, CloudAgentAssumption
<1>4. \A a \in Agents : Says(a)'
  BY <1>2, <1>3, OthersSay
<1> QED BY <1>1, <1>4 DEF Reported

LEMMA ClaimQueues ==
  ASSUME Types, Types', Once, Reported, NEW a \in Agents, NEW c \in Cmds, claimCommand(a, c)
  PROVE  (CQ!Claim(c) \/ UNCHANGED <<cmd, ran>>) /\ Reported'
<1>1. ag[a].pc = "idle" /\ ag[a].id = NoCmd /\ UNCHANGED ran
  BY DEF claimCommand, Types, AgentTypes, Fits
<1>2. /\ \A b \in Agents \ {a} : ag'[b] = ag[b]
      /\ \/ ag'[a].id = NoCmd /\ ag'[a].pc = "idle"
         \/ ag'[a].id = c /\ ag'[a].pc = "run"
  BY <1>1 DEF claimCommand, Take, Drop, Types, AgentTypes, Records
<1>3. Says(a)'
  BY <1>2, Silent
<1>4. CASE UNCHANGED cmd
  <2>1. \A b \in Agents \ {a} : Says(b)'
    BY <1>1, <1>2, <1>4, SaysKept DEF Reported
  <2> QED BY <1>1, <1>3, <1>4, <2>1 DEF Reported
<1>5. CASE c \in Pending /\ Status(c, "running")
  <2>1. /\ cmd[c].status = "pending"
        /\ \A d \in Cmds \ {c} : cmd'[d] = cmd[d]
    BY <1>5 DEF Pending, Status, Types, CmdTypes
  <2>2. CQ!Claim(c)
    BY <1>1, <1>5, <2>1 DEF CQ!Claim, Status
  <2>3. \A b \in Agents : ag[b].id # c
    BY <2>1, Holder, CloudAgentAssumption
  <2>4. \A b \in Agents \ {a} : Says(b)'
    BY <1>1, <1>2, <2>1, <2>3, OthersSay
  <2> QED BY <1>3, <2>2, <2>4 DEF Reported
<1> QED BY <1>4, <1>5 DEF claimCommand

LEMMA HandleQueues ==
  ASSUME Types, Types', Once, Reported, NEW a \in Agents, handle(a)
  PROVE  (CQ!Do(ag[a].id) \/ UNCHANGED <<cmd, ran>>) /\ Reported'
<1> DEFINE c == ag[a].id
<1>1. /\ ag[a].pc = "run" /\ c \in Cmds /\ c # NoCmd /\ UNCHANGED cmd
      /\ cmd[c].status = "running" /\ ran[c] = 0
  BY UndoneHolds DEF handle, Undone, Once, NotYet, Claimed
<1>2. \A b \in Agents \ {a} : ag[b].id # c /\ ag'[b] = ag[b]
  BY <1>1, Holder DEF handle, Acks, Types, AgentTypes
<1>3. PICK res \in {"done", "error"}, p \in {"ack", "ack+restart"} :
        /\ Acks(a, res, p)
        /\ \/ UNCHANGED ran /\ res = "error" /\ p = "ack"
           \/ UNCHANGED ran /\ res = "done" /\ LateKind(c)
           \/ Ran(c) /\ ~LateKind(c)
  BY DEF handle, LateKind
<1>4. ag'[a].id = c /\ ag'[a].pc = p /\ ag'[a].then = res
  BY <1>3 DEF Acks, Types, AgentTypes, Records
<1>5. UNCHANGED ran \/ ran' = [ran EXCEPT ![c] = 1]
  BY <1>1, <1>3 DEF Ran
<1> HIDE DEF c
<1>6. CQ!Do(c) \/ UNCHANGED <<cmd, ran>>
  BY <1>1, <1>5 DEF CQ!Do
<1>7. ran'[c] = IF UNCHANGED ran THEN 0 ELSE 1
  BY <1>1, <1>5 DEF Types, CmdTypes
<1>8. Says(a)'
  <2>1. /\ cmd'[c].kind = "restart-agent" <=> LateKind(c)
        /\ cmd'[c].status # "error"
    BY <1>1 DEF LateKind
  <2>2. LateKind(c) => UNCHANGED ran
    BY <1>3
  <2>3. ~LateKind(c) /\ res = "done" => ~UNCHANGED ran
    BY <1>1, <1>3, <1>5 DEF Ran, Types, CmdTypes
  <2>4. LateKind(c) /\ p = "ack+restart" => res = "done"
    BY <1>3
  <2>5. IF cmd'[c].kind = "restart-agent" THEN ran'[c] = 0 ELSE res = "done" => ran'[c] = 1
    BY <1>7, <2>1, <2>2, <2>3
  <2> QED BY <1>4, <2>1, <2>4, <2>5 DEF Says, LateKind
<1>9. \A b \in Agents \ {a} : Says(b)'
  <2>1. \A d \in Cmds \ {c} : cmd'[d] = cmd[d] /\ ran'[d] = ran[d]
    BY <1>1, <1>5 DEF Types, CmdTypes
  <2> QED BY <1>1, <1>2, <2>1, OthersSay
<1> QED BY <1>6, <1>8, <1>9 DEF Reported, c

LEMMA AckQueues ==
  ASSUME Types, Types', Once, Reported, NEW a \in Agents, AckCommand(a)
  PROVE  (CQ!Answer(ag[a].id) \/ UNCHANGED <<cmd, ran>>) /\ Reported'
<1> DEFINE c == ag[a].id
<1>1. /\ ag[a].pc \in {"ack", "ack+restart"} /\ UNCHANGED ran
      /\ c # NoCmd /\ c \in Cmds /\ ag[a].then \in {"done", "error"}
  BY DEF AckCommand, Types, AgentTypes, Fits, Records
<1>2. cmd[c].status = "running" /\ \A b \in Agents \ {a} : ag[b].id # c /\ ag'[b] = ag[b]
  BY <1>1, Holder DEF Once, Claimed, AckCommand, Types, AgentTypes
<1>3. /\ ag'[a].then = ag[a].then
      /\ \/ ag[a].pc = "ack" /\ ag'[a].id = NoCmd
         \/ ag[a].pc = "ack+restart" /\ ag'[a].pc = "restart" /\ ag'[a].id = c
  BY <1>1 DEF AckCommand, Types, AgentTypes, Records
<1>4. Status(c, ag[a].then) \/ UNCHANGED cmd
  BY DEF AckCommand
<1>5. IF LateKind(c) THEN ran[c] = 0 ELSE ag[a].then = "done" => ran[c] = 1
  BY <1>1 DEF Reported, Says
<1>6. ag[a].pc = "ack+restart" /\ LateKind(c) => ag[a].then = "done"
  BY DEF Reported, Says
<1> HIDE DEF c
<1>7. CQ!Answer(c) \/ UNCHANGED <<cmd, ran>>
  <2>1. CASE UNCHANGED cmd
    BY <1>1, <2>1
  <2>2. CASE Status(c, ag[a].then)
    BY <1>1, <1>2, <1>5, <2>2 DEF CQ!Answer, Status, LateKind
  <2> QED BY <1>4, <2>1, <2>2
<1>8. /\ \A d \in Cmds \ {c} : cmd'[d] = cmd[d]
      /\ cmd'[c].kind = cmd[c].kind /\ cmd'[c].status \in {"running", ag[a].then}
  BY <1>1, <1>2, <1>4 DEF Status, Types, CmdTypes, Docs
<1>9. Says(a)'
  <2>1. CASE ag'[a].id = NoCmd
    BY <2>1, Silent
  <2>2. CASE ag[a].pc = "ack+restart" /\ ag'[a].pc = "restart" /\ ag'[a].id = c
    BY <1>3, <1>6, <1>8, <2>2 DEF Says, LateKind
  <2> QED BY <1>3, <2>1, <2>2
<1>10. \A b \in Agents \ {a} : Says(b)'
  BY <1>1, <1>2, <1>8, OthersSay
<1> QED BY <1>7, <1>9, <1>10 DEF Reported, c

LEMMA RestartQueues ==
  ASSUME Types, Types', Once, Reported, NEW a \in Agents, DoRestart(a)
  PROVE  (CQ!Do(ag[a].id) \/ UNCHANGED <<cmd, ran>>) /\ Reported'
<1> DEFINE c == ag[a].id
<1>1. ag[a].pc = "restart" /\ c # NoCmd /\ UNCHANGED cmd
  BY DEF DoRestart, Types, AgentTypes, Fits, Records
<1>2. c \in Cmds /\ cmd[c].status \in {"running", "done", "error"}
      /\ \A b \in Agents \ {a} : ag[b].id # c
  BY <1>1, Holder DEF Types, CmdTypes, Docs
<1>3. ag'[a].id = NoCmd /\ \A b \in Agents \ {a} : ag'[b] = ag[b]
  BY FreshFits DEF DoRestart, Dies, Types, AgentTypes, Records
<1>4. UNCHANGED ran \/ (ran[c] = 0 /\ LateKind(c) /\ ran' = [ran EXCEPT ![c] = 1])
  BY <1>1, <1>2 DEF DoRestart, Ran, Undone, Once, NotYet, LateKind
<1>5. LateKind(c) => cmd[c].status # "error"
  BY <1>1 DEF Reported, Says
<1> HIDE DEF c
<1>6. CQ!Do(c) \/ UNCHANGED <<cmd, ran>>
  BY <1>1, <1>2, <1>4, <1>5 DEF CQ!Do, LateKind
<1>7. \A d \in Cmds \ {c} : cmd'[d] = cmd[d] /\ ran'[d] = ran[d]
  BY <1>1, <1>4 DEF Types, CmdTypes
<1>8. Says(a)'
  BY <1>3, Silent
<1>9. \A b \in Agents \ {a} : Says(b)'
  BY <1>2, <1>3, <1>7, OthersSay
<1> QED BY <1>6, <1>8, <1>9 DEF Reported, c

\* Every step is a step of the queue, or none.
LEMMA QueueStep ==
  ASSUME Types, Types', Once, Reported, [Next]_vars
  PROVE  [CQ!Next]_<<cmd, ran>> /\ Reported'
<1>1. ASSUME UNCHANGED <<cmd, ran>>,
             \A a \in Agents : \/ ag'[a].id = NoCmd
                               \/ /\ ag'[a].id = ag[a].id /\ ag'[a].pc = ag[a].pc
                                  /\ ag'[a].then = ag[a].then
      PROVE  Reported'
  BY <1>1, SaysKept, Silent DEF Reported
<1>2. CASE CommandStep
  <2>1. ASSUME NEW c \in Cmds, PushCommand(c) PROVE CQ!Next /\ Reported'
    BY <2>1, PushQueues DEF CQ!Next
  <2>2. ASSUME NEW a \in Agents, Snapshot(a) \/ CommandStreamEnds(a)
        PROVE  UNCHANGED <<cmd, ran>> /\ Reported'
    <3>1. \A b \in Agents : ag'[b].id = ag[b].id /\ ag'[b].pc = ag[b].pc
                            /\ ag'[b].then = ag[b].then
      BY <2>2 DEF Snapshot, CommandStreamEnds, Types, AgentTypes, Records
    <3>2. UNCHANGED <<cmd, ran>>
      BY <2>2 DEF Snapshot, CommandStreamEnds, cmdVars
    <3> QED BY <1>1, <3>1, <3>2
  <2>3. ASSUME NEW a \in Agents, NEW c \in Cmds, claimCommand(a, c)
        PROVE  [CQ!Next]_<<cmd, ran>> /\ Reported'
    BY <2>3, ClaimQueues DEF CQ!Next
  <2>4. ASSUME NEW a \in Agents, handle(a) PROVE [CQ!Next]_<<cmd, ran>> /\ Reported'
    <3>1. ag[a].id \in Cmds
      BY <2>4, UndoneHolds DEF handle, Undone
    <3> QED BY <2>4, <3>1, HandleQueues DEF CQ!Next
  <2>5. ASSUME NEW a \in Agents, AckCommand(a) PROVE [CQ!Next]_<<cmd, ran>> /\ Reported'
    <3>1. ag[a].id \in Cmds
      BY <2>5 DEF AckCommand, Types, AgentTypes, Fits, Records
    <3> QED BY <2>5, <3>1, AckQueues DEF CQ!Next
  <2> QED BY <1>2, <2>1, <2>2, <2>3, <2>4, <2>5 DEF CommandStep
<1>3. CASE ProcessStep
  <2>1. ASSUME NEW a \in Agents, Starts(a) \/ Killed(a)
        PROVE  UNCHANGED <<cmd, ran>> /\ Reported'
    <3>1. ag'[a].id = NoCmd /\ \A b \in Agents \ {a} : ag'[b] = ag[b]
      BY <2>1, FreshFits DEF Starts, Killed, Dies, Types, AgentTypes
    <3>2. UNCHANGED <<cmd, ran>>
      BY <2>1 DEF Starts, Killed, cmdVars
    <3> QED BY <1>1, <3>1, <3>2
  <2>2. ASSUME NEW a \in Agents, DoRestart(a) PROVE [CQ!Next]_<<cmd, ran>> /\ Reported'
    <3>1. ag[a].id \in Cmds
      BY <2>2 DEF DoRestart, Types, AgentTypes, Fits, Records
    <3> QED BY <2>2, <3>1, RestartQueues DEF CQ!Next
  <2> QED BY <1>3, <2>1, <2>2 DEF ProcessStep
<1>4. CASE LineStep \/ SetRevoked \/ UNCHANGED vars
  <2>1. UNCHANGED <<cmd, ran, ag>>
    BY <1>4 DEF LineStep, SetRevoked, vars, WakeFrame, cmdVars, WakeStreamEnds, handleWake,
                BridgeSource, LineCloses, Deactivates, Wake, ViewerDial, RelayDrops, WakeEnded
  <2> QED BY <1>1, <2>1
<1> QED BY <1>2, <1>3, <1>4, StepCases

LEMMA TruthfulKept ==
  ASSUME CmdTypes, Truthful, [CQ!Next]_<<cmd, ran>>
  PROVE  Truthful'
<1>1. CASE UNCHANGED <<cmd, ran>>
  BY <1>1 DEF Truthful, LateKind
<1>2. ASSUME NEW c \in Cmds, CQ!Send(c) \/ CQ!Claim(c) \/ CQ!Do(c) \/ CQ!Answer(c)
      PROVE  Truthful'
  <2>1. \A d \in Cmds \ {c} : cmd'[d] = cmd[d] /\ ran'[d] = ran[d]
    BY <1>2 DEF CQ!Send, CQ!Claim, CQ!Do, CQ!Answer, CmdTypes
  <2>2. /\ cmd'[c].status = "done" => cmd'[c].kind = "restart-agent" \/ ran'[c] = 1
        /\ cmd'[c].status = "error" /\ cmd'[c].kind = "restart-agent" => ran'[c] = 0
    <3>1. CASE CQ!Send(c)
      BY <3>1 DEF CQ!Send, CmdTypes
    <3>2. CASE CQ!Claim(c)
      BY <3>2 DEF CQ!Claim, CmdTypes, Docs
    <3>3. CASE CQ!Do(c)
      BY <3>3 DEF CQ!Do, CmdTypes
    <3>4. CASE CQ!Answer(c)
      BY <3>4 DEF CQ!Answer, CmdTypes, Docs
    <3> QED BY <1>2, <3>1, <3>2, <3>3, <3>4
  <2> QED BY <2>1, <2>2 DEF Truthful, LateKind
<1> QED BY <1>1, <1>2 DEF CQ!Next

LEMMA Answering == Spec => [](Reported /\ Truthful)
<1>1. Init => Reported /\ Truthful
  <2>1. Init => \A a \in Agents : ag[a] = Down
    BY DEF Init
  <2> QED BY <2>1, FreshFits DEF Init, Reported, Says, Truthful
<1>2. Types /\ Types' /\ Once /\ Reported /\ Truthful /\ [Next]_vars => Reported' /\ Truthful'
  BY QueueStep, TruthfulKept DEF Types
<1> QED BY <1>1, <1>2, Inductive, PTL DEF Spec

\* What the control line promises holds of two agents, repeated snapshots, hidden
\* commits and kills: it implements the queue (agent/commands.go).
THEOREM CommandsImplementQueue == Spec => ImplementsQueue
<1>1. Init => CQ!Init
  BY DEF Init, CQ!Init
<1>2. Types /\ Types' /\ Once /\ Reported /\ [Next]_vars => [CQ!Next]_CQ!queueVars
  BY QueueStep DEF CQ!queueVars
<1> QED BY <1>1, <1>2, Inductive, Answering, PTL DEF Spec, ImplementsQueue, CQ!Spec

\* An answer is true: what is reported done has been done, unless it is a restart
\* of the agent, and a restart that is refused does not happen (handle).
THEOREM AnswersAreTrue == Spec => []Truthful
  BY Answering, PTL

-----------------------------------------------------------------------------
(* Nothing is forgotten: the part of Answered that is a safety property. *)

\* A claimed command is in the hands of an agent that has still to answer it.
Worked ==
  \A c \in Cmds \ lost : cmd[c].status = "running" =>
    \E a \in Agents : ag[a].id = c /\ ag[a].pc # "restart"

\* A pending one an agent has been told of is still in its batch.
Heard ==
  \A a \in Agents : \A c \in ag[a].known :
    /\ cmd[c].status # "absent"
    /\ cmd[c].status = "pending" /\ c \notin lost => c \in ag[a].batch

\* No agent lets go of a command that it has not answered.
LEMMA WorkedKept ==
  ASSUME Types, Worked, lost \subseteq lost',
         \A c \in Cmds \ lost' : cmd'[c].status = "running" =>
           /\ cmd[c].status = "running"
           /\ \A a \in Agents : ag[a].id = c /\ ag[a].pc # "restart" =>
                ag'[a].id = c /\ ag'[a].pc # "restart"
  PROVE  Worked'
  BY DEF Worked

\* No command becomes pending, and no agent forgets which it was told.
LEMMA HeardKept ==
  ASSUME Types, Heard, lost \subseteq lost',
         \A c \in Cmds : /\ cmd'[c].status = "absent" => cmd[c].status = "absent"
                         /\ cmd'[c].status = "pending" => cmd[c].status = "pending",
         \A a \in Agents :
           \/ ag'[a].known = {}
           \/ /\ ag'[a].known = ag[a].known
              /\ \A c \in ag[a].batch \ ag'[a].batch :
                   cmd'[c].status = "pending" => c \in lost'
  PROVE  Heard'
<1> SUFFICES ASSUME NEW a \in Agents, NEW c \in ag'[a].known
             PROVE  /\ cmd'[c].status # "absent"
                    /\ cmd'[c].status = "pending" /\ c \notin lost' => c \in ag'[a].batch
  BY DEF Heard
<1>1. ag'[a].known = ag[a].known /\ c \in Cmds
  BY DEF Types, AgentTypes, Records
<1> QED BY <1>1 DEF Heard

LEMMA PushFollows ==
  ASSUME Types, Once, Worked, Heard, NEW c \in Cmds, PushCommand(c)
  PROVE  Worked' /\ Heard'
<1>1. /\ cmd[c].status = "absent" /\ UNCHANGED <<lost, ag>>
      /\ cmd'[c].status = "pending" /\ \A d \in Cmds \ {c} : cmd'[d] = cmd[d]
  BY DEF PushCommand, Types, CmdTypes
<1>2. Worked'
  BY <1>1 DEF Worked
<1>3. \A a \in Agents : c \notin ag[a].known /\ ag[a].known \subseteq Cmds
  BY <1>1 DEF Heard, Types, AgentTypes, Records
<1> QED BY <1>1, <1>2, <1>3 DEF Heard

LEMMA SnapshotFollows ==
  ASSUME Types, Worked, Heard, NEW a \in Agents, Snapshot(a) \/ CommandStreamEnds(a)
  PROVE  Worked' /\ Heard'
<1>1. /\ UNCHANGED <<cmd, lost>> /\ \A b \in Agents \ {a} : ag'[b] = ag[b]
      /\ ag'[a].id = ag[a].id /\ ag'[a].pc = ag[a].pc
  BY DEF Snapshot, CommandStreamEnds, cmdVars, Types, AgentTypes, Records
<1>2. Worked'
  BY <1>1, WorkedKept
<1>3. CASE CommandStreamEnds(a)
  <2>1. ag'[a].known = {}
    BY <1>3 DEF CommandStreamEnds, Types, AgentTypes, Records
  <2> QED BY <1>1, <1>2, <2>1, HeardKept
<1>4. CASE Snapshot(a)
  <2>1. ag'[a].known = Pending /\ ag'[a].batch = Pending \ ag[a].known /\ ag[a].batch = {}
    BY <1>4 DEF Snapshot, Types, AgentTypes, Records
  <2>2. \A c \in Pending : c \in ag[a].known => c \in lost
    BY <2>1 DEF Heard, Pending
  <2> QED BY <1>1, <1>2, <2>1, <2>2 DEF Heard, Pending
<1> QED BY <1>3, <1>4

LEMMA ClaimFollows ==
  ASSUME Types, Once, Worked, Heard, NEW a \in Agents, NEW c \in Cmds, claimCommand(a, c)
  PROVE  Worked' /\ Heard'
<1>1. ag[a].pc = "idle" /\ ag[a].id = NoCmd /\ lost \subseteq lost'
  BY DEF claimCommand, Types, AgentTypes, Fits
<1>2. /\ \A b \in Agents \ {a} : ag'[b] = ag[b]
      /\ ag'[a].known = ag[a].known /\ ag'[a].batch = ag[a].batch \ {c}
  BY DEF claimCommand, Take, Drop, Types, AgentTypes, Records
<1>3. \/ UNCHANGED cmd
      \/ cmd[c].status = "pending" /\ cmd'[c].status = "running"
         /\ \A d \in Cmds \ {c} : cmd'[d] = cmd[d]
  BY DEF claimCommand, Pending, Status, Types, CmdTypes, Docs
<1>4. c \in lost' \/ cmd'[c].status # "pending"
  BY DEF claimCommand, Pending, Status, Types, CmdTypes, Docs
<1>5. Heard'
  BY <1>1, <1>2, <1>3, <1>4, HeardKept
<1>6. cmd'[c].status = "running" /\ cmd[c].status # "running" /\ c \notin lost'
        => ag'[a].id = c /\ ag'[a].pc = "run"
  BY DEF claimCommand, Take, Types, AgentTypes, Records
<1>7. ASSUME NEW d \in Cmds \ lost', cmd'[d].status = "running"
      PROVE  \E b \in Agents : ag'[b].id = d /\ ag'[b].pc # "restart"
  <2>1. CASE cmd[d].status = "running"
    <3>1. PICK b \in Agents : ag[b].id = d /\ ag[b].pc # "restart"
      BY <1>1, <1>7, <2>1 DEF Worked
    <3>2. b # a
      BY <1>1, <3>1, CloudAgentAssumption
    <3> QED BY <1>2, <3>1, <3>2
  <2>2. CASE cmd[d].status # "running"
    BY <1>3, <1>6, <1>7, <2>2
  <2> QED BY <2>1, <2>2
<1> QED BY <1>5, <1>7 DEF Worked

LEMMA WorkFollows ==
  ASSUME Types, Once, Worked, Heard, NEW a \in Agents,
         handle(a) \/ AckCommand(a) \/ DoRestart(a)
  PROVE  Worked' /\ Heard'
<1> DEFINE c == ag[a].id
<1>1. /\ ag[a].pc \in {"run", "ack", "ack+restart", "restart"}
      /\ c # NoCmd /\ c \in Cmds /\ lost \subseteq lost'
  BY DEF handle, AckCommand, DoRestart, Types, AgentTypes, Fits, Records
<1>2. \A b \in Agents \ {a} : ag'[b] = ag[b] /\ ag[b].id # c
  BY <1>1, Holder DEF handle, Acks, AckCommand, DoRestart, Dies, Types, AgentTypes
<1>3. ag'[a].known = {} \/ (ag'[a].known = ag[a].known /\ ag'[a].batch = ag[a].batch)
  BY FreshFits DEF handle, Acks, AckCommand, DoRestart, Dies, Down, Fresh, Types, AgentTypes,
                   Records
<1>4. /\ cmd'[c].status \notin {"absent", "pending"}
      /\ \A d \in Cmds \ {c} : cmd'[d] = cmd[d]
  BY <1>1, Holder
     DEF handle, AckCommand, DoRestart, Status, Types, CmdTypes, AgentTypes, Records, Docs
<1>5. \/ c \in lost' \/ cmd'[c].status # "running" \/ ag[a].pc = "restart"
      \/ ag'[a].id = c /\ ag'[a].pc # "restart"
  BY <1>1 DEF handle, Acks, AckCommand, DoRestart, Status, Types, AgentTypes, CmdTypes, Records,
              Docs
<1>6. cmd'[c].status = "running" => c \in lost' \/ cmd[c].status = "running"
  BY <1>1 DEF handle, AckCommand, DoRestart, Status, Types, CmdTypes, AgentTypes, Records, Docs
<1> HIDE DEF c
<1>7. Heard'
  <2>1. \A d \in Cmds : /\ cmd'[d].status = "absent" => cmd[d].status = "absent"
                        /\ cmd'[d].status = "pending" => cmd[d].status = "pending"
    BY <1>4
  <2>2. \A b \in Agents : \/ ag'[b].known = {}
                          \/ ag'[b].known = ag[b].known /\ ag'[b].batch = ag[b].batch
    BY <1>2, <1>3
  <2> QED BY <1>1, <2>1, <2>2, HeardKept
<1>8. Worked'
  <2> SUFFICES ASSUME NEW d \in Cmds \ lost', cmd'[d].status = "running"
               PROVE  /\ cmd[d].status = "running"
                      /\ \A b \in Agents : ag[b].id = d /\ ag[b].pc # "restart" =>
                           ag'[b].id = d /\ ag'[b].pc # "restart"
    BY <1>1, WorkedKept
  <2>1. CASE d = c
    BY <1>2, <1>5, <1>6, <2>1 DEF c
  <2>2. CASE d # c
    BY <1>2, <1>4, <2>2 DEF c
  <2> QED BY <2>1, <2>2
<1> QED BY <1>7, <1>8

LEMMA ProcessFollows ==
  ASSUME Types, Worked, Heard, NEW a \in Agents, Starts(a) \/ Killed(a)
  PROVE  Worked' /\ Heard'
<1>1. /\ \A b \in Agents \ {a} : ag'[b] = ag[b]
      /\ ag'[a].known = {} /\ UNCHANGED cmd /\ lost \subseteq lost'
  BY DEF Starts, Killed, Dies, Down, Fresh, cmdVars, Types, AgentTypes
<1>2. ag[a].id # NoCmd => ag[a].id \in lost'
  BY DEF Starts, Killed, Up, Types, AgentTypes, Fits
<1>3. Worked'
  <2> SUFFICES ASSUME NEW d \in Cmds \ lost', cmd'[d].status = "running"
               PROVE  /\ cmd[d].status = "running"
                      /\ \A b \in Agents : ag[b].id = d /\ ag[b].pc # "restart" =>
                           ag'[b].id = d /\ ag'[b].pc # "restart"
    BY <1>1, WorkedKept
  <2> QED BY <1>1, <1>2, CloudAgentAssumption
<1>4. Heard'
  BY <1>1, HeardKept
<1> QED BY <1>3, <1>4

LEMMA FollowStep ==
  ASSUME Types, Once, Worked, Heard, [Next]_vars
  PROVE  Worked' /\ Heard'
<1>1. CASE CommandStep
  BY <1>1, PushFollows, SnapshotFollows, ClaimFollows, WorkFollows DEF CommandStep
<1>2. CASE ProcessStep
  BY <1>2, ProcessFollows, WorkFollows DEF ProcessStep
<1>3. CASE LineStep \/ SetRevoked \/ UNCHANGED vars
  <2>1. UNCHANGED <<cmd, lost, ag>>
    BY <1>3 DEF LineStep, SetRevoked, vars, WakeFrame, cmdVars, WakeStreamEnds, handleWake,
                BridgeSource, LineCloses, Deactivates, Wake, ViewerDial, RelayDrops, WakeEnded
  <2> QED BY <2>1 DEF Worked, Heard
<1> QED BY <1>1, <1>2, <1>3, StepCases

\* No command is forgotten unless a call about it failed or its agent was killed:
\* a claimed one is with an agent that has still to answer it, and a pending one is
\* in the batch of every agent that was told of it (WatchCommands, handle).
THEOREM NoCommandForgotten == Spec => [](Worked /\ Heard)
<1>1. Init => Worked /\ Heard
  <2>1. Init => \A a \in Agents : ag[a].known = {}
    BY DEF Init, Down, Fresh
  <2> QED BY <2>1 DEF Init, Worked, Heard
<1>2. Types /\ Once /\ Worked /\ Heard /\ [Next]_vars => Worked' /\ Heard'
  BY FollowStep
<1> QED BY <1>1, <1>2, Inductive, PTL DEF Spec

=============================================================================
