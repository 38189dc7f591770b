------------------------------ MODULE PtyFlow ------------------------------
(***************************************************************************)
(* Flow control between one proxy and its claude: who holds Server.mu and  *)
(* the write lock of the master file while the two kernel buffers of the   *)
(* pty are full.  HandleHostInput (server.go) forwards to the master while *)
(* it holds mu; parseClientInput forwards without it; masterPump needs mu  *)
(* after every read, before it can read again.                             *)
(*                                                                         *)
(* A unit is a fixed amount of bytes.  os.File serialises Write calls, so  *)
(* a call that blocks in the kernel also blocks the other writers.         *)
(***************************************************************************)
EXTENDS Integers, Sequences, FiniteSets

CONSTANTS
  Host,         \* the host stdin goroutine, if the proxy has one
  Remote,       \* clientReader goroutines of socket clients
  InCap,        \* units the pty holds towards claude
  OutCap,       \* units the pty holds from claude
  ChunkLen,     \* units of one input chunk
  MaxChunks,    \* bound: chunks each source sends
  MaxBurst      \* bound: units claude writes at a stretch

Source == Host \cup Remote

Free == "free"

ASSUME FlowAssumption ==
  /\ Host \cap Remote = {} /\ Cardinality(Host) <= 1 /\ Free \notin Source
  /\ {InCap, OutCap, ChunkLen, MaxBurst} \subseteq Nat \ {0}
  /\ MaxChunks \in Nat

VARIABLES
  mu,       \* Server.mu: Free or the host goroutine that holds it
  wlock,    \* write lock of the master file: Free or a source
  st,       \* per source: "read", "wantMu", "wantFd", "write"
  sent,     \* per source: chunks started
  left,     \* per source: units of the current chunk still to write
  stream,   \* history: every unit that entered the pty, as <<source, chunk>>
  unread,   \* length of the suffix of stream that claude has not read
  outq,     \* units claude wrote that the pump has not read
  pump,     \* "read" or "lock"
  burst     \* units claude is committed to write; 0 when it may read

flowVars == <<mu, wlock, st, sent, left, stream, unread, outq, pump, burst>>

FlowInit ==
  /\ mu = Free /\ wlock = Free
  /\ st = [s \in Source |-> "read"]
  /\ sent = [s \in Source |-> 0] /\ left = [s \in Source |-> 0]
  /\ stream = <<>> /\ unread = 0 /\ outq = 0 /\ pump = "read" /\ burst = 0

\* A source has read a chunk from its terminal or socket.
Receive(s) ==
  /\ st[s] = "read" /\ sent[s] < MaxChunks
  /\ sent' = [sent EXCEPT ![s] = @ + 1]
  /\ left' = [left EXCEPT ![s] = ChunkLen]
  /\ st' = [st EXCEPT ![s] = IF s \in Host THEN "wantMu" ELSE "wantFd"]
  /\ UNCHANGED <<mu, wlock, stream, unread, outq, pump, burst>>

\* Mutant of HostLock: the early return of a consumed key keeps mu.
HostLockKept(s) ==
  /\ st[s] = "wantMu" /\ mu = Free /\ mu' = s
  /\ \/ st' = [st EXCEPT ![s] = "read"]
     \/ st' = [st EXCEPT ![s] = "wantFd"]
  /\ UNCHANGED <<wlock, sent, left, stream, unread, outq, pump, burst>>

\* HandleHostInput: take mu, then either consume the key (wheel, page key,
\* nav mode) or forward it with mu still held.
HostLock(s) ==
  /\ st[s] = "wantMu" /\ mu = Free
  /\ \/ st' = [st EXCEPT ![s] = "read"] /\ UNCHANGED mu
     \/ st' = [st EXCEPT ![s] = "wantFd"] /\ mu' = s
  /\ UNCHANGED <<wlock, sent, left, stream, unread, outq, pump, burst>>

WriteStart(s) ==
  /\ st[s] = "wantFd" /\ wlock = Free
  /\ wlock' = s /\ st' = [st EXCEPT ![s] = "write"]
  /\ UNCHANGED <<mu, sent, left, stream, unread, outq, pump, burst>>

\* Mutant of WriteUnit: the lock is not held across a blocked write.
WriteUnitUnlocked(s) ==
  /\ st[s] = "write" /\ unread < InCap
  /\ stream' = Append(stream, <<s, sent[s]>>) /\ unread' = unread + 1
  /\ left' = [left EXCEPT ![s] = @ - 1]
  /\ wlock' = Free
  /\ \/ left[s] > 1 /\ st' = [st EXCEPT ![s] = "wantFd"] /\ UNCHANGED mu
     \/ left[s] = 1 /\ st' = [st EXCEPT ![s] = "read"]
        /\ mu' = IF mu = s THEN Free ELSE mu
  /\ UNCHANGED <<sent, outq, pump, burst>>

\* Mutant of WriteUnit: the unit is queued whether or not the kernel took it.
WriteUnitUnchecked(s) ==
  /\ st[s] = "write"
  /\ stream' = Append(stream, <<s, sent[s]>>) /\ unread' = unread + 1
  /\ left' = [left EXCEPT ![s] = @ - 1]
  /\ \/ left[s] > 1 /\ UNCHANGED <<mu, wlock, st>>
     \/ /\ left[s] = 1
        /\ wlock' = Free /\ st' = [st EXCEPT ![s] = "read"]
        /\ mu' = IF mu = s THEN Free ELSE mu
  /\ UNCHANGED <<sent, outq, pump, burst>>

\* The kernel takes a unit while it has room; the last one ends the call.
WriteUnit(s) ==
  /\ st[s] = "write" /\ unread < InCap
  /\ stream' = Append(stream, <<s, sent[s]>>) /\ unread' = unread + 1
  /\ left' = [left EXCEPT ![s] = @ - 1]
  /\ \/ left[s] > 1 /\ UNCHANGED <<mu, wlock, st>>
     \/ /\ left[s] = 1
        /\ wlock' = Free /\ st' = [st EXCEPT ![s] = "read"]
        /\ mu' = IF mu = s THEN Free ELSE mu
  /\ UNCHANGED <<sent, outq, pump, burst>>

PumpRead ==
  /\ pump = "read" /\ outq > 0
  /\ outq' = 0 /\ pump' = "lock"
  /\ UNCHANGED <<mu, wlock, st, sent, left, stream, unread, burst>>

\* Mutant of PumpRender: the pump also waits for the writers.
PumpRenderAfterWriters ==
  /\ pump = "lock" /\ mu = Free /\ wlock = Free /\ pump' = "read"
  /\ UNCHANGED <<mu, wlock, st, sent, left, stream, unread, outq, burst>>

\* Feed and broadcast under mu.
PumpRender ==
  /\ pump = "lock" /\ mu = Free /\ pump' = "read"
  /\ UNCHANGED <<mu, wlock, st, sent, left, stream, unread, outq, burst>>

\* claude is one thread with blocking writes to its terminal.
ClaudeReads ==
  /\ burst = 0 /\ unread > 0 /\ unread' = unread - 1
  /\ UNCHANGED <<mu, wlock, st, sent, left, stream, outq, pump, burst>>

ClaudeDraws ==
  /\ burst = 0 /\ burst' \in 1 .. MaxBurst
  /\ UNCHANGED <<mu, wlock, st, sent, left, stream, unread, outq, pump>>

ClaudeWrites ==
  /\ burst > 0 /\ outq < OutCap
  /\ burst' = burst - 1 /\ outq' = outq + 1
  /\ UNCHANGED <<mu, wlock, st, sent, left, stream, unread, pump>>

Writer(s) == HostLock(s) \/ WriteStart(s) \/ WriteUnit(s)
Pump      == PumpRead \/ PumpRender

FlowNext ==
  \/ \E s \in Source : Receive(s) \/ Writer(s)
  \/ Pump \/ ClaudeReads \/ ClaudeDraws \/ ClaudeWrites

\* Goroutines that can run do run; claude completes a write the pty has room
\* for and, between its redraws, comes back to read its input.
FlowSpec ==
  /\ FlowInit /\ [][FlowNext]_flowVars
  /\ \A s \in Source : WF_flowVars(Writer(s))
  /\ WF_flowVars(Pump) /\ WF_flowVars(ClaudeWrites) /\ SF_flowVars(ClaudeReads)

-----------------------------------------------------------------------------
FlowTypeOK ==
  /\ mu \in Host \cup {Free} /\ wlock \in Source \cup {Free}
  /\ st \in [Source -> {"read", "wantMu", "wantFd", "write"}]
  /\ sent \in [Source -> 0 .. MaxChunks] /\ left \in [Source -> 0 .. ChunkLen]
  /\ stream \in Seq(Source \X (1 .. MaxChunks))
  /\ unread \in 0 .. InCap /\ outq \in 0 .. OutCap
  /\ pump \in {"read", "lock"} /\ burst \in 0 .. MaxBurst

\* The bytes of one forwarded chunk reach claude contiguously: another
\* source's keys never land inside them, even when the pty fills half-way
\* (parseClientInput writes without Server.mu and relies on this).
ChunksContiguous ==
  \A i, j \in DOMAIN stream :
    (i < j /\ stream[i] = stream[j]) => \A k \in i .. j : stream[k] = stream[i]

\* The one way this system can seize up: the host goroutine sleeps in a
\* forward with mu held (in its own write, or behind the blocked write of a
\* socket client), the pty is full in both directions, and the pump waits
\* for mu.
Gridlock ==
  /\ mu \in Host /\ wlock # Free /\ unread = InCap
  /\ pump = "lock" /\ outq = OutCap /\ burst > 0

\* claude, blocked on a full terminal, is drained by the proxy no matter how
\* much unread input the clients have sent it: a clientReader that blocks in
\* its write holds no lock the pump needs.  Only the host's forward may stop
\* it, and only by the gridlock above.
ClaudeDrained == burst > 0 ~> burst = 0 \/ Gridlock

\* Every chunk read from a source reaches the pty completely, or the system
\* is in that gridlock.
InputForwardedOrGridlock ==
  \A s \in Source : st[s] # "read" ~> st[s] = "read" \/ Gridlock
=============================================================================
