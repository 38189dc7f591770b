---------------------------- MODULE ProxyServer ----------------------------
(***************************************************************************)
(* The server half of one PTY proxy: internal/ptyproxy/server.go and the   *)
(* lifecycle around it in run.go.  Goroutines: masterPump (reads claude's  *)
(* output, feeds the VT model, broadcasts frames), the accept loop, one    *)
(* clientReader per unix-socket client, the timer goroutines of the        *)
(* synchronized-output valve, RunProxy itself and the goroutine that       *)
(* serves a cancelled context.                                             *)
(*                                                                         *)
(* The screen is abstracted to a version number: ver counts the reads the  *)
(* VT has been fed, hostShown and shown[c] the version last written to the *)
(* host terminal and to client c.  Every critical section of Server.mu     *)
(* that only does bounded work is one action.                              *)
(***************************************************************************)
EXTENDS Integers, Sequences, FiniteSets, FiniteSetsExt

CONSTANTS
  Clients,        \* socket clients that may connect, each once
  NoClient,       \* the accept loop holds no connection
  MaxOut,         \* bound: tokens claude writes in a behaviour
  MaxRead,        \* tokens one master.Read can return (the 4096-byte buffer)
  Hold,           \* syncHoldMax, in clock ticks
  HasHost,        \* is there a host terminal (Server.host # nil)?
  HangupOnExit,   \* does the child's exit end master.Read although the proxy
                  \* itself still holds the slave tty? (BSD revoke: yes, Linux: no)
  ErrWithData     \* may master.Read return bytes together with its error?

ASSUME ProxyAssumption ==
  /\ IsFiniteSet(Clients) /\ NoClient \notin Clients
  /\ MaxOut \in Nat /\ MaxRead \in Nat \ {0} /\ Hold \in Nat \ {0}
  /\ {HasHost, HangupOnExit, ErrWithData} \subseteq BOOLEAN

None     == -1                         \* time.Time{}: no hold in progress
Token    == {"bsu", "esu", "txt"}      \* DECSET 2026 on, off, anything else

VARIABLES
  pipe,       \* claude's output the proxy has not read yet
  inFrame,    \* claude is between its BSU and its ESU
  emitted,    \* tokens written so far (bounds the model)
  childGone,  \* the claude process has exited
  ptyClosed,  \* Proxy.Close: master and tty closed
  cancel,     \* progress of the context goroutine: "no", "closed", "killed"
  ver, sync,  \* VT model: version and syncActive
  syncStart,  \* None, or the age of Server.syncStart in ticks
  timer,      \* Server.syncTimer: "none", "armed", "fired"
  valves,     \* syncValve goroutines that wait for mu
  clients,    \* Server.clients
  connected,  \* Counters.ConnectedClients
  conn,       \* per client: state of its connection
  reader,     \* per client: is its clientReader running
  shown, hostShown,
  accepting,  \* connection the accept loop holds, not yet registered
  listening, done, statusOn, statusFile, sockFile,
  pc          \* program counters of "pump" and "main" (RunProxy)

claudeVars == <<pipe, inFrame, emitted>>
holdVars   == <<syncStart, timer, valves>>
vtVars     == <<ver, sync>>
viewVars   == <<clients, connected, shown, hostShown>>
connVars   == <<conn, reader>>
lifeVars   == <<childGone, ptyClosed, cancel, listening, done, statusOn,
                statusFile, sockFile>>
vars == <<claudeVars, holdVars, vtVars, viewVars, connVars, lifeVars,
          accepting, pc>>

-----------------------------------------------------------------------------
Init ==
  /\ pipe = <<>> /\ inFrame = FALSE /\ emitted = 0
  /\ childGone = FALSE /\ ptyClosed = FALSE /\ cancel = "no"
  /\ ver = 0 /\ sync = FALSE
  /\ syncStart = None /\ timer = "none" /\ valves = 0
  /\ clients = {} /\ connected = 0
  /\ conn = [c \in Clients |-> "none"]
  /\ reader = [c \in Clients |-> FALSE]
  /\ shown = [c \in Clients |-> 0] /\ hostShown = 0
  /\ accepting = NoClient /\ listening = TRUE /\ done = FALSE
  /\ statusOn = FALSE /\ statusFile = FALSE /\ sockFile = TRUE
  /\ pc = [pump |-> "read", main |-> "enable"]

Goto(p, l) == pc' = [pc EXCEPT ![p] = l]

(***************************************************************************)
(* The claude process: writes frames bracketed by BSU and ESU, and exits.  *)
(***************************************************************************)
ClaudeWrite(t) ==
  /\ ~childGone /\ ~ptyClosed /\ emitted < MaxOut
  /\ t = "bsu" => ~inFrame
  /\ t = "esu" => inFrame
  /\ pipe' = Append(pipe, t)
  /\ inFrame' = (t = "bsu" \/ (inFrame /\ t = "txt"))
  /\ emitted' = emitted + 1
  /\ UNCHANGED <<holdVars, vtVars, viewVars, connVars, lifeVars, accepting, pc>>

ClaudeExit ==
  /\ ~childGone /\ childGone' = TRUE
  /\ UNCHANGED <<claudeVars, holdVars, vtVars, viewVars, connVars, ptyClosed,
                 cancel, listening, done, statusOn, statusFile, sockFile,
                 accepting, pc>>

-----------------------------------------------------------------------------
(***************************************************************************)
(* Rendering.  A write to a client may fail (2 s deadline, peer gone) and  *)
(* must fail on a connection this process closed; the client is then       *)
(* closed and unregistered (renderClientLocked, clientGoneLocked).         *)
(***************************************************************************)
Dead == {c \in Clients : conn[c] = "closed"}

\* Mutant of ClientGone: the counter moves for clients already unregistered.
ClientGoneTwice(G) ==
  /\ clients' = clients \ G
  /\ connected' = connected - Cardinality(G)
  /\ conn' = [c \in Clients |-> IF c \in G THEN "closed" ELSE conn[c]]

\* Every client of G is unregistered, its connection closed; the counter
\* moves once per client that really was registered.
ClientGone(G) ==
  /\ clients' = clients \ G
  /\ connected' = connected - Cardinality(clients \cap G)
  /\ conn' = [c \in Clients |-> IF c \in G THEN "closed" ELSE conn[c]]

\* Render version v to the clients of R, the writes to those of F fail.
RenderClients(R, F, v) ==
  /\ F \subseteq R /\ R \cap Dead \subseteq F
  /\ ClientGone(F)
  /\ shown' = [c \in Clients |-> IF c \in R \ F THEN v ELSE shown[c]]

\* broadcastLocked: the host and every registered client.
Broadcast(v) ==
  /\ \E F \in SUBSET clients : RenderClients(clients, F, v)
  /\ hostShown' = IF HasHost THEN v ELSE hostShown

-----------------------------------------------------------------------------
(***************************************************************************)
(* masterPump.                                                             *)
(***************************************************************************)
Marks(chunk) == {i \in DOMAIN chunk : chunk[i] # "txt"}

\* VT.syncActive after the chunk: what its last 2026 marker says.
SyncAfter(chunk) ==
  IF Marks(chunk) = {} THEN sync ELSE chunk[Max(Marks(chunk))] = "bsu"

Feed(chunk) ==
  /\ ver' = ver + 1
  /\ sync' = SyncAfter(chunk)

\* maybeWriteStatusLocked: throttled and written on change only.
MaybeWriteStatus ==
  statusFile' \in IF statusOn THEN {statusFile, TRUE} ELSE {statusFile}

Held == syncStart = None \/ syncStart < Hold

\* Mutant of GateHold: the valve timer is never armed.
GateHoldUnarmed ==
  /\ sync' /\ Held
  /\ syncStart' = IF syncStart = None THEN 0 ELSE syncStart
  /\ UNCHANGED <<timer, viewVars, conn>>

\* Lines 219-248: hold a frame that is still open, otherwise broadcast.
GateHold ==
  /\ sync' /\ Held
  /\ syncStart' = IF syncStart = None THEN 0 ELSE syncStart
  /\ timer' = IF syncStart = None THEN "armed" ELSE timer
  /\ UNCHANGED <<viewVars, conn>>

GateExpired ==
  /\ sync' /\ ~Held
  /\ Broadcast(ver')
  /\ UNCHANGED <<syncStart, timer>>

GateClosed ==
  /\ ~sync'
  /\ syncStart' = None /\ timer' = "none"
  /\ Broadcast(ver')

\* The read fails once the pty is closed, or once the child is gone, its
\* output drained and the kernel reports the hangup.
ReadError == ptyClosed \/ (childGone /\ HangupOnExit)

PumpRead(n) ==
  /\ pc.pump = "read" /\ ~ptyClosed
  /\ n <= Len(pipe)
  /\ LET chunk == SubSeq(pipe, 1, n)
         last  == ErrWithData /\ n = Len(pipe) /\ ReadError
     IN /\ pipe' = SubSeq(pipe, n + 1, Len(pipe))
        /\ Feed(chunk)
        /\ MaybeWriteStatus
        /\ \/ /\ GateHold
              /\ IF last THEN Goto("pump", "flush") ELSE UNCHANGED pc
           \/ /\ GateExpired \/ GateClosed
              /\ IF last THEN Goto("pump", "stop") ELSE UNCHANGED pc
  /\ UNCHANGED <<inFrame, emitted, valves, reader, childGone, ptyClosed,
                 cancel, listening, done, statusOn, sockFile, accepting>>

\* Lines 232-238: the read that brought the error left a frame on hold.
PumpFlush ==
  /\ pc.pump = "flush"
  /\ UNCHANGED <<vtVars, claudeVars, holdVars, reader, lifeVars, accepting>>
  /\ Broadcast(ver)
  /\ Goto("pump", "stop")

\* Mutant of PumpError: the pump ends without calling Stop.
PumpErrorNoStop ==
  /\ pc.pump = "read" /\ ReadError
  /\ ptyClosed \/ pipe = <<>>
  /\ Goto("pump", "end")
  /\ UNCHANGED <<claudeVars, holdVars, vtVars, viewVars, connVars, lifeVars,
                 accepting>>

\* Lines 251-253: an error without data.
PumpError ==
  /\ pc.pump = "read" /\ ReadError
  /\ ptyClosed \/ pipe = <<>>
  /\ Goto("pump", "stop")
  /\ UNCHANGED <<claudeVars, holdVars, vtVars, viewVars, connVars, lifeVars,
                 accepting>>

-----------------------------------------------------------------------------
(***************************************************************************)
(* The valve: time.AfterFunc(syncHoldMax, syncValve).  A timer that has    *)
(* fired cannot be stopped: its goroutine then waits for mu.               *)
(***************************************************************************)
Tick ==
  /\ syncStart # None /\ syncStart < Hold
  /\ syncStart' = syncStart + 1
  /\ UNCHANGED <<claudeVars, timer, valves, vtVars, viewVars, connVars,
                 lifeVars, accepting, pc>>

TimerFires ==
  /\ timer = "armed" /\ syncStart = Hold
  /\ timer' = "fired" /\ valves' = valves + 1
  /\ UNCHANGED <<claudeVars, syncStart, vtVars, viewVars, connVars, lifeVars,
                 accepting, pc>>

\* Mutant of SyncValve: it only acts when no frame is on hold.
SyncValveIdle ==
  /\ valves > 0 /\ valves' = valves - 1
  /\ UNCHANGED <<vtVars, claudeVars, syncStart, timer, reader, lifeVars,
                 accepting, pc>>
  /\ \/ sync /\ syncStart = None /\ Broadcast(ver)
     \/ ~(sync /\ syncStart = None) /\ UNCHANGED <<viewVars, conn>>

SyncValve ==
  /\ valves > 0 /\ valves' = valves - 1
  /\ UNCHANGED <<vtVars, claudeVars, syncStart, timer, reader, lifeVars,
                 accepting, pc>>
  /\ \/ sync /\ syncStart # None /\ Broadcast(ver)
     \/ ~(sync /\ syncStart # None) /\ UNCHANGED <<viewVars, conn>>

\* SetHostSize, and every render of the host's own scroll view.
RenderHost ==
  /\ HasHost /\ hostShown # ver
  /\ hostShown' = ver
  /\ UNCHANGED <<claudeVars, holdVars, vtVars, clients, connected, shown,
                 connVars, lifeVars, accepting, pc>>

-----------------------------------------------------------------------------
(***************************************************************************)
(* Clients: acceptLoop, clientReader, dropClient.                          *)
(***************************************************************************)
Connect(c) ==
  /\ listening /\ conn[c] = "none"
  /\ conn' = [conn EXCEPT ![c] = "backlog"]
  /\ UNCHANGED <<claudeVars, holdVars, vtVars, viewVars, reader, lifeVars,
                 accepting, pc>>

Accept(c) ==
  /\ listening /\ conn[c] = "backlog" /\ accepting = NoClient
  /\ accepting' = c
  /\ conn' = [conn EXCEPT ![c] = "open"]
  /\ UNCHANGED <<claudeVars, holdVars, vtVars, viewVars, reader, lifeVars, pc>>

\* Mutant of Register: no catch-up render.
RegisterBlank(c) ==
  /\ accepting = c /\ accepting' = NoClient
  /\ reader' = [reader EXCEPT ![c] = TRUE]
  /\ clients' = clients \cup {c} /\ connected' = connected + 1
  /\ UNCHANGED <<claudeVars, holdVars, vtVars, shown, hostShown, conn,
                 lifeVars, pc>>

\* Mutant of Register: a catch-up render that fails forgets the counter.
RegisterLeaks(c) ==
  /\ accepting = c /\ accepting' = NoClient
  /\ reader' = [reader EXCEPT ![c] = TRUE]
  /\ connected' = connected + 1
  /\ \E failed \in BOOLEAN :
       /\ clients' = IF failed THEN clients ELSE clients \cup {c}
       /\ shown' = [shown EXCEPT ![c] = IF failed THEN @ ELSE ver]
       /\ conn' = [conn EXCEPT ![c] = IF failed THEN "closed" ELSE @]
  /\ UNCHANGED <<claudeVars, holdVars, vtVars, hostShown, lifeVars, pc>>

\* Lines 168-173: register, count, catch-up render, start the reader.  The
\* render may already fail and unregister the client again.
Register(c) ==
  /\ accepting = c /\ accepting' = NoClient
  /\ reader' = [reader EXCEPT ![c] = TRUE]
  /\ \E failed \in BOOLEAN :
       /\ clients' = IF failed THEN clients ELSE clients \cup {c}
       /\ connected' = IF failed THEN connected ELSE connected + 1
       /\ shown' = [shown EXCEPT ![c] = IF failed THEN @ ELSE ver]
       /\ conn' = [conn EXCEPT ![c] = IF failed THEN "closed" ELSE @]
  /\ UNCHANGED <<claudeVars, holdVars, vtVars, hostShown, lifeVars, pc>>

PeerCloses(c) ==
  /\ conn[c] = "open"
  /\ conn' = [conn EXCEPT ![c] = "peerGone"]
  /\ UNCHANGED <<claudeVars, holdVars, vtVars, viewVars, reader, lifeVars,
                 accepting, pc>>

\* A RESIZE or SCROLL frame of the client: re-render it (parseClientInput).
\* Bytes read before the connection was closed are still acted upon.
ClientFrame(c) ==
  /\ reader[c] /\ shown[c] # ver
  /\ \E F \in SUBSET {c} : RenderClients({c}, F, ver)
  /\ UNCHANGED <<claudeVars, holdVars, vtVars, hostShown, reader,
                 lifeVars, accepting, pc>>

\* conn.Read fails: dropClient, and the goroutine ends.
ReaderEnds(c) ==
  /\ reader[c] /\ conn[c] \in {"peerGone", "closed"}
  /\ reader' = [reader EXCEPT ![c] = FALSE]
  /\ ClientGone({c} \cap clients)
  /\ UNCHANGED <<claudeVars, holdVars, vtVars, shown, hostShown, lifeVars,
                 accepting, pc>>

-----------------------------------------------------------------------------
(***************************************************************************)
(* Stop, called by masterPump at its end and by RunProxy's deferred        *)
(* cleanup, possibly at the same time.                                     *)
(***************************************************************************)
StopDone(p) ==
  /\ pc[p] = "stop" /\ done' = TRUE
  /\ Goto(p, "unlisten")
  /\ UNCHANGED <<claudeVars, holdVars, vtVars, viewVars, connVars, childGone,
                 ptyClosed, cancel, listening, statusOn, statusFile, sockFile,
                 accepting>>

\* Closing the listener unlinks the socket and resets the backlog.
StopListener(p) ==
  /\ pc[p] = "unlisten"
  /\ listening' = FALSE /\ sockFile' = FALSE
  /\ conn' = [c \in Clients |-> IF conn[c] = "backlog" THEN "closed" ELSE conn[c]]
  /\ Goto(p, "sweep")
  /\ UNCHANGED <<claudeVars, holdVars, vtVars, viewVars, reader, childGone,
                 ptyClosed, cancel, done, statusOn, statusFile, accepting>>

StopSweep(p) ==
  /\ pc[p] = "sweep"
  /\ conn' = [c \in Clients |-> IF c \in clients THEN "closed" ELSE conn[c]]
  /\ Goto(p, IF p = "pump" THEN "end" ELSE "remove")
  /\ UNCHANGED <<claudeVars, holdVars, vtVars, viewVars, reader, lifeVars,
                 accepting>>

Stop(p) == StopDone(p) \/ StopListener(p) \/ StopSweep(p)

-----------------------------------------------------------------------------
(***************************************************************************)
(* RunProxy: enable the status file, wait for the child, wait for the      *)
(* pump, clean up, return.                                                 *)
(***************************************************************************)
MainEnable ==
  /\ pc.main = "enable" /\ statusOn' = TRUE
  /\ Goto("main", "wait")
  /\ UNCHANGED <<claudeVars, holdVars, vtVars, viewVars, connVars, childGone,
                 ptyClosed, cancel, listening, done, statusFile, sockFile,
                 accepting>>

MainWait ==
  /\ pc.main = "wait" /\ childGone
  /\ Goto("main", "drain")
  /\ UNCHANGED <<claudeVars, holdVars, vtVars, viewVars, connVars, lifeVars,
                 accepting>>

\* Mutant of MainDrain: do not wait for the pump.
MainDrainEarly ==
  /\ pc.main = "drain"
  /\ Goto("main", "stop")
  /\ UNCHANGED <<claudeVars, holdVars, vtVars, viewVars, connVars, lifeVars,
                 accepting>>

MainDrain ==
  /\ pc.main = "drain" /\ done
  /\ Goto("main", "stop")
  /\ UNCHANGED <<claudeVars, holdVars, vtVars, viewVars, connVars, lifeVars,
                 accepting>>

MainRemove ==
  /\ pc.main = "remove"
  /\ sockFile' = FALSE /\ statusFile' = FALSE
  /\ Goto("main", "exiting")
  /\ UNCHANGED <<claudeVars, holdVars, vtVars, viewVars, connVars, childGone,
                 ptyClosed, cancel, listening, done, statusOn, accepting>>

MainReturn ==
  /\ pc.main = "exiting" /\ ptyClosed' = TRUE
  /\ Goto("main", "returned")
  /\ UNCHANGED <<claudeVars, holdVars, vtVars, viewVars, connVars, childGone,
                 cancel, listening, done, statusOn, statusFile, sockFile,
                 accepting>>

\* The context is cancelled (SIGHUP, SIGTERM): close the pty, kill the child.
CtxClose ==
  /\ cancel = "no" /\ pc.main # "enable"
  /\ cancel' = "closed" /\ ptyClosed' = TRUE
  /\ UNCHANGED <<claudeVars, holdVars, vtVars, viewVars, connVars, childGone,
                 listening, done, statusOn, statusFile, sockFile, accepting, pc>>

CtxKill ==
  /\ cancel = "closed" /\ cancel' = "killed" /\ childGone' = TRUE
  /\ UNCHANGED <<claudeVars, holdVars, vtVars, viewVars, connVars, ptyClosed,
                 listening, done, statusOn, statusFile, sockFile, accepting, pc>>

-----------------------------------------------------------------------------
Returned == pc.main = "returned"      \* the process exits with RunProxy

Pump   == (\E n \in 1 .. MaxRead : PumpRead(n)) \/ PumpFlush \/ PumpError
Claude == (\E t \in Token : ClaudeWrite(t)) \/ ClaudeExit
Valve  == TimerFires \/ SyncValve
Main   == MainEnable \/ MainWait \/ MainDrain \/ MainRemove \/ MainReturn
Client(c) ==
  \/ Connect(c) \/ Accept(c) \/ Register(c)
  \/ PeerCloses(c) \/ ClientFrame(c) \/ ReaderEnds(c)

Next ==
  \/ /\ ~Returned
     /\ \/ Claude \/ Pump \/ Tick \/ Valve \/ RenderHost
        \/ Main \/ Stop("pump") \/ Stop("main") \/ CtxClose \/ CtxKill
        \/ \E c \in Clients : Client(c)
  \/ Returned /\ UNCHANGED vars

Spec == Init /\ [][Next]_vars

\* The scheduler runs every goroutine that can run, timers fire, and a read
\* that has data or an error returns.  Nothing is assumed of claude, of the
\* peers or of the context.
Fairness ==
  /\ WF_vars(~Returned /\ Pump) /\ WF_vars(~Returned /\ Main)
  /\ WF_vars(~Returned /\ (Stop("pump") \/ Stop("main")))
  /\ WF_vars(~Returned /\ Tick) /\ WF_vars(~Returned /\ TimerFires)
  /\ WF_vars(~Returned /\ SyncValve) /\ WF_vars(~Returned /\ CtxKill)
  /\ \A c \in Clients : /\ WF_vars(~Returned /\ Register(c))
                        /\ WF_vars(~Returned /\ ReaderEnds(c))

FairSpec == Spec /\ Fairness

-----------------------------------------------------------------------------
(***************************************************************************)
(* Properties.                                                             *)
(***************************************************************************)
PumpPC == {"read", "flush", "stop", "unlisten", "sweep", "end"}
MainPC == {"enable", "wait", "drain", "stop", "unlisten", "sweep", "remove",
           "exiting", "returned"}

\* Every variable stays in the range the code gives it.
TypeOK ==
  /\ pipe \in Seq(Token) /\ inFrame \in BOOLEAN /\ emitted \in Nat
  /\ childGone \in BOOLEAN /\ ptyClosed \in BOOLEAN
  /\ cancel \in {"no", "closed", "killed"}
  /\ ver \in Nat /\ sync \in BOOLEAN
  /\ syncStart \in {None} \cup 0 .. Hold
  /\ timer \in {"none", "armed", "fired"} /\ valves \in Nat
  /\ clients \subseteq Clients /\ connected \in Nat
  /\ conn \in [Clients -> {"none", "backlog", "open", "peerGone", "closed"}]
  /\ reader \in [Clients -> BOOLEAN]
  /\ shown \in [Clients -> Nat] /\ hostShown \in Nat
  /\ accepting \in Clients \cup {NoClient}
  /\ listening \in BOOLEAN /\ done \in BOOLEAN
  /\ statusOn \in BOOLEAN /\ statusFile \in BOOLEAN /\ sockFile \in BOOLEAN
  /\ pc \in [{"pump", "main"} -> PumpPC \cup MainPC]
  /\ pc.pump \in PumpPC /\ pc.main \in MainPC

\* The ConnectedClients counter, which IdleGC trusts to decide whether a
\* proxy may be killed, always equals the number of registered clients,
\* however render failures, reader errors and Stop interleave
\* (clientGoneLocked's promise to be the one idempotent exit).
CountersAgree == connected = Cardinality(clients)

\* A registered client always has a reader that will notice its end, so no
\* dead client is rendered to, or counted, forever.
Watched == \A c \in clients : reader[c]

\* Whenever no frame is on hold, the host and every registered client show
\* the newest screen: no read, attach, failed write or timer loses an update.
Fresh ==
  syncStart = None =>
    /\ HasHost => hostShown = ver
    /\ \A c \in clients : shown[c] = ver

\* A hold exists exactly while the VT is inside a BSU..ESU section.
HoldIsSync == (syncStart = None) <=> ~sync

\* A viewer that lags behind because of a hold is covered by the valve: the
\* timer is still armed, or has fired and its goroutine waits for mu.  (Once
\* the pump has stopped the process is about to exit.)
HoldCovered ==
  (\E c \in clients : shown[c] # ver) \/ (HasHost /\ hostShown # ver)
    => timer = "armed" \/ valves > 0

\* RunProxy leaves neither its socket nor its status file behind: it waits
\* for the pump, the only writer of the status file, before it removes them.
NoFilesLeft ==
  pc.main \in {"exiting", "returned"} => ~statusFile /\ ~sockFile

\* Where client c is with this proxy.
At(c) ==
  IF conn[c] = "none" THEN "out"
  ELSE IF c \in clients THEN "in"
  ELSE IF conn[c] = "backlog" \/ accepting = c THEN "dialled"
  ELSE "left"

\* What start, attach and the idle GC take a proxy to be, of everything above.
PL == INSTANCE ProxyLife WITH
        phase <- IF Returned THEN "gone"
                 ELSE IF childGone \/ ptyClosed THEN "closing" ELSE "up",
        sock  <- sockFile,
        at    <- [c \in Clients |-> At(c)],
        count <- connected

\* Seen through its socket and its counter the server is the proxy Lifecycle
\* works with: it can be reached until claude or a signal has ended it, however
\* renders, readers, the accept loop and both calls of Stop interleave; a client is
\* counted once when it comes and once when it goes; the socket is gone before
\* RunProxy returns.
ImplementsLife == PL!Spec

\* A frame the proxy holds back is eventually shown to every client that
\* stays, even if claude never closes it (syncHoldMax, "the screen must not
\* freeze"), unless the proxy exits first.
FrameReleased ==
  \A c \in Clients :
    (c \in clients /\ shown[c] # ver)
      ~> (c \notin clients \/ shown[c] = ver \/ Returned)

\* When claude exits RunProxy returns (run.go: the end of the child gives
\* EOF on the master, which makes masterPump stop and close done).
RunProxyReturns == childGone ~> Returned
=============================================================================
