------------------------- MODULE ProxyServerProofs -------------------------
(***************************************************************************)
(* Proofs about ProxyServer, for every set of clients, every amount of     *)
(* output, every length of syncHoldMax, with or without a host terminal,   *)
(* and however the kernel reports the child's exit.                        *)
(*                                                                         *)
(* The argument has four parts, one conjunct of IInv each: who is          *)
(* registered (Conns), when a frame is on hold (Holds), who lags behind    *)
(* the screen and why (Views), and who may still write files (Files).      *)
(***************************************************************************)
EXTENDS ProxyServer, FiniteSetTheorems, SequenceTheorems, TLAPS

\* Once accepted, a connection is never again one the accept loop can take.
Accepted(c) == conn[c] \notin {"none", "backlog"}

\* A registered client is counted, watched and accepted; the connection the
\* accept loop holds is not registered yet.
Conns ==
  /\ clients \subseteq Clients
  /\ CountersAgree
  /\ Watched
  /\ \A c \in clients : Accepted(c)
  /\ accepting # NoClient => Accepted(accepting) /\ accepting \notin clients

\* The timer follows the hold, and fires only when the hold has run out.
Holds ==
  /\ HoldIsSync
  /\ timer = "none" <=> syncStart = None
  /\ timer = "fired" => syncStart = Hold

Views == Fresh /\ HoldCovered

\* Past the drain, the pump has seen its last read.
Files ==
  /\ NoFilesLeft
  /\ done => pc.pump \in {"unlisten", "sweep", "end"}
  /\ pc.main \in {"stop", "unlisten", "sweep", "remove", "exiting", "returned"} => done

IInv == TypeOK /\ Conns /\ Holds /\ Views /\ Files

-----------------------------------------------------------------------------
(* Clients leave. *)

\* However many of the clients of G were registered, the counter follows.
LEMMA GoneCounts ==
  ASSUME TypeOK, Conns, NEW G, ClientGone(G)
  PROVE  /\ clients' = clients \ G /\ CountersAgree' /\ connected' \in Nat
         /\ conn' \in [Clients -> {"none", "backlog", "open", "peerGone", "closed"}]
         /\ \A c \in Clients : conn'[c] = conn[c] \/ conn'[c] = "closed"
<1>1. clients' = clients \ G /\ connected' = connected - Cardinality(clients \cap G)
      /\ conn' = [c \in Clients |-> IF c \in G THEN "closed" ELSE conn[c]]
  BY DEF ClientGone
<1>2. IsFiniteSet(clients) /\ connected = Cardinality(clients)
  BY ProxyAssumption, FS_Subset DEF Conns, CountersAgree
<1>3. IsFiniteSet(clients \ G) /\ Cardinality(clients \ G) = Cardinality(clients) - Cardinality(clients \cap G)
  BY <1>2, FS_Difference
<1>4. Cardinality(clients \ G) \in Nat
  BY <1>3, FS_CardinalityType
<1> QED BY <1>1, <1>2, <1>3, <1>4 DEF TypeOK, CountersAgree

\* Every render makes some registered clients leave, and touches no other
\* connection.
LEMMA BroadcastGone ==
  ASSUME NEW v, Broadcast(v)
  PROVE  \E G \in SUBSET clients : ClientGone(G)
  BY DEF Broadcast, RenderClients

-----------------------------------------------------------------------------
(* The steps, by what they can change. *)

\* The steps of masterPump that show something, or hold it back.
PumpStep == (\E n \in 1 .. MaxRead : PumpRead(n)) \/ PumpFlush

\* The steps of one client's connection.
ConnStep(c) ==
  \/ Connect(c) \/ Accept(c) \/ Register(c)
  \/ PeerCloses(c) \/ ClientFrame(c) \/ ReaderEnds(c)

\* The steps that change no client, no hold and no screen.
QuietStep ==
  \/ Claude \/ PumpError \/ Main \/ CtxClose \/ CtxKill
  \/ StopDone("pump") \/ StopDone("main")

LEMMA StepCases ==
  ASSUME [Next]_vars
  PROVE  \/ PumpStep \/ Tick \/ TimerFires \/ SyncValve \/ RenderHost \/ QuietStep
         \/ \E c \in Clients : ConnStep(c)
         \/ \E p \in {"pump", "main"} : StopListener(p) \/ StopSweep(p)
         \/ UNCHANGED vars
  BY DEF Next, Pump, Valve, Stop, Client, ConnStep, PumpStep, QuietStep

\* A quiet step leaves the clients, the hold and the screens alone.
LEMMA Quiet ==
  ASSUME QuietStep \/ UNCHANGED vars
  PROVE  UNCHANGED <<clients, connected, shown, hostShown, conn, reader,
                     syncStart, timer, valves, ver, sync, accepting>>
<1>1. CASE Claude
  BY <1>1 DEF Claude, ClaudeWrite, ClaudeExit, holdVars, vtVars, viewVars, connVars
<1>2. CASE PumpError
  BY <1>2 DEF PumpError, holdVars, vtVars, viewVars, connVars
<1>3. CASE Main
  BY <1>3 DEF Main, MainEnable, MainWait, MainDrain, MainRemove, MainReturn,
              holdVars, vtVars, viewVars, connVars
<1>4. CASE CtxClose \/ CtxKill
  BY <1>4 DEF CtxClose, CtxKill, holdVars, vtVars, viewVars, connVars
<1>5. CASE StopDone("pump") \/ StopDone("main")
  BY <1>5 DEF StopDone, holdVars, vtVars, viewVars, connVars
<1>6. CASE UNCHANGED vars
  BY <1>6 DEF vars, holdVars, vtVars, viewVars, connVars
<1> QED BY <1>1, <1>2, <1>3, <1>4, <1>5, <1>6 DEF QuietStep

\* What a read does to the clients: a render, or nothing.
LEMMA PumpShows ==
  ASSUME PumpStep
  PROVE  /\ \/ UNCHANGED <<viewVars, conn>>
            \/ Broadcast(ver')
         /\ UNCHANGED <<reader, accepting, valves>>
<1>1. ASSUME NEW n \in 1 .. MaxRead, PumpRead(n)
      PROVE  /\ UNCHANGED <<viewVars, conn>> \/ Broadcast(ver')
             /\ UNCHANGED <<reader, accepting, valves>>
  BY <1>1 DEF PumpRead, GateHold, GateExpired, GateClosed
<1>2. CASE PumpFlush
  <2>1. ver' = ver
    BY <1>2 DEF PumpFlush, vtVars
  <2>2. Broadcast(ver)
    BY <1>2 DEF PumpFlush
  <2> QED BY <1>2, <2>1, <2>2 DEF PumpFlush, holdVars
<1> QED BY <1>1, <1>2 DEF PumpStep

-----------------------------------------------------------------------------
(* Who is registered. *)

\* Clients leave, their readers run on.
LEMMA GoneKeepsConns ==
  ASSUME TypeOK, Conns, NEW G \in SUBSET Clients, ClientGone(G),
         UNCHANGED accepting, \A c \in clients \ G : reader'[c]
  PROVE  Conns'
<1>1. /\ clients' = clients \ G /\ CountersAgree'
      /\ \A c \in Clients : conn'[c] = conn[c] \/ conn'[c] = "closed"
  BY GoneCounts
<1>2. accepting' # NoClient => accepting \in Clients
  BY DEF TypeOK
<1>3. \A c \in Clients : Accepted(c) => Accepted(c)'
  BY <1>1 DEF Accepted
<1>4. Watched'
  BY <1>1 DEF Watched
<1> QED BY <1>1, <1>2, <1>3, <1>4 DEF Conns

LEMMA ConnStepKeepsConns ==
  ASSUME TypeOK, Conns, NEW c \in Clients, ConnStep(c)
  PROVE  Conns'
<1>1. /\ clients \subseteq Clients /\ IsFiniteSet(clients) /\ CountersAgree /\ Watched
      /\ \A d \in clients : Accepted(d)
      /\ (accepting # NoClient => accepting \in Clients /\ Accepted(accepting) /\ accepting \notin clients)
      /\ NoClient \notin Clients
      /\ conn \in [Clients -> {"none", "backlog", "open", "peerGone", "closed"}]
      /\ reader \in [Clients -> BOOLEAN]
  BY ProxyAssumption, FS_Subset DEF TypeOK, Conns
<1>2. ASSUME Connect(c) \/ Accept(c) \/ PeerCloses(c) PROVE Conns'
  <2>1. UNCHANGED <<clients, connected, reader>> /\ CountersAgree' /\ Watched'
    BY <1>1, <1>2 DEF Connect, Accept, PeerCloses, viewVars, CountersAgree, Watched
  <2>2. \A d \in Clients : Accepted(d) => Accepted(d)'
    BY <1>1, <1>2 DEF Connect, Accept, PeerCloses, Accepted
  <2>3. accepting' # NoClient => Accepted(accepting)' /\ accepting' \notin clients
    <3>1. CASE Connect(c) \/ PeerCloses(c)
      <4>1. accepting' = accepting
        BY <3>1 DEF Connect, PeerCloses
      <4> QED BY <1>1, <2>2, <4>1 DEF Accepted
    <3>2. CASE Accept(c)
      <4>1. accepting' = c /\ conn[c] = "backlog" /\ conn' = [conn EXCEPT ![c] = "open"]
        BY <3>2 DEF Accept
      <4>2. conn'[c] = "open" /\ c \notin clients
        BY <1>1, <4>1 DEF Accepted
      <4> QED BY <4>1, <4>2 DEF Accepted
    <3> QED BY <1>2, <3>1, <3>2
  <2> QED BY <1>1, <2>1, <2>2, <2>3 DEF Conns
<1>3. ASSUME Register(c) PROVE Conns'
  <2>1. /\ accepting = c /\ accepting' = NoClient /\ c \notin clients /\ Accepted(c)
        /\ reader' = [reader EXCEPT ![c] = TRUE]
    BY <1>1, <1>3, ProxyAssumption DEF Register
  <2>2. PICK failed \in BOOLEAN :
          /\ clients' = IF failed THEN clients ELSE clients \cup {c}
          /\ connected' = IF failed THEN connected ELSE connected + 1
          /\ conn' = [conn EXCEPT ![c] = IF failed THEN "closed" ELSE @]
    BY <1>3 DEF Register
  <2>3. CountersAgree'
    <3>1. CASE failed
      BY <1>1, <2>2, <3>1 DEF CountersAgree
    <3>2. CASE ~failed
      <4>1. Cardinality(clients \cup {c}) = Cardinality(clients) + 1
        BY <1>1, <2>1, FS_AddElement
      <4> QED BY <1>1, <2>2, <3>2, <4>1 DEF CountersAgree
    <3> QED BY <2>2, <3>1, <3>2
  <2>4. Watched' /\ clients' \subseteq Clients
    BY <1>1, <2>1, <2>2 DEF Watched
  <2>5. \A d \in clients' : Accepted(d)'
    BY <1>1, <2>1, <2>2 DEF Accepted
  <2> QED BY <2>1, <2>3, <2>4, <2>5 DEF Conns
<1>4. ASSUME ClientFrame(c) PROVE Conns'
  <2>1. \E G \in SUBSET Clients : ClientGone(G)
    BY <1>4 DEF ClientFrame, RenderClients
  <2>2. UNCHANGED <<accepting, reader>>
    BY <1>4 DEF ClientFrame
  <2> QED BY <1>1, <2>1, <2>2, GoneKeepsConns DEF Watched
<1>5. ASSUME ReaderEnds(c) PROVE Conns'
  <2>1. /\ ClientGone({c} \cap clients) /\ UNCHANGED accepting
        /\ reader' = [reader EXCEPT ![c] = FALSE]
    BY <1>5 DEF ReaderEnds
  <2>2. \A d \in clients \ ({c} \cap clients) : reader'[d]
    BY <1>1, <2>1 DEF Watched
  <2> QED BY <1>1, <2>1, <2>2, GoneKeepsConns
<1> QED BY <1>2, <1>3, <1>4, <1>5 DEF ConnStep

LEMMA ConnsKept == TypeOK /\ Conns /\ [Next]_vars => Conns'
<1> SUFFICES ASSUME TypeOK, Conns, [Next]_vars PROVE Conns'
  OBVIOUS
<1>1. ASSUME UNCHANGED <<clients, connected, conn, reader, accepting>> PROVE Conns'
  BY <1>1 DEF Conns, CountersAgree, Watched, Accepted
<1>2. ASSUME \E G \in SUBSET clients : ClientGone(G), UNCHANGED <<reader, accepting>>
      PROVE  Conns'
  <2>1. \A c \in clients : reader'[c]
    BY <1>2 DEF Conns, Watched
  <2> QED BY <1>2, <2>1, GoneKeepsConns DEF Conns
<1>3. CASE PumpStep
  <2>1. UNCHANGED <<viewVars, conn>> \/ \E G \in SUBSET clients : ClientGone(G)
    BY <1>3, PumpShows DEF Broadcast, RenderClients
  <2> QED BY <1>1, <1>2, <1>3, <2>1, PumpShows DEF viewVars
<1>4. CASE Tick \/ TimerFires \/ RenderHost
  BY <1>1, <1>4 DEF Tick, TimerFires, RenderHost, viewVars, connVars
<1>5. CASE SyncValve
  <2>1. UNCHANGED <<viewVars, conn>> \/ \E G \in SUBSET clients : ClientGone(G)
    BY <1>5 DEF SyncValve, Broadcast, RenderClients
  <2> QED BY <1>1, <1>2, <1>5, <2>1 DEF SyncValve, viewVars
<1>6. CASE QuietStep \/ UNCHANGED vars
  BY <1>1, <1>6, Quiet
<1>7. ASSUME NEW c \in Clients, ConnStep(c) PROVE Conns'
  BY <1>7, ConnStepKeepsConns
<1>8. ASSUME NEW p \in {"pump", "main"}, StopListener(p) \/ StopSweep(p) PROVE Conns'
  <2>1. /\ UNCHANGED <<clients, connected, reader, accepting>>
        /\ \A c \in Clients : conn'[c] = conn[c] \/ (conn'[c] = "closed")
    BY <1>8 DEF StopListener, StopSweep, viewVars
  <2>2. \A c \in Clients : Accepted(c) => Accepted(c)'
    BY <2>1 DEF Accepted
  <2>3. accepting # NoClient => accepting \in Clients
    BY DEF TypeOK
  <2> QED BY <2>1, <2>2, <2>3 DEF Conns, CountersAgree, Watched
<1> QED BY <1>3, <1>4, <1>5, <1>6, <1>7, <1>8, StepCases

-----------------------------------------------------------------------------
(* When a frame is on hold. *)

\* A read leaves the hold in step with the screen, and the timer with both.
LEMMA PumpReadHolds ==
  ASSUME TypeOK, Holds, NEW n \in 1 .. MaxRead, PumpRead(n)
  PROVE  Holds'
<1>1. /\ syncStart \in {None} \cup 0 .. Hold /\ Hold \in Nat \ {0} /\ None \notin 0 .. Hold
  BY ProxyAssumption DEF TypeOK, None
<1>2. CASE GateHold
  <2>1. /\ sync' /\ Held /\ syncStart' = (IF syncStart = None THEN 0 ELSE syncStart)
        /\ timer' = IF syncStart = None THEN "armed" ELSE timer
    BY <1>2 DEF GateHold
  <2>2. syncStart' # None /\ HoldIsSync'
    BY <1>1, <2>1, ProxyAssumption DEF HoldIsSync, None
  <2>3. timer' # "none" /\ timer' # "fired"
    BY <1>1, <2>1 DEF Holds, Held
  <2> QED BY <2>2, <2>3 DEF Holds
<1>3. CASE GateExpired
  BY <1>3 DEF GateExpired, Held, Holds, HoldIsSync
<1>4. CASE GateClosed
  BY <1>4 DEF GateClosed, Holds, HoldIsSync
<1> QED BY <1>2, <1>3, <1>4 DEF PumpRead

LEMMA HoldsKept == TypeOK /\ Holds /\ [Next]_vars => Holds'
<1> SUFFICES ASSUME TypeOK, Holds, [Next]_vars PROVE Holds'
  OBVIOUS
<1>1. ASSUME UNCHANGED <<syncStart, timer, sync>> PROVE Holds'
  BY <1>1 DEF Holds, HoldIsSync
<1>2. CASE PumpStep
  BY <1>1, <1>2, PumpReadHolds DEF PumpStep, PumpFlush, holdVars, vtVars
<1>3. CASE Tick
  <2>1. /\ syncStart # None /\ syncStart < Hold /\ syncStart' = syncStart + 1
        /\ UNCHANGED <<timer, sync>>
    BY <1>3 DEF Tick, vtVars
  <2>2. syncStart \in {None} \cup 0 .. Hold /\ Hold \in Nat
    BY ProxyAssumption DEF TypeOK
  <2>3. syncStart' # None /\ syncStart # Hold
    BY <2>1, <2>2 DEF None
  <2> QED BY <2>1, <2>3 DEF Holds, HoldIsSync
<1>4. CASE TimerFires
  BY <1>4 DEF TimerFires, vtVars, Holds, HoldIsSync
<1>5. CASE SyncValve \/ RenderHost
  BY <1>1, <1>5 DEF SyncValve, RenderHost, holdVars, vtVars
<1>6. CASE QuietStep \/ UNCHANGED vars
  BY <1>1, <1>6, Quiet
<1>7. ASSUME NEW c \in Clients, ConnStep(c) PROVE Holds'
  BY <1>1, <1>7 DEF ConnStep, Connect, Accept, Register, PeerCloses, ClientFrame,
                    ReaderEnds, holdVars, vtVars
<1>8. ASSUME NEW p \in {"pump", "main"}, StopListener(p) \/ StopSweep(p) PROVE Holds'
  BY <1>1, <1>8 DEF StopListener, StopSweep, holdVars, vtVars
<1> QED BY <1>2, <1>3, <1>4, <1>5, <1>6, <1>7, <1>8, StepCases

-----------------------------------------------------------------------------
(* Who lags behind the screen, and why. *)

\* Nobody lags.
AllFresh ==
  /\ HasHost => hostShown = ver
  /\ \A c \in clients : shown[c] = ver

\* Views, with the lag named.
LEMMA ViewsIs ==
  Views <=> (AllFresh \/ (syncStart # None /\ (timer = "armed" \/ valves > 0)))
  BY DEF Views, Fresh, HoldCovered, AllFresh

\* After a broadcast nobody lags.
LEMMA BroadcastFresh ==
  ASSUME clients \subseteq Clients, Broadcast(ver')
  PROVE  AllFresh'
<1>1. PICK F \in SUBSET clients : RenderClients(clients, F, ver')
  BY DEF Broadcast
<1>2. clients' = clients \ F /\ shown' = [c \in Clients |-> IF c \in clients \ F THEN ver' ELSE shown[c]]
  BY <1>1 DEF RenderClients, ClientGone
<1>3. hostShown' = IF HasHost THEN ver' ELSE hostShown
  BY DEF Broadcast
<1> QED BY <1>2, <1>3 DEF AllFresh

LEMMA PumpReadViews ==
  ASSUME TypeOK, Conns, Holds, NEW n \in 1 .. MaxRead, PumpRead(n)
  PROVE  Views'
<1>1. clients \subseteq Clients
  BY DEF Conns
<1>2. CASE GateExpired \/ GateClosed
  <2>1. Broadcast(ver')
    BY <1>2 DEF GateExpired, GateClosed
  <2>2. AllFresh'
    BY <1>1, <2>1, BroadcastFresh
  <2> QED BY <2>2 DEF Views, Fresh, HoldCovered, AllFresh
<1>3. CASE GateHold
  <2>1. /\ syncStart \in {None} \cup 0 .. Hold /\ Hold \in Nat \ {0}
        /\ timer \in {"none", "armed", "fired"}
    BY ProxyAssumption DEF TypeOK
  <2>2. /\ sync' /\ Held /\ syncStart' = (IF syncStart = None THEN 0 ELSE syncStart)
        /\ timer' = IF syncStart = None THEN "armed" ELSE timer
    BY <1>3 DEF GateHold
  <2>3. syncStart' # None /\ timer' = "armed"
    BY <2>1, <2>2 DEF Holds, Held, None
  <2> QED BY <2>3 DEF Views, Fresh, HoldCovered
<1> QED BY <1>2, <1>3 DEF PumpRead

LEMMA ViewsKept == TypeOK /\ Conns /\ Holds /\ Views /\ [Next]_vars => Views'
<1> SUFFICES ASSUME TypeOK, Conns, Holds, Views, [Next]_vars PROVE Views'
  OBVIOUS
<1>1. /\ clients \subseteq Clients /\ valves \in Nat /\ shown \in [Clients -> Nat]
      /\ conn \in [Clients -> {"none", "backlog", "open", "peerGone", "closed"}]
  BY DEF TypeOK
<1>2. ASSUME AllFresh' PROVE Views'
  BY <1>2 DEF Views, Fresh, HoldCovered, AllFresh
<1>3. ASSUME UNCHANGED <<hostShown, clients, shown, ver, syncStart, timer, valves>>
      PROVE  Views'
  BY <1>3 DEF Views, Fresh, HoldCovered
<1>4. CASE PumpStep
  <2>1. ASSUME PumpFlush PROVE Views'
    <3>1. ver' = ver /\ Broadcast(ver)
      BY <2>1 DEF PumpFlush, vtVars
    <3>2. Broadcast(ver')
      BY <3>1
    <3> QED BY <1>1, <1>2, <3>2, BroadcastFresh
  <2> QED BY <1>4, <2>1, PumpReadViews DEF PumpStep
<1>5. CASE Tick
  <2>1. /\ syncStart # None /\ syncStart < Hold /\ syncStart' = syncStart + 1
        /\ UNCHANGED <<timer, valves, ver, clients, shown, hostShown>>
    BY <1>5 DEF Tick, vtVars, viewVars
  <2>2. syncStart \in {None} \cup 0 .. Hold /\ Hold \in Nat
    BY ProxyAssumption DEF TypeOK
  <2>3. syncStart' # None
    BY <2>1, <2>2 DEF None
  <2> QED BY <2>1, <2>3 DEF Views, Fresh, HoldCovered
<1>6. CASE TimerFires
  <2>1. /\ valves' = valves + 1 /\ UNCHANGED <<syncStart, ver, clients, shown, hostShown>>
    BY <1>6 DEF TimerFires, vtVars, viewVars
  <2>2. valves' > 0
    BY <1>1, <2>1
  <2> QED BY <2>1, <2>2 DEF Views, Fresh, HoldCovered
<1>7. CASE SyncValve
  <2>1. ver' = ver
    BY <1>7 DEF SyncValve, vtVars
  <2>2. CASE sync /\ syncStart # None
    <3>1. Broadcast(ver')
      BY <1>7, <2>1, <2>2 DEF SyncValve
    <3> QED BY <1>1, <1>2, <3>1, BroadcastFresh
  <2>3. CASE ~(sync /\ syncStart # None)
    <3>1. AllFresh
      BY <2>3 DEF Holds, HoldIsSync, Views, Fresh, AllFresh
    <3>2. UNCHANGED <<clients, shown, hostShown>>
      BY <1>7, <2>3 DEF SyncValve, viewVars
    <3> QED BY <1>2, <2>1, <3>1, <3>2 DEF AllFresh
  <2> QED BY <2>2, <2>3
<1>8. CASE RenderHost
  <2>1. hostShown' = ver /\ UNCHANGED <<clients, shown, ver, syncStart, timer, valves>>
    BY <1>8 DEF RenderHost, vtVars, holdVars
  <2> QED BY <2>1 DEF Views, Fresh, HoldCovered
<1>9. CASE QuietStep \/ UNCHANGED vars
  BY <1>3, <1>9, Quiet
<1>10. ASSUME NEW c \in Clients, ConnStep(c) PROVE Views'
  <2>1. UNCHANGED <<hostShown, ver, syncStart, timer, valves>>
    BY <1>10 DEF ConnStep, Connect, Accept, Register, PeerCloses, ClientFrame,
                 ReaderEnds, holdVars, vtVars, viewVars
  <2>2. CASE Connect(c) \/ Accept(c) \/ PeerCloses(c)
    BY <1>3, <2>1, <2>2 DEF Connect, Accept, PeerCloses, viewVars
  <2>3. \A d \in clients' : (d \in clients /\ shown'[d] = shown[d]) \/ shown'[d] = ver
    <3>1. CASE Connect(c) \/ Accept(c) \/ PeerCloses(c)
      BY <3>1 DEF Connect, Accept, PeerCloses, viewVars
    <3>2. CASE Register(c)
      BY <1>1, <3>2 DEF Register
    <3>3. CASE ClientFrame(c)
      BY <1>1, <3>3 DEF ClientFrame, RenderClients, ClientGone
    <3>4. CASE ReaderEnds(c)
      BY <3>4 DEF ReaderEnds, ClientGone
    <3> QED BY <1>10, <3>1, <3>2, <3>3, <3>4 DEF ConnStep
  <2> QED BY <2>1, <2>3 DEF Views, Fresh, HoldCovered
<1>11. ASSUME NEW p \in {"pump", "main"}, StopListener(p) \/ StopSweep(p) PROVE Views'
  BY <1>3, <1>11 DEF StopListener, StopSweep, holdVars, vtVars, viewVars
<1> QED BY <1>4, <1>5, <1>6, <1>7, <1>8, <1>9, <1>10, <1>11, StepCases

-----------------------------------------------------------------------------
(* Who may still write files. *)

\* What a step of RunProxy's own goroutine, or of Stop, does to the two
\* program counters.
LEMMA GotoMoves ==
  ASSUME TypeOK, NEW p \in {"pump", "main"}, NEW l, Goto(p, l)
  PROVE  /\ pc'[p] = l
         /\ \A q \in {"pump", "main"} : q # p => pc'[q] = pc[q]
  BY DEF TypeOK, Goto

LEMMA FilesKept == TypeOK /\ Files /\ [Next]_vars => Files'
<1> SUFFICES ASSUME TypeOK, Files, [Next]_vars PROVE Files'
  OBVIOUS
<1> USE DEF Files, NoFilesLeft
<1>1. ASSUME UNCHANGED <<pc, done, statusFile, sockFile>> PROVE Files'
  BY <1>1
<1>2. CASE PumpStep
  <2>1. pc.pump \in {"read", "flush"} /\ done' = done /\ ~done /\ sockFile' = sockFile
    BY <1>2 DEF PumpStep, PumpRead, PumpFlush, lifeVars
  <2>2. pc.main \notin {"stop", "unlisten", "sweep", "remove", "exiting", "returned"}
    BY <2>1
  <2>3. pc'.main = pc.main
    BY <1>2, GotoMoves DEF PumpStep, PumpRead, PumpFlush
  <2> QED BY <2>1, <2>2, <2>3
<1>3. CASE Tick \/ TimerFires \/ SyncValve \/ RenderHost \/ UNCHANGED vars
  BY <1>1, <1>3 DEF Tick, TimerFires, SyncValve, RenderHost, lifeVars, vars
<1>4. ASSUME NEW c \in Clients, ConnStep(c) PROVE Files'
  BY <1>1, <1>4 DEF ConnStep, Connect, Accept, Register, PeerCloses, ClientFrame,
                    ReaderEnds, lifeVars
<1>5. ASSUME NEW p \in {"pump", "main"}, StopListener(p) PROVE Files'
  <2>1. pc[p] = "unlisten" /\ pc'[p] = "sweep" /\ done' = done /\ statusFile' = statusFile
        /\ sockFile' = FALSE /\ \A q \in {"pump", "main"} : q # p => pc'[q] = pc[q]
    BY <1>5, GotoMoves DEF StopListener
  <2> QED BY <2>1
<1>6. ASSUME NEW p \in {"pump", "main"}, StopSweep(p) PROVE Files'
  <2>1. pc[p] = "sweep" /\ pc'[p] = (IF p = "pump" THEN "end" ELSE "remove")
        /\ UNCHANGED <<done, statusFile, sockFile>>
        /\ \A q \in {"pump", "main"} : q # p => pc'[q] = pc[q]
    BY <1>6, GotoMoves DEF StopSweep, lifeVars
  <2> QED BY <2>1
<1>7. ASSUME NEW p \in {"pump", "main"}, StopDone(p) PROVE Files'
  <2>1. pc[p] = "stop" /\ pc'[p] = "unlisten" /\ done' = TRUE
        /\ UNCHANGED <<statusFile, sockFile>>
        /\ \A q \in {"pump", "main"} : q # p => pc'[q] = pc[q]
    BY <1>7, GotoMoves DEF StopDone
  <2> QED BY <2>1
<1>8. CASE Claude \/ CtxClose \/ CtxKill
  BY <1>1, <1>8 DEF Claude, ClaudeWrite, ClaudeExit, CtxClose, CtxKill, lifeVars
<1>9. CASE PumpError
  <2>1. pc.pump = "read" /\ pc'.main = pc.main /\ UNCHANGED <<done, statusFile, sockFile>>
    BY <1>9, GotoMoves DEF PumpError, lifeVars
  <2> QED BY <2>1
<1>10. CASE Main
  <2>1. CASE MainEnable
    <3>1. pc'.main = "wait" /\ pc'.pump = pc.pump /\ UNCHANGED <<done, statusFile, sockFile>>
      BY <2>1, GotoMoves DEF MainEnable
    <3> QED BY <3>1
  <2>2. CASE MainWait
    <3>1. pc'.main = "drain" /\ pc'.pump = pc.pump /\ UNCHANGED <<done, statusFile, sockFile>>
      BY <2>2, GotoMoves DEF MainWait, lifeVars
    <3> QED BY <3>1
  <2>3. CASE MainDrain
    <3>1. done /\ pc'.main = "stop" /\ pc'.pump = pc.pump /\ UNCHANGED <<done, statusFile, sockFile>>
      BY <2>3, GotoMoves DEF MainDrain, lifeVars
    <3> QED BY <3>1
  <2>4. CASE MainRemove
    <3>1. pc.main = "remove" /\ pc'.main = "exiting" /\ pc'.pump = pc.pump
          /\ done' = done /\ ~statusFile' /\ ~sockFile'
      BY <2>4, GotoMoves DEF MainRemove
    <3> QED BY <3>1
  <2>5. CASE MainReturn
    <3>1. pc.main = "exiting" /\ pc'.main = "returned" /\ pc'.pump = pc.pump
          /\ UNCHANGED <<done, statusFile, sockFile>>
      BY <2>5, GotoMoves DEF MainReturn
    <3> QED BY <3>1
  <2> QED BY <1>10, <2>1, <2>2, <2>3, <2>4, <2>5 DEF Main
<1> QED BY <1>2, <1>3, <1>4, <1>5, <1>6, <1>7, <1>8, <1>9, <1>10, StepCases DEF QuietStep

-----------------------------------------------------------------------------
(* Every variable in its range. *)

\* The ranges of what a render writes.
ViewTypes ==
  /\ clients \subseteq Clients /\ connected \in Nat
  /\ shown \in [Clients -> Nat] /\ hostShown \in Nat
  /\ conn \in [Clients -> {"none", "backlog", "open", "peerGone", "closed"}]

\* A broadcast keeps the views in their range.
LEMMA BroadcastTypes ==
  ASSUME TypeOK, Conns, ver' \in Nat, Broadcast(ver')
  PROVE  ViewTypes'
<1>1. PICK F \in SUBSET clients : RenderClients(clients, F, ver')
  BY DEF Broadcast
<1>2. ClientGone(F) /\ shown' = [c \in Clients |-> IF c \in clients \ F THEN ver' ELSE shown[c]]
  BY <1>1 DEF RenderClients
<1>3. clients' \subseteq Clients /\ connected' \in Nat
      /\ conn' \in [Clients -> {"none", "backlog", "open", "peerGone", "closed"}]
  BY <1>2, GoneCounts DEF TypeOK
<1>4. shown' \in [Clients -> Nat]
  BY <1>2 DEF TypeOK
<1>5. hostShown' \in Nat
  BY DEF Broadcast, TypeOK
<1> QED BY <1>3, <1>4, <1>5 DEF ViewTypes

LEMMA PumpReadTypes ==
  ASSUME TypeOK, Conns, NEW n \in 1 .. MaxRead, PumpRead(n)
  PROVE  TypeOK'
<1> DEFINE chunk == SubSeq(pipe, 1, n)
           last  == ErrWithData /\ n = Len(pipe) /\ ReadError
<1>1. /\ pc.pump = "read" /\ n <= Len(pipe) /\ n \in Nat /\ n > 0
      /\ pipe' = SubSeq(pipe, n + 1, Len(pipe)) /\ Feed(chunk) /\ MaybeWriteStatus
      /\ \/ GateHold /\ IF last THEN Goto("pump", "flush") ELSE UNCHANGED pc
         \/ (GateExpired \/ GateClosed) /\ IF last THEN Goto("pump", "stop") ELSE UNCHANGED pc
      /\ UNCHANGED <<inFrame, emitted, valves, reader, childGone, ptyClosed,
                     cancel, listening, done, statusOn, sockFile, accepting>>
  BY ProxyAssumption DEF PumpRead
<1>2. pipe' \in Seq(Token)
  <2> DEFINE a == n + 1
             b == Len(pipe)
  <2>1. a \in Int /\ b \in Int /\ \A i \in a .. b : pipe[i] \in Token
    BY <1>1 DEF TypeOK
  <2> HIDE DEF a, b
  <2>2. SubSeq(pipe, a, b) \in Seq(Token)
    BY <2>1, SubSeqProperties
  <2> QED BY <1>1, <2>2 DEF a, b
<1> HIDE DEF chunk, last
<1>3. ver' \in Nat /\ sync' \in BOOLEAN
  <2>1. ver' = ver + 1 /\ sync' = SyncAfter(chunk)
    BY <1>1 DEF Feed
  <2>2. ver \in Nat /\ sync \in BOOLEAN
    BY DEF TypeOK
  <2>3. ver' \in Nat
    BY <2>1, <2>2
  <2>4. sync' \in BOOLEAN
    BY <2>1, <2>2, Zenon DEF SyncAfter
  <2> QED BY <2>3, <2>4
<1>4. statusFile' \in BOOLEAN
  BY <1>1 DEF MaybeWriteStatus, TypeOK
<1>5. pc' \in [{"pump", "main"} -> PumpPC \cup MainPC] /\ pc'.pump \in PumpPC /\ pc'.main \in MainPC
  BY <1>1 DEF TypeOK, Goto, PumpPC
<1>6. syncStart' \in {None} \cup 0 .. Hold /\ timer' \in {"none", "armed", "fired"}
  BY <1>1, ProxyAssumption DEF GateHold, GateExpired, GateClosed, TypeOK
<1>7. ViewTypes'
  <2>1. CASE GateHold
    BY <2>1 DEF GateHold, viewVars, TypeOK, ViewTypes
  <2>2. CASE GateExpired \/ GateClosed
    BY <1>3, <2>2, BroadcastTypes DEF GateExpired, GateClosed
  <2> QED BY <1>1, <2>1, <2>2
<1> QED BY <1>1, <1>2, <1>3, <1>4, <1>5, <1>6, <1>7 DEF TypeOK, ViewTypes

LEMMA ConnStepTypes ==
  ASSUME TypeOK, Conns, NEW c \in Clients, ConnStep(c)
  PROVE  TypeOK'
<1>1. UNCHANGED <<claudeVars, holdVars, vtVars, hostShown, lifeVars, pc>>
  BY DEF ConnStep, Connect, Accept, Register, PeerCloses, ClientFrame, ReaderEnds, viewVars
<1>2. /\ pipe' \in Seq(Token) /\ inFrame' \in BOOLEAN /\ emitted' \in Nat
      /\ childGone' \in BOOLEAN /\ ptyClosed' \in BOOLEAN
      /\ cancel' \in {"no", "closed", "killed"}
      /\ ver' \in Nat /\ sync' \in BOOLEAN
      /\ hostShown' \in Nat
      /\ syncStart' \in {None} \cup 0 .. Hold
      /\ timer' \in {"none", "armed", "fired"} /\ valves' \in Nat
      /\ listening' \in BOOLEAN /\ done' \in BOOLEAN
      /\ statusOn' \in BOOLEAN /\ statusFile' \in BOOLEAN /\ sockFile' \in BOOLEAN
      /\ pc' \in [{"pump", "main"} -> PumpPC \cup MainPC]
      /\ pc'.pump \in PumpPC /\ pc'.main \in MainPC
  BY <1>1 DEF TypeOK, claudeVars, holdVars, vtVars, lifeVars
<1>3. /\ clients' \subseteq Clients /\ connected' \in Nat /\ shown' \in [Clients -> Nat]
      /\ conn' \in [Clients -> {"none", "backlog", "open", "peerGone", "closed"}]
      /\ reader' \in [Clients -> BOOLEAN] /\ accepting' \in Clients \cup {NoClient}
  <2>1. CASE Connect(c)
    BY <2>1 DEF Connect, viewVars, TypeOK
  <2>2. CASE Accept(c)
    BY <2>2 DEF Accept, viewVars, TypeOK
  <2>3. CASE PeerCloses(c)
    BY <2>3 DEF PeerCloses, viewVars, TypeOK
  <2>4. CASE Register(c)
    BY <2>4 DEF Register, TypeOK
  <2>5. CASE ClientFrame(c)
    <3>1. PICK F \in SUBSET {c} : RenderClients({c}, F, ver)
      BY <2>5 DEF ClientFrame
    <3>2. ClientGone(F) /\ shown' = [d \in Clients |-> IF d \in {c} \ F THEN ver ELSE shown[d]]
      BY <3>1 DEF RenderClients
    <3>3. UNCHANGED <<reader, accepting>>
      BY <2>5 DEF ClientFrame
    <3> QED BY <3>2, <3>3, GoneCounts DEF TypeOK
  <2>6. CASE ReaderEnds(c)
    <3>1. ClientGone({c} \cap clients) /\ UNCHANGED <<accepting, shown>>
          /\ reader' = [reader EXCEPT ![c] = FALSE]
      BY <2>6 DEF ReaderEnds
    <3> QED BY <3>1, GoneCounts DEF TypeOK
  <2> QED BY <2>1, <2>2, <2>3, <2>4, <2>5, <2>6 DEF ConnStep
<1> QED BY <1>2, <1>3 DEF TypeOK

LEMMA TypesKept == TypeOK /\ Conns /\ [Next]_vars => TypeOK'
<1> SUFFICES ASSUME TypeOK, Conns, [Next]_vars PROVE TypeOK'
  OBVIOUS
<1>1. CASE PumpStep
  <2>1. CASE PumpFlush
    <3>1. ver' = ver /\ Broadcast(ver)
      BY <2>1 DEF PumpFlush, vtVars
    <3>2. ver' \in Nat /\ Broadcast(ver')
      BY <3>1 DEF TypeOK
    <3>3. ViewTypes'
      BY <3>2, BroadcastTypes
    <3>4. pc' \in [{"pump", "main"} -> PumpPC \cup MainPC] /\ pc'.pump \in PumpPC /\ pc'.main \in MainPC
      BY <2>1 DEF PumpFlush, Goto, TypeOK, PumpPC
    <3>5. UNCHANGED <<vtVars, claudeVars, holdVars, reader, lifeVars, accepting>>
      BY <2>1 DEF PumpFlush
    <3> QED BY <3>3, <3>4, <3>5 DEF TypeOK, ViewTypes, vtVars, claudeVars, holdVars, lifeVars
  <2> QED BY <1>1, <2>1, PumpReadTypes DEF PumpStep
<1>2. CASE Tick
  <2>1. /\ syncStart # None /\ syncStart < Hold /\ syncStart' = syncStart + 1
        /\ UNCHANGED <<claudeVars, timer, valves, vtVars, viewVars, connVars,
                       lifeVars, accepting, pc>>
    BY <1>2 DEF Tick
  <2>2. Hold \in Nat \ {0}
    BY ProxyAssumption
  <2>3. syncStart' \in {None} \cup 0 .. Hold
    BY <2>1, <2>2 DEF TypeOK, None
  <2> QED BY <2>1, <2>3 DEF TypeOK, claudeVars, vtVars, viewVars, connVars, lifeVars
<1>3. CASE TimerFires
  <2>1. valves' \in Nat /\ timer' = "fired"
    BY <1>3 DEF TimerFires, TypeOK
  <2> QED BY <1>3, <2>1 DEF TimerFires, TypeOK, claudeVars, vtVars, viewVars, connVars, lifeVars
<1>4. CASE SyncValve
  <2>1. valves' \in Nat /\ ver' = ver
    BY <1>4 DEF SyncValve, TypeOK, vtVars
  <2>2. ViewTypes'
    <3>1. CASE sync /\ syncStart # None
      <4>1. Broadcast(ver') /\ ver' \in Nat
        BY <1>4, <2>1, <3>1 DEF SyncValve, TypeOK
      <4> QED BY <4>1, BroadcastTypes
    <3>2. CASE ~(sync /\ syncStart # None)
      <4>1. UNCHANGED <<viewVars, conn>>
        BY <1>4, <3>2 DEF SyncValve
      <4>2. ViewTypes
        BY DEF TypeOK, ViewTypes
      <4> QED BY <4>1, <4>2 DEF viewVars, ViewTypes
    <3> QED BY <3>1, <3>2
  <2>3. UNCHANGED <<vtVars, claudeVars, syncStart, timer, reader, lifeVars, accepting, pc>>
    BY <1>4 DEF SyncValve
  <2> QED BY <2>1, <2>2, <2>3 DEF TypeOK, ViewTypes, vtVars, claudeVars, lifeVars
<1>5. CASE RenderHost
  BY <1>5 DEF RenderHost, TypeOK, claudeVars, holdVars, vtVars, connVars, lifeVars
<1>6. ASSUME NEW c \in Clients, ConnStep(c) PROVE TypeOK'
  BY <1>6, ConnStepTypes
<1>7. ASSUME NEW p \in {"pump", "main"}, StopListener(p) \/ StopSweep(p) \/ StopDone(p)
      PROVE  TypeOK'
  <2>1. /\ pc' \in [{"pump", "main"} -> PumpPC \cup MainPC] /\ pc'.pump \in PumpPC /\ pc'.main \in MainPC
    BY <1>7 DEF StopListener, StopSweep, StopDone, Goto, TypeOK, PumpPC, MainPC
  <2>2. /\ conn' \in [Clients -> {"none", "backlog", "open", "peerGone", "closed"}]
        /\ listening' \in BOOLEAN /\ sockFile' \in BOOLEAN /\ done' \in BOOLEAN
        /\ UNCHANGED <<claudeVars, holdVars, vtVars, viewVars, reader, childGone,
                       ptyClosed, cancel, statusOn, statusFile, accepting>>
    BY <1>7 DEF StopListener, StopSweep, StopDone, TypeOK, lifeVars, connVars
  <2> QED BY <2>1, <2>2 DEF TypeOK, claudeVars, holdVars, vtVars, viewVars
<1>8. CASE QuietStep \/ UNCHANGED vars
  <2>1. CASE Claude
    <3>1. \A t \in Token : Append(pipe, t) \in Seq(Token)
      BY DEF TypeOK
    <3>2. pipe' \in Seq(Token) /\ inFrame' \in BOOLEAN /\ emitted' \in Nat /\ childGone' \in BOOLEAN
      <4>1. CASE ClaudeExit
        BY <4>1 DEF ClaudeExit, TypeOK, claudeVars
      <4>2. ASSUME NEW t \in Token, ClaudeWrite(t)
            PROVE  pipe' \in Seq(Token) /\ inFrame' \in BOOLEAN /\ emitted' \in Nat
                   /\ childGone' \in BOOLEAN
        <5>1. pipe' = Append(pipe, t) /\ emitted' = emitted + 1 /\ childGone' = childGone
              /\ inFrame' = (t = "bsu" \/ (inFrame /\ t = "txt"))
          BY <4>2 DEF ClaudeWrite, lifeVars
        <5>2. inFrame' \in BOOLEAN
          BY <5>1, Zenon
        <5> QED BY <3>1, <5>1, <5>2 DEF TypeOK
      <4> QED BY <2>1, <4>1, <4>2 DEF Claude
    <3>3. UNCHANGED <<holdVars, vtVars, viewVars, connVars, ptyClosed, cancel, listening,
                      done, statusOn, statusFile, sockFile, accepting, pc>>
      BY <2>1 DEF Claude, ClaudeWrite, ClaudeExit, lifeVars
    <3> QED BY <3>2, <3>3 DEF TypeOK, holdVars, vtVars, viewVars, connVars
  <2>2. CASE PumpError \/ Main
    <3>1. /\ pc' \in [{"pump", "main"} -> PumpPC \cup MainPC] /\ pc'.pump \in PumpPC /\ pc'.main \in MainPC
      BY <2>2 DEF PumpError, Main, MainEnable, MainWait, MainDrain, MainRemove, MainReturn,
                  Goto, TypeOK, PumpPC, MainPC
    <3>2. /\ ptyClosed' \in BOOLEAN /\ sockFile' \in BOOLEAN /\ statusFile' \in BOOLEAN
          /\ statusOn' \in BOOLEAN
          /\ UNCHANGED <<claudeVars, holdVars, vtVars, viewVars, connVars, childGone,
                         cancel, listening, done, accepting>>
      BY <2>2 DEF PumpError, Main, MainEnable, MainWait, MainDrain, MainRemove, MainReturn,
                  TypeOK, lifeVars
    <3> QED BY <3>1, <3>2 DEF TypeOK, claudeVars, holdVars, vtVars, viewVars, connVars
  <2>3. CASE CtxClose \/ CtxKill
    <3>1. cancel' \in {"no", "closed", "killed"} /\ ptyClosed' \in BOOLEAN /\ childGone' \in BOOLEAN
      BY <2>3 DEF CtxClose, CtxKill, TypeOK
    <3>2. UNCHANGED <<claudeVars, holdVars, vtVars, viewVars, connVars, listening, done,
                      statusOn, statusFile, sockFile, accepting, pc>>
      BY <2>3 DEF CtxClose, CtxKill
    <3> QED BY <3>1, <3>2 DEF TypeOK, claudeVars, holdVars, vtVars, viewVars, connVars
  <2>4. CASE UNCHANGED vars
    BY <2>4 DEF vars, TypeOK, claudeVars, holdVars, vtVars, viewVars, connVars, lifeVars
  <2> QED BY <1>7, <1>8, <2>1, <2>2, <2>3, <2>4 DEF QuietStep
<1> QED BY <1>1, <1>2, <1>3, <1>4, <1>5, <1>6, <1>7, <1>8, StepCases

-----------------------------------------------------------------------------
(* The theorems. *)

LEMMA Initial == Init => IInv
<1> SUFFICES ASSUME Init PROVE IInv
  OBVIOUS
<1>1. TypeOK
  <2>1. 0 \in 0 .. Hold /\ <<>> \in Seq(Token)
    BY ProxyAssumption
  <2>2. pc \in [{"pump", "main"} -> PumpPC \cup MainPC] /\ pc.pump \in PumpPC /\ pc.main \in MainPC
    BY DEF Init, PumpPC, MainPC
  <2> QED BY <2>1, <2>2 DEF Init, TypeOK
<1>2. Conns
  BY FS_EmptySet DEF Init, Conns, CountersAgree, Watched
<1>3. Holds /\ Views
  BY DEF Init, Holds, HoldIsSync, Views, Fresh, HoldCovered, None
<1>4. Files
  BY DEF Init, Files, NoFilesLeft
<1> QED BY <1>1, <1>2, <1>3, <1>4 DEF IInv

LEMMA Inductive == IInv /\ [Next]_vars => IInv'
  BY TypesKept, ConnsKept, HoldsKept, ViewsKept, FilesKept DEF IInv

\* Every variable stays in the range the code gives it.
THEOREM ProxyServerTypeOK == Spec => []TypeOK
<1>1. IInv => TypeOK
  BY DEF IInv
<1> QED BY <1>1, Initial, Inductive, PTL DEF Spec

\* However failed renders, reader errors and Stop interleave, and however many
\* clients come and go, the counter is the number of registered clients.
THEOREM ProxyCountersAgree == Spec => []CountersAgree
<1>1. IInv => CountersAgree
  BY DEF IInv, Conns
<1> QED BY <1>1, Initial, Inductive, PTL DEF Spec

\* A registered client has a reader that will unregister it.
THEOREM ProxyWatched == Spec => []Watched
<1>1. IInv => Watched
  BY DEF IInv, Conns
<1> QED BY <1>1, Initial, Inductive, PTL DEF Spec

\* While no frame is on hold, everyone shows the newest screen.
THEOREM ProxyFresh == Spec => []Fresh
<1>1. IInv => Fresh
  BY DEF IInv, Views
<1> QED BY <1>1, Initial, Inductive, PTL DEF Spec

\* A hold exists exactly while the screen is inside a frame.
THEOREM ProxyHoldIsSync == Spec => []HoldIsSync
<1>1. IInv => HoldIsSync
  BY DEF IInv, Holds
<1> QED BY <1>1, Initial, Inductive, PTL DEF Spec

\* For every length of the hold: whoever lags behind is covered by the valve.
THEOREM ProxyHoldCovered == Spec => []HoldCovered
<1>1. IInv => HoldCovered
  BY DEF IInv, Views
<1> QED BY <1>1, Initial, Inductive, PTL DEF Spec

\* RunProxy leaves no file behind, because nothing writes one after done.
THEOREM ProxyNoFilesLeft == Spec => []NoFilesLeft
<1>1. IInv => NoFilesLeft
  BY DEF IInv, Files
<1> QED BY <1>1, Initial, Inductive, PTL DEF Spec
-----------------------------------------------------------------------------
(***************************************************************************)
(* The server implements ProxyLife.  Reachable and Ended say what that      *)
(* rests on: the socket and the listener go together, a connection that    *)
(* waits to be accepted needs the listener, nothing but the end of claude  *)
(* or a closed PTY takes the pump or RunProxy towards Stop, and RunProxy   *)
(* has been through Stop before it returns.                                *)
(***************************************************************************)
Reachable ==
  /\ sockFile = listening
  /\ \A c \in Clients : /\ conn[c] = "backlog" => listening
                        /\ reader[c] => Accepted(c)

Ended ==
  /\ pc.pump # "read" \/ ~listening => childGone \/ ptyClosed
  /\ pc.main \notin {"enable", "wait"} => childGone
  /\ pc.main \in {"sweep", "remove", "exiting", "returned"} => ~listening

\* The socket file and the listener go together, over every step.
LEMMA ReachableKept == TypeOK /\ Conns /\ Ended /\ Reachable /\ [Next]_vars => Reachable'
<1> SUFFICES ASSUME TypeOK, Conns, Ended, Reachable, [Next]_vars PROVE Reachable'
  OBVIOUS
<1> DEFINE Same == UNCHANGED <<listening, sockFile, reader>>
<1>1. ASSUME NEW G, ClientGone(G), Same PROVE Reachable'
  <2>1. \A c \in Clients : conn'[c] = conn[c] \/ conn'[c] = "closed"
    BY <1>1, GoneCounts
  <2> QED BY <1>1, <2>1 DEF Reachable, Accepted
<1>2. ASSUME UNCHANGED conn, Same PROVE Reachable'
  BY <1>2 DEF Reachable, Accepted
<1>3. CASE PumpStep
  <2>1. Same
    BY <1>3, PumpShows DEF PumpStep, PumpRead, PumpFlush, lifeVars
  <2>2. UNCHANGED conn \/ Broadcast(ver')
    BY <1>3, PumpShows
  <2> QED BY <1>1, <1>2, <2>1, <2>2, BroadcastGone
<1>4. CASE Tick \/ TimerFires \/ RenderHost
  BY <1>2, <1>4 DEF Tick, TimerFires, RenderHost, lifeVars, connVars
<1>5. CASE SyncValve
  <2>1. Same
    BY <1>5 DEF SyncValve, lifeVars
  <2>2. UNCHANGED conn \/ Broadcast(ver)
    BY <1>5 DEF SyncValve
  <2> QED BY <1>1, <1>2, <2>1, <2>2, BroadcastGone
<1>6. CASE QuietStep
  <2>1. UNCHANGED <<conn, reader>>
    BY <1>6, Quiet
  <2>2. CASE MainRemove
    <3>1. sockFile' = FALSE /\ listening' = listening
      BY <2>2 DEF MainRemove
    <3>2. listening = FALSE
      BY <2>2 DEF MainRemove, Ended, TypeOK
    <3> QED BY <2>1, <3>1, <3>2 DEF Reachable, Accepted
  <2>3. CASE ~MainRemove
    <3>1. UNCHANGED <<listening, sockFile>>
      BY <1>6, <2>3 DEF QuietStep, Claude, ClaudeWrite, ClaudeExit, PumpError, Main, MainEnable,
            MainWait, MainDrain, MainReturn, CtxClose, CtxKill, StopDone, lifeVars
    <3> QED BY <1>2, <2>1, <3>1
  <2> QED BY <2>2, <2>3
<1>7. ASSUME NEW c \in Clients, ConnStep(c) PROVE Reachable'
  <2>1. CASE Connect(c)
    BY <2>1 DEF Connect, Reachable, Accepted, TypeOK, lifeVars
  <2>2. CASE Accept(c)
    BY <2>2 DEF Accept, Reachable, Accepted, TypeOK, lifeVars
  <2>3. CASE Register(c)
    <3>1. \A d \in Clients : conn'[d] = conn[d] \/ conn'[d] = "closed"
      BY <2>3 DEF Register, TypeOK
    <3>2. Accepted(c) /\ UNCHANGED <<listening, sockFile>>
          /\ reader' = [reader EXCEPT ![c] = TRUE]
      <4>1. accepting = c /\ c # NoClient
        BY <2>3, ProxyAssumption DEF Register
      <4> QED BY <2>3, <4>1 DEF Register, Conns, lifeVars
    <3> QED BY <3>1, <3>2 DEF Reachable, Accepted, TypeOK
  <2>4. CASE PeerCloses(c)
    BY <2>4 DEF PeerCloses, Reachable, Accepted, TypeOK, lifeVars
  <2>5. CASE ClientFrame(c)
    <3>1. Same /\ \E F : ClientGone(F)
      BY <2>5 DEF ClientFrame, RenderClients, lifeVars
    <3> QED BY <1>1, <3>1
  <2>6. CASE ReaderEnds(c)
    <3>1. /\ ClientGone({c} \cap clients) /\ UNCHANGED <<listening, sockFile>>
          /\ reader' = [reader EXCEPT ![c] = FALSE]
      BY <2>6 DEF ReaderEnds, lifeVars
    <3>2. \A d \in Clients : conn'[d] = conn[d] \/ conn'[d] = "closed"
      BY <3>1, GoneCounts
    <3> QED BY <3>1, <3>2 DEF Reachable, Accepted, TypeOK
  <2> QED BY <1>7, <2>1, <2>2, <2>3, <2>4, <2>5, <2>6 DEF ConnStep
<1>8. ASSUME NEW p \in {"pump", "main"}, StopListener(p) \/ StopSweep(p) PROVE Reachable'
  <2>1. CASE StopListener(p)
    BY <2>1 DEF StopListener, Reachable, Accepted, TypeOK
  <2>2. CASE StopSweep(p)
    BY <2>2 DEF StopSweep, Reachable, Accepted, TypeOK, lifeVars
  <2> QED BY <1>8, <2>1, <2>2
<1>9. CASE UNCHANGED vars
  BY <1>2, <1>9 DEF vars, lifeVars, connVars
<1> QED BY <1>3, <1>4, <1>5, <1>6, <1>7, <1>8, <1>9, StepCases

\* Only the end of claude, or of the PTY, leads to Stop, and no other way back.
LEMMA EndedKept == TypeOK /\ Files /\ Ended /\ [Next]_vars => Ended'
<1> SUFFICES ASSUME TypeOK, Files, Ended, [Next]_vars PROVE Ended'
  OBVIOUS
<1> DEFINE Same == UNCHANGED <<listening, childGone, ptyClosed>>
<1>1. CASE PumpStep
  <2>1. Same
    BY <1>1 DEF PumpStep, PumpRead, PumpFlush, lifeVars
  <2>2. pc'.main = pc.main /\ (pc'.pump = "read" \/ pc.pump # "read" \/ ReadError)
    BY <1>1 DEF PumpStep, PumpRead, PumpFlush, Goto, TypeOK
  <2> QED BY <2>1, <2>2 DEF Ended, ReadError
<1>2. CASE Tick \/ TimerFires \/ RenderHost \/ SyncValve \/ UNCHANGED vars
  BY <1>2 DEF Tick, TimerFires, RenderHost, SyncValve, vars, lifeVars, Ended
<1>3. CASE \E c \in Clients : ConnStep(c)
  BY <1>3 DEF ConnStep, Connect, Accept, Register, PeerCloses, ClientFrame, ReaderEnds,
              lifeVars, Ended
<1>4. CASE Claude \/ CtxClose \/ CtxKill
  BY <1>4 DEF Claude, ClaudeWrite, ClaudeExit, CtxClose, CtxKill, lifeVars, Ended
<1>5. CASE PumpError
  <2>1. Same /\ ReadError /\ pc'.main = pc.main
    BY <1>5 DEF PumpError, lifeVars, Goto, TypeOK
  <2> QED BY <2>1 DEF Ended, ReadError
<1>6. CASE Main
  <2>1. pc'.pump = pc.pump /\ UNCHANGED <<listening, childGone>> /\ ptyClosed' \in {ptyClosed, TRUE}
    BY <1>6 DEF Main, MainEnable, MainWait, MainDrain, MainRemove, MainReturn, Goto, TypeOK, lifeVars
  <2>2. pc'.main \notin {"enable", "wait"} => childGone
    BY <1>6 DEF Main, MainEnable, MainWait, MainDrain, MainRemove, MainReturn, Goto, TypeOK, Ended
  <2>3. pc'.main \in {"sweep", "remove", "exiting", "returned"} => ~listening
    BY <1>6 DEF Main, MainEnable, MainWait, MainDrain, MainRemove, MainReturn, Goto, TypeOK, Ended
  <2> QED BY <2>1, <2>2, <2>3 DEF Ended
<1>7. ASSUME NEW p \in {"pump", "main"}, Stop(p) PROVE Ended'
  <2>1. UNCHANGED <<childGone, ptyClosed>>
    BY <1>7 DEF Stop, StopDone, StopListener, StopSweep, lifeVars
  <2>2. childGone \/ ptyClosed
    BY <1>7 DEF Stop, StopDone, StopListener, StopSweep, Ended
  <2>3. pc'.main = pc.main \/ (pc.main \notin {"enable", "wait"} /\ p = "main")
    BY <1>7 DEF Stop, StopDone, StopListener, StopSweep, Goto, TypeOK
  <2>4. pc'.main \in {"sweep", "remove", "exiting", "returned"} => ~listening'
    BY <1>7 DEF Stop, StopDone, StopListener, StopSweep, Goto, TypeOK, Ended, lifeVars
  <2> QED BY <2>1, <2>2, <2>3, <2>4 DEF Ended
<1> QED BY <1>1, <1>2, <1>3, <1>4, <1>5, <1>6, <1>7, StepCases DEF QuietStep, Stop

-----------------------------------------------------------------------------
(* The steps of the server, as steps of ProxyLife. *)

Phase == IF Returned THEN "gone" ELSE IF childGone \/ ptyClosed THEN "closing" ELSE "up"
Ats   == [c \in Clients |-> At(c)]

LEMMA LifeVarsAre == PL!lifeVars = <<Phase, sockFile, Ats, connected>>
  BY DEF PL!lifeVars, Phase, Ats

\* The clients that are served are those the server renders to.
LEMMA ServedAre == ASSUME Conns PROVE PL!Served = clients
<1>1. \A c \in Clients : At(c) = "in" <=> c \in clients
  BY DEF At, Conns, Accepted
<1> QED BY <1>1 DEF PL!Served, Conns

\* Whoever is unregistered has left; nobody else notices.
LEMMA GoneLeave ==
  ASSUME TypeOK, Conns, ~Returned, NEW G \in SUBSET Clients, ClientGone(G),
         \A c \in G : Accepted(c), UNCHANGED <<accepting, sockFile, Phase>>
  PROVE  PL!Leave(G \cap clients)
<1>1. /\ clients' = clients \ G /\ connected' = connected - Cardinality(clients \cap G)
      /\ conn' = [c \in Clients |-> IF c \in G THEN "closed" ELSE conn[c]]
  BY DEF ClientGone
<1>2. ASSUME NEW c \in Clients
      PROVE  At(c)' = IF c \in G \cap clients THEN "left" ELSE At(c)
  <2>1. CASE c \notin G
    BY <1>1, <2>1 DEF At
  <2>2. CASE c \in G
    BY <1>1, <2>2, ProxyAssumption DEF At, Conns, Accepted
  <2> QED BY <2>1, <2>2
<1>3. Ats' = [c \in Clients |-> IF c \in G \cap clients THEN "left" ELSE Ats[c]]
  BY <1>2 DEF Ats
<1>4. Phase # "gone" /\ G \cap clients = clients \cap G
  BY DEF Phase
<1>5. G \cap clients \subseteq PL!Served
  BY ServedAre
<1>6. PL!Cardinality(G \cap clients) = Cardinality(clients \cap G)
  BY <1>4 DEF PL!Cardinality, Cardinality
<1> QED BY <1>1, <1>3, <1>4, <1>5, <1>6 DEF PL!Leave, Phase, Ats

\* A connection that nobody serves and that stays where it is, seen from outside.
LEMMA NothingSeen ==
  ASSUME UNCHANGED <<Phase, sockFile, connected>>, \A c \in Clients : At(c)' = At(c)
  PROVE  UNCHANGED PL!lifeVars
<1>1. Ats' = Ats
  BY DEF Ats
<1> QED BY <1>1, LifeVarsAre DEF PL!lifeVars, Phase, Ats

\* A render makes some of the served clients leave, or nothing is shown.
LEMMA RenderLeaves ==
  ASSUME TypeOK, Conns, ~Returned, NEW v, Broadcast(v) \/ UNCHANGED <<viewVars, conn>>,
         UNCHANGED <<accepting, sockFile, Phase>>
  PROVE  PL!Next \/ UNCHANGED PL!lifeVars
<1>1. CASE Broadcast(v)
  <2>1. PICK G \in SUBSET clients : ClientGone(G)
    BY <1>1, BroadcastGone
  <2>2. G \in SUBSET Clients /\ \A c \in G : Accepted(c)
    BY DEF Conns
  <2>3. PL!Leave(G \cap clients)
    BY <2>1, <2>2, GoneLeave
  <2>4. G \cap clients \in SUBSET Clients
    BY <2>2
  <2> QED BY <2>3, <2>4 DEF PL!Next
<1>2. CASE UNCHANGED <<viewVars, conn>>
  BY <1>2, NothingSeen DEF viewVars, At
<1> QED BY <1>1, <1>2

\* One client's connection: it is made, it waits, it is served, it ends.
LEMMA ConnStepLife ==
  ASSUME TypeOK, Conns, Reachable, ~Returned, NEW c \in Clients, ConnStep(c)
  PROVE  PL!Next \/ UNCHANGED PL!lifeVars
<1>1. UNCHANGED <<sockFile, Phase>>
  BY DEF ConnStep, Connect, Accept, Register, PeerCloses, ClientFrame, ReaderEnds,
         lifeVars, Phase, Returned
<1>2. CASE Connect(c)
  <2>1. At(c) = "out" /\ At(c)' = "dialled" /\ \A d \in Clients \ {c} : At(d)' = At(d)
    BY <1>2 DEF Connect, At, viewVars, Conns, Accepted, TypeOK
  <2>2. Ats' = [Ats EXCEPT ![c] = "dialled"] /\ Ats[c] = "out"
    BY <2>1 DEF Ats
  <2>3. sockFile /\ connected' = connected
    BY <1>2 DEF Connect, viewVars, Reachable
  <2>4. PL!Dial(c)
    BY <1>1, <2>2, <2>3 DEF PL!Dial, Phase, Ats
  <2> QED BY <2>4 DEF PL!Next
<1>3. CASE Accept(c)
  <2>1. \A d \in Clients : At(d)' = At(d)
    BY <1>3, ProxyAssumption DEF Accept, At, viewVars, Conns, Accepted, TypeOK
  <2>2. connected' = connected
    BY <1>3 DEF Accept, viewVars
  <2> QED BY <1>1, <2>1, <2>2, NothingSeen
<1>4. CASE Register(c)
  <2>1. accepting = c /\ c # NoClient /\ accepting' = NoClient
    BY <1>4, ProxyAssumption DEF Register
  <2>2. Accepted(c) /\ c \notin clients
    BY <2>1 DEF Conns
  <2>3. PICK failed \in BOOLEAN :
          /\ clients' = IF failed THEN clients ELSE clients \cup {c}
          /\ connected' = IF failed THEN connected ELSE connected + 1
          /\ conn' = [conn EXCEPT ![c] = IF failed THEN "closed" ELSE @]
    BY <1>4 DEF Register
  <2>4. At(c) = "dialled" /\ \A d \in Clients \ {c} : At(d)' = At(d)
    BY <2>1, <2>2, <2>3, ProxyAssumption DEF At, Accepted, TypeOK
  <2>5. At(c)' = IF failed THEN "left" ELSE "in"
    BY <2>1, <2>2, <2>3 DEF At, Accepted, TypeOK
  <2>6. Ats[c] = "dialled" /\ Ats' = [Ats EXCEPT ![c] = IF failed THEN "left" ELSE "in"]
    BY <2>4, <2>5 DEF Ats
  <2>7. Phase # "gone"
    BY DEF Phase
  <2>8. PL!Arrive(c)
    BY <1>1, <2>3, <2>6, <2>7 DEF PL!Arrive, Phase, Ats
  <2> QED BY <2>8 DEF PL!Next
<1>5. CASE PeerCloses(c)
  <2>1. \A d \in Clients : At(d)' = At(d)
    BY <1>5 DEF PeerCloses, At, viewVars, TypeOK
  <2>2. connected' = connected
    BY <1>5 DEF PeerCloses, viewVars
  <2> QED BY <1>1, <2>1, <2>2, NothingSeen
<1>6. ASSUME NEW G \in SUBSET {c}, ClientGone(G), reader[c], UNCHANGED accepting
      PROVE  PL!Next
  <2>1. G \in SUBSET Clients /\ \A d \in G : Accepted(d)
    BY <1>6 DEF Reachable
  <2>2. PL!Leave(G \cap clients)
    BY <1>1, <1>6, <2>1, GoneLeave
  <2>3. G \cap clients \in SUBSET Clients
    BY <2>1
  <2> QED BY <2>2, <2>3 DEF PL!Next
<1>7. CASE ClientFrame(c)
  <2>1. reader[c] /\ UNCHANGED accepting /\ \E F \in SUBSET {c} : ClientGone(F)
    BY <1>7 DEF ClientFrame, RenderClients
  <2> QED BY <1>6, <2>1
<1>8. CASE ReaderEnds(c)
  <2>1. reader[c] /\ UNCHANGED accepting /\ ClientGone({c} \cap clients)
    BY <1>8 DEF ReaderEnds
  <2> QED BY <1>6, <2>1
<1> QED BY <1>2, <1>3, <1>4, <1>5, <1>7, <1>8 DEF ConnStep

\* Closing the listener: once it unlinks the socket, later it does nothing.
LEMMA StopLife ==
  ASSUME TypeOK, Conns, Reachable, Ended, ~Returned, NEW p \in {"pump", "main"},
         StopListener(p) \/ StopSweep(p)
  PROVE  PL!Next \/ UNCHANGED PL!lifeVars
<1>1. UNCHANGED <<connected, clients, accepting, Phase>>
  BY DEF StopListener, StopSweep, viewVars, lifeVars, Phase, Returned, Goto, TypeOK
<1>2. CASE StopListener(p)
  <2> DEFINE R == {c \in Clients : conn[c] = "backlog" /\ accepting # c /\ c \notin clients}
  <2>1. \A c \in Clients : At(c)' = IF c \in R THEN "left" ELSE At(c)
    BY <1>1, <1>2 DEF StopListener, At, Conns, Accepted
  <2>2. \A c \in R : At(c) = "dialled"
    BY DEF At
  <2>3. Ats' = [c \in Clients |-> IF c \in R THEN "left" ELSE Ats[c]]
    BY <2>1 DEF Ats
  <2>4. R \in SUBSET {c \in Clients : Ats[c] = "dialled"}
    BY <2>2 DEF Ats
  <2>5. sockFile' = FALSE
    BY <1>2 DEF StopListener
  <2>6. CASE sockFile
    <3>1. Phase = "closing"
      BY <1>2 DEF StopListener, Ended, Phase
    <3>2. PL!Unlink
      <4> HIDE DEF R
      <4> QED BY <1>1, <2>3, <2>4, <2>5, <2>6, <3>1 DEF PL!Unlink, Phase, Ats
    <3> QED BY <3>2 DEF PL!Next
  <2>7. CASE ~sockFile
    <3>1. sockFile' = sockFile
      BY <2>5, <2>7 DEF TypeOK
    <3>2. R = {}
      BY <2>7 DEF Reachable
    <3> QED BY <1>1, <2>1, <3>1, <3>2, NothingSeen
  <2> QED BY <2>6, <2>7
<1>3. CASE StopSweep(p)
  <2>1. \A c \in Clients : At(c)' = At(c)
    BY <1>1, <1>3 DEF StopSweep, At, Conns, Accepted
  <2>2. sockFile' = sockFile
    BY <1>3 DEF StopSweep, lifeVars
  <2> QED BY <1>1, <2>1, <2>2, NothingSeen
<1> QED BY <1>2, <1>3

\* The other steps move at most the phase.
LEMMA QuietLife ==
  ASSUME TypeOK, Reachable, Ended, Files, ~Returned, QuietStep
  PROVE  PL!Next \/ UNCHANGED PL!lifeVars
<1>1. UNCHANGED <<connected, accepting, conn, clients>>
  BY Quiet
<1>2. \A c \in Clients : At(c)' = At(c)
  BY <1>1 DEF At
<1>3. Ats' = Ats
  BY <1>2 DEF Ats
<1>4. sockFile' = sockFile
  <2>1. CASE MainRemove
    BY <2>1 DEF MainRemove, Ended, Reachable, TypeOK
  <2>2. CASE ~MainRemove
    BY <2>2 DEF QuietStep, Claude, ClaudeWrite, ClaudeExit, PumpError, Main, MainEnable,
          MainWait, MainDrain, MainReturn, CtxClose, CtxKill, StopDone, lifeVars
  <2> QED BY <2>1, <2>2
<1>5. CASE MainReturn
  <2>1. Phase = "closing" /\ Phase' = "gone" /\ ~sockFile
    BY <1>5 DEF MainReturn, Goto, Phase, Returned, TypeOK, Ended, Reachable
  <2>2. PL!Ends
    BY <1>1, <1>3, <1>4, <2>1 DEF PL!Ends, Phase, Ats
  <2> QED BY <2>2 DEF PL!Next
<1>6. CASE ~MainReturn
  <2>1. ~Returned'
    BY <1>6 DEF QuietStep, Claude, ClaudeWrite, ClaudeExit, PumpError, Main, MainEnable,
          MainWait, MainDrain, MainRemove, CtxClose, CtxKill, StopDone, Goto, TypeOK, Returned
  <2>2. (childGone => childGone') /\ (ptyClosed => ptyClosed')
    BY <1>6 DEF QuietStep, Claude, ClaudeWrite, ClaudeExit, PumpError, Main, MainEnable,
          MainWait, MainDrain, MainRemove, CtxClose, CtxKill, StopDone, lifeVars
  <2>3. Phase' = Phase \/ (Phase = "up" /\ Phase' = "closing")
    BY <2>1, <2>2 DEF Phase
  <2>4. CASE Phase' = Phase
    BY <1>1, <1>2, <1>4, <2>4, NothingSeen
  <2>5. CASE Phase = "up" /\ Phase' = "closing"
    <3>1. PL!Closes
      BY <1>1, <1>3, <1>4, <2>5 DEF PL!Closes, Phase, Ats
    <3> QED BY <3>1 DEF PL!Next
  <2> QED BY <2>3, <2>4, <2>5
<1> QED BY <1>5, <1>6

\* Every step of the server is a step of ProxyLife, or one that nobody sees.
LEMMA LifeStep == IInv /\ Reachable /\ Ended /\ [Next]_vars => [PL!Next]_PL!lifeVars
<1> SUFFICES ASSUME IInv, Reachable, Ended, [Next]_vars
             PROVE  PL!Next \/ UNCHANGED PL!lifeVars
  OBVIOUS
<1> USE DEF IInv
<1>1. CASE UNCHANGED vars
  <2>1. UNCHANGED <<Phase, sockFile, connected, conn, clients, accepting>>
    BY <1>1 DEF vars, lifeVars, viewVars, connVars, Phase, Returned
  <2> QED BY <2>1, NothingSeen DEF At
<1>2. CASE ~UNCHANGED vars
  <2>1. ~Returned
    BY <1>2 DEF Next
  <2>2. CASE PumpStep
    <3>1. UNCHANGED <<sockFile, Phase>>
      BY <2>2 DEF PumpStep, PumpRead, PumpFlush, Goto, TypeOK, lifeVars, Phase, Returned
    <3> QED BY <2>1, <2>2, <3>1, PumpShows, RenderLeaves
  <2>3. CASE Tick \/ TimerFires \/ RenderHost
    <3>1. UNCHANGED <<Phase, sockFile, connected, conn, clients, accepting>>
      BY <2>3 DEF Tick, TimerFires, RenderHost, lifeVars, viewVars, connVars, Phase, Returned
    <3> QED BY <3>1, NothingSeen DEF At
  <2>4. CASE SyncValve
    <3>1. UNCHANGED <<sockFile, Phase, accepting>> /\ (Broadcast(ver) \/ UNCHANGED <<viewVars, conn>>)
      BY <2>4 DEF SyncValve, lifeVars, Phase, Returned
    <3> QED BY <2>1, <3>1, RenderLeaves
  <2>5. CASE QuietStep
    BY <2>1, <2>5, QuietLife
  <2>6. CASE \E c \in Clients : ConnStep(c)
    BY <2>1, <2>6, ConnStepLife
  <2>7. CASE \E p \in {"pump", "main"} : StopListener(p) \/ StopSweep(p)
    BY <2>1, <2>7, StopLife
  <2> QED BY <1>2, <2>2, <2>3, <2>4, <2>5, <2>6, <2>7, StepCases
<1> QED BY <1>1, <1>2

\* For all clients, however the goroutines interleave: whoever meets only the
\* socket and the counter of a proxy meets ProxyLife.
THEOREM ServerImplementsLife == Spec => ImplementsLife
<1>1. Init => PL!Init /\ Reachable /\ Ended
  <2> SUFFICES ASSUME Init PROVE PL!Init /\ Reachable /\ Ended
    OBVIOUS
  <2>1. Reachable /\ Ended
    BY DEF Init, Reachable, Ended, Accepted
  <2>2. \A c \in Clients : At(c) = "out"
    BY DEF Init, At
  <2> QED BY <2>1, <2>2 DEF Init, PL!Init, Returned
<1>2. IInv /\ Reachable /\ Ended /\ [Next]_vars => Reachable' /\ Ended'
  BY ReachableKept, EndedKept DEF IInv
<1> QED BY <1>1, <1>2, Initial, Inductive, LifeStep, PTL DEF Spec, ImplementsLife, PL!Spec
=============================================================================
