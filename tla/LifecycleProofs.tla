-------------------------- MODULE LifecycleProofs --------------------------
(***************************************************************************)
(* Proofs about Lifecycle, for any number of terminals, directories and    *)
(* proxies, and for any number of commands in them.                        *)
(*                                                                         *)
(* The argument: whoever means to start a proxy for a conversation sees    *)
(* that no proxy runs it, and muddled says whether somebody else means to  *)
(* as well; so until one is started, nobody else gets that far.            *)
(***************************************************************************)
EXTENDS Lifecycle, TLAPS

Runs(p, c) == Live(p) /\ Resumed(p) /\ proc[p].conv = c

\* A terminal that is about to start a proxy for a conversation is alone with it.
AloneInTerminal ==
  \A s \in Starters : st[s].pc = "spawn" /\ st[s].key # None =>
    /\ \A p \in Proxy : ~Runs(p, st[s].key)
    /\ \A t \in Starters \ {s} : ~(st[t].pc = "spawn" /\ st[t].key = st[s].key)
    /\ ~(rs.pc # "idle" /\ rs.conv = st[s].key)

\* A restart has at most the proxy it is going to kill beside it.
AloneInRestart ==
  rs.pc # "idle" => \A p \in Proxy : Runs(p, rs.conv) => rs.pc = "kill" /\ p = rs.pid

\* What makes STATUS_FILE unnecessary for the backstop: a proxy that accepts
\* has its socket.
UpHasSocket == \A p \in Proxy : Listens(p) => p \in socks

\* LastDisconnectNs is zero while somebody is attached, and so is the snapshot
\* once it has been written since.
WatchedIsZero ==
  \A s \in Starters : st[s].pc = "on" =>
    left[st[s].pid] = "zero" /\ (s \notin unseen => snap[st[s].pid] = "zero")

\* What is to be started or killed, and where.
Targets ==
  /\ \A s \in Starters : st[s].pc \in {"look", "resume"} => st[s].dir \in Dirs
  /\ \A s \in Starters : st[s].pc = "spawn" => st[s].key \in Conv \cup {None}
  /\ rs.pc # "idle" => rs.pid \in Proxy /\ rs.conv \in Conv

Alone == ~muddled => AloneInTerminal /\ AloneInRestart

\* One proxy for each conversation, and at most one spawner if there is none.
Single == OneProxyPerConversation /\ Alone

-----------------------------------------------------------------------------
(* The steps, by who takes them. *)

ProxyStep ==
  \E p \in Proxy : \/ Listen(p) \/ Talk(p) \/ Exit(p) \/ Gone(p)
                   \/ WriteSnap(p) \/ HoursPass(p) \/ IdleGCSweep(p)

\* A step of the command in a terminal that starts nothing, ...
Moves(s) == \/ Look(s) \/ Wait(s) \/ ResolveKey(s) \/ Again(s) \/ BeginAttach(s)
            \/ \E d \in StartDirs : Begin(s, d)

\* ... and one that begins or ends its connection.
Connects(s) == Dial(s) \/ Quit(s) \/ EOF(s)

TerminalStep == \E s \in Starters : Moves(s) \/ Connects(s) \/ Resolve(s) \/ StartProxy(s)

RestartStep == Lookup \/ Kill \/ Respawn

LEMMA StepCases ==
  ASSUME [Next]_vars
  PROVE  ProxyStep \/ TerminalStep \/ RestartStep \/ WriteStatus \/ UNCHANGED vars
  BY DEF Next, Command, ProxyStep, TerminalStep, Moves, Connects, RestartStep

LEMMA Numbers ==
  /\ Proxy \subseteq Conv /\ Proxy \subseteq Nat /\ Conv \subseteq Nat
  /\ None \notin Conv /\ None \notin Proxy /\ 1 \in Proxy /\ Old \in Conv
  BY LifecycleAssumption DEF Proxy, Conv, Old, None

\* TypeOK, by part; the targets with it.
Phases == {"none", "spawned", "up", "closing", "gone"}
Procs  == [phase : Phases, dir : Dirs \cup {NoDir}, conv : Conv \cup {None}]
Ages   == {"zero", "recent", "old"}
Steps  == {"idle", "look", "resume", "spawn", "wait", "attach", "dial", "on", "ended"}
Terms  == [pc : Steps, dir : Dirs \cup {NoDir}, pid : Proxy \cup {None}, key : Int]
Cmds   == [pc : {"idle", "kill", "spawn"}, dir : Dirs \cup {NoDir},
           pid : Proxy \cup {None}, conv : Conv \cup {None}]

OkTerm(r) == /\ r \in Terms /\ (r.pc \in {"dial", "on"} => r.pid # None)
             /\ (r.pc = "spawn" => r.key \in Conv \cup {None})
             /\ (r.pc \in {"look", "resume"} => r.dir \in Dirs)

ProcTypes ==
  /\ proc \in [Proxy -> Procs] /\ cause \in [Proxy -> {"none", "exit", "gc", "restart"}]
  /\ socks \subseteq Proxy /\ latest \in [Dirs -> Conv \cup {None}]

GcTypes == left \in [Proxy -> Ages] /\ snap \in [Proxy -> Ages] /\ unseen \subseteq Starters

TermTypes ==
  /\ st \in [Starters -> Terms] /\ \A s \in Starters : OkTerm(st[s])
  /\ begun \in [Starters -> 0 .. MaxStarts]

RestartTypes ==
  /\ status \subseteq [pid : Proxy, dir : Dirs \cup {NoDir}] /\ rs \in Cmds
  /\ rs.pc # "idle" => rs.pid \in Proxy /\ rs.conv \in Conv
  /\ restarts \in 0 .. MaxRestarts /\ muddled \in BOOLEAN

Types == ProcTypes /\ GcTypes /\ TermTypes /\ RestartTypes

LEMMA TypesAre == Types <=> TypeOK /\ Targets
  BY Numbers DEF Types, ProcTypes, GcTypes, TermTypes, RestartTypes, TypeOK, Targets, Phases,
                 Procs, Ages, Steps, Terms, Cmds, OkTerm

-----------------------------------------------------------------------------
(* Types. *)

LEMMA SpawnFits ==
  ASSUME ProcTypes, NEW d \in Dirs \cup {NoDir}, NEW c \in Conv \cup {None}, Spawn(d, c)
  PROVE  /\ proc' \in [Proxy -> Procs]
         /\ \E p \in Proxy : /\ proc[p].phase = "none" /\ proc'[p].phase = "spawned"
                             /\ proc'[p].conv = IF c = None THEN p ELSE c
                             /\ \A q \in Proxy \ {p} : proc'[q] = proc[q]
<1> PICK p \in Proxy : /\ proc[p].phase = "none"
                       /\ proc' = [proc EXCEPT ![p] = [phase |-> "spawned", dir |-> d,
                                                       conv |-> IF c = None THEN p ELSE c]]
  BY DEF Spawn
<1>1. [phase |-> "spawned", dir |-> d, conv |-> IF c = None THEN p ELSE c] \in Procs
  BY Numbers DEF Procs, Phases
<1> QED BY <1>1 DEF ProcTypes

LEMMA KeyFits ==
  ASSUME ProcTypes, NEW p \in Proxy
  PROVE  Key(p) \in Int /\ (Resumable(Key(p)) => Key(p) \in Conv)
<1>1. proc[p].conv \in Conv \cup {None}
  BY DEF ProcTypes, Procs
<1>2. p \in Nat /\ p # 0 /\ (proc[p].conv \in Conv => proc[p].conv \in Nat)
  BY Numbers DEF None
<1>3. -p \in Int /\ ~(-p > 0)
  BY <1>2
<1>4. CASE Resumed(p)
  BY <1>1, <1>2, <1>4 DEF Key, Resumable, None
<1>5. CASE ~Resumed(p)
  BY <1>3, <1>5 DEF Key, Resumable
<1> QED BY <1>4, <1>5

LEMMA ToResumeFits ==
  ASSUME Types, NEW e \in status
  PROVE  e.pid \in Proxy /\ e.dir \in Dirs \cup {NoDir} /\ ToResume(e) \in Conv \cup {None}
<1>1. e.pid \in Proxy /\ e.dir \in Dirs \cup {NoDir}
  BY DEF Types, RestartTypes
<1> QED BY <1>1, KeyFits DEF Types, ProcTypes, ToResume

LEMMA TermSet ==
  ASSUME TermTypes, NEW s \in Starters, NEW r, OkTerm(r), st' = [st EXCEPT ![s] = r],
         UNCHANGED begun \/ (begun[s] < MaxStarts /\ begun' = [begun EXCEPT ![s] = @ + 1])
  PROVE  TermTypes' /\ st'[s] = r /\ \A t \in Starters \ {s} : st'[t] = st[t]
<1>1. r \in Terms
  BY DEF OkTerm
<1>2. /\ st' \in [Starters -> Terms] /\ st'[s] = r
      /\ \A t \in Starters \ {s} : st'[t] = st[t]
  BY <1>1 DEF TermTypes
<1>3. begun' \in [Starters -> 0 .. MaxStarts]
  BY LifecycleAssumption DEF TermTypes
<1>4. \A t \in Starters : OkTerm(st'[t])
  BY <1>2 DEF TermTypes
<1> QED BY <1>2, <1>3, <1>4 DEF TermTypes, OkTerm

LEMMA ProxyTypes ==
  ASSUME Types, ProxyStep
  PROVE  Types'
<1> PICK p \in Proxy : \/ Listen(p) \/ Talk(p) \/ Exit(p) \/ Gone(p)
                       \/ WriteSnap(p) \/ HoursPass(p) \/ IdleGCSweep(p)
  BY DEF ProxyStep
<1>1. UNCHANGED <<status, st, begun, rs, restarts, muddled>>
  BY DEF Listen, Talk, Exit, Gone, WriteSnap, HoursPass, IdleGCSweep, procVars, gcVars
<1>2. proc' \in [Proxy -> Procs]
  <2>1. UNCHANGED proc \/ \E f \in Phases : \/ proc' = [proc EXCEPT ![p].phase = f]
                                            \/ proc' = [proc EXCEPT ![p].phase = f, ![p].dir = NoDir]
    BY DEF Listen, Talk, Exit, Gone, WriteSnap, HoursPass, IdleGCSweep, procVars, Closes, Phases
  <2> DEFINE Q(f) == [proc[p] EXCEPT !.phase = f]
             R(f) == [proc[p] EXCEPT !.phase = f, !.dir = NoDir]
  <2>2. \A f \in Phases : Q(f) \in Procs /\ R(f) \in Procs
    BY DEF Types, ProcTypes, Procs
  <2>3. UNCHANGED proc \/ \E f \in Phases : \/ proc' = [proc EXCEPT ![p] = Q(f)]
                                            \/ proc' = [proc EXCEPT ![p] = R(f)]
    BY <2>1 DEF Types, ProcTypes, Procs
  <2> HIDE DEF Q, R
  <2> QED BY <2>2, <2>3 DEF Types, ProcTypes
<1>3. cause' \in [Proxy -> {"none", "exit", "gc", "restart"}]
  BY DEF Listen, Talk, Exit, Gone, WriteSnap, HoursPass, IdleGCSweep, procVars, Closes, Types,
         ProcTypes
<1>4. socks' \subseteq Proxy
  BY DEF Listen, Talk, Exit, Gone, WriteSnap, HoursPass, IdleGCSweep, procVars, Types, ProcTypes
<1>5. latest' \in [Dirs -> Conv \cup {None}]
  <2>1. UNCHANGED latest \/ latest' = [latest EXCEPT ![proc[p].dir] = proc[p].conv]
    BY DEF Listen, Talk, Exit, Gone, WriteSnap, HoursPass, IdleGCSweep, procVars
  <2>2. proc[p].conv \in Conv \cup {None}
    BY DEF Types, ProcTypes, Procs
  <2> QED BY <2>1, <2>2 DEF Types, ProcTypes
<1>6. GcTypes'
  <2>1. UNCHANGED left \/ \E x \in Ages : left' = [left EXCEPT ![p] = x]
    BY DEF Listen, Talk, Exit, Gone, WriteSnap, HoursPass, IdleGCSweep, gcVars, Ages
  <2>2. left[p] \in Ages
    BY DEF Types, GcTypes
  <2>3. UNCHANGED snap \/ \E x \in Ages : snap' = [snap EXCEPT ![p] = x]
    BY <2>2 DEF Listen, Talk, Exit, Gone, WriteSnap, HoursPass, IdleGCSweep, gcVars, Ages
  <2>4. unseen' \subseteq unseen
    BY DEF Listen, Talk, Exit, Gone, WriteSnap, HoursPass, IdleGCSweep
  <2> QED BY <2>1, <2>3, <2>4 DEF Types, GcTypes
<1> QED BY <1>1, <1>2, <1>3, <1>4, <1>5, <1>6
       DEF Types, ProcTypes, TermTypes, RestartTypes, OkTerm

\* The three ways a command goes on.
LEMMA GotoFits ==
  ASSUME TermTypes, NEW s \in Starters, NEW pc \in Steps \ {"look", "dial", "on", "spawn"},
         Goto(s, pc), pc = "resume" => st[s].dir \in Dirs
  PROVE  \E r : OkTerm(r) /\ r.pc = pc /\ st' = [st EXCEPT ![s] = r]
<1> DEFINE r == [st[s] EXCEPT !.pc = pc]
<1>1. OkTerm(r) /\ r.pc = pc
  BY DEF TermTypes, OkTerm, Terms
<1>2. st' = [st EXCEPT ![s] = r]
  BY DEF Goto, TermTypes, Terms
<1> QED BY <1>1, <1>2

LEMMA AttachFits ==
  ASSUME TermTypes, NEW s \in Starters, NEW k \in Int, Attach(s, k)
  PROVE  \E r : OkTerm(r) /\ r.pc = "attach" /\ st' = [st EXCEPT ![s] = r]
<1> DEFINE r == [st[s] EXCEPT !.pc = "attach", !.key = k]
<1>1. OkTerm(r) /\ r.pc = "attach"
  BY DEF TermTypes, OkTerm, Terms, Steps
<1>2. st' = [st EXCEPT ![s] = r]
  BY DEF Attach, TermTypes, Terms
<1> QED BY <1>1, <1>2

LEMMA DialsFits ==
  ASSUME TermTypes, NEW s \in Starters, NEW p \in Proxy, NEW k \in Int, Dials(s, p, k)
  PROVE  \E r : OkTerm(r) /\ r.pc = "dial" /\ st' = [st EXCEPT ![s] = r]
<1> DEFINE r == [st[s] EXCEPT !.pc = "dial", !.pid = p, !.key = k]
<1>1. OkTerm(r) /\ r.pc = "dial"
  BY Numbers DEF TermTypes, OkTerm, Terms, Steps
<1>2. st' = [st EXCEPT ![s] = r]
  BY DEF Dials, TermTypes, Terms
<1> QED BY <1>1, <1>2

LEMMA MovesFits ==
  ASSUME Types, NEW s \in Starters, Moves(s)
  PROVE  /\ \E r : OkTerm(r) /\ r.pc \notin {"on", "spawn"} /\ st' = [st EXCEPT ![s] = r]
         /\ st[s].pc # "on"
         /\ UNCHANGED begun \/ (begun[s] < MaxStarts /\ begun' = [begun EXCEPT ![s] = @ + 1])
         /\ UNCHANGED <<procVars, gcVars, status, unseen, rs, restarts, muddled>>
<1>1. st[s].pc # "on"
  BY DEF Moves, Look, Wait, ResolveKey, Again, BeginAttach, Begin
<1>2. UNCHANGED begun \/ (begun[s] < MaxStarts /\ begun' = [begun EXCEPT ![s] = @ + 1])
  BY DEF Moves, Look, Wait, ResolveKey, Again, BeginAttach, Begin
<1>3. UNCHANGED <<procVars, gcVars, status, unseen, rs, restarts, muddled>>
  BY DEF Moves, Look, Wait, ResolveKey, Again, BeginAttach, Begin
<1>4. \A e \in status : e.pid \in Proxy /\ Key(e.pid) \in Int
  BY ToResumeFits, KeyFits DEF Types
<1>5. st[s].key \in Int /\ OkTerm(Idle)
  BY Numbers DEF Types, TermTypes, Terms, OkTerm, Idle, Steps
<1>6. \/ Goto(s, "ended") \/ (st[s].pc = "look" /\ Goto(s, "resume"))
      \/ \E e \in status : Attach(s, Key(e.pid))
      \/ \E p \in Proxy : Dials(s, p, st[s].key)
      \/ st' = [st EXCEPT ![s] = Idle]
      \/ \E d \in StartDirs : st' = [st EXCEPT ![s] = [Idle EXCEPT !.pc = "look", !.dir = d]]
  BY <1>4 DEF Moves, Look, Wait, ResolveKey, Again, BeginAttach, Begin, Here, Under, Serving,
              Managed, Found
<1>7. ASSUME NEW d \in StartDirs
      PROVE  LET r == [Idle EXCEPT !.pc = "look", !.dir = d] IN OkTerm(r) /\ r.pc = "look"
  BY <1>5, LifecycleAssumption DEF Idle, OkTerm, Terms, Steps
<1>8. \E r : OkTerm(r) /\ r.pc \notin {"on", "spawn"} /\ st' = [st EXCEPT ![s] = r]
  <2>1. TermTypes
    BY DEF Types
  <2>2. ASSUME Goto(s, "ended") \/ (st[s].pc = "look" /\ Goto(s, "resume"))
        PROVE  \E r : OkTerm(r) /\ r.pc \notin {"on", "spawn"} /\ st' = [st EXCEPT ![s] = r]
    <3>1. st[s].pc = "look" => st[s].dir \in Dirs
      BY <2>1 DEF TermTypes, OkTerm
    <3> QED BY <2>1, <2>2, <3>1, GotoFits DEF Steps
  <2>3. ASSUME NEW e \in status, Attach(s, Key(e.pid))
        PROVE  \E r : OkTerm(r) /\ r.pc \notin {"on", "spawn"} /\ st' = [st EXCEPT ![s] = r]
    BY <1>4, <2>1, <2>3, AttachFits
  <2>4. ASSUME NEW p \in Proxy, Dials(s, p, st[s].key)
        PROVE  \E r : OkTerm(r) /\ r.pc \notin {"on", "spawn"} /\ st' = [st EXCEPT ![s] = r]
    BY <1>5, <2>1, <2>4, DialsFits
  <2>5. Idle.pc = "idle"
    BY DEF Idle
  <2> QED BY <1>5, <1>6, <1>7, <2>2, <2>3, <2>4, <2>5
<1> QED BY <1>1, <1>2, <1>3, <1>8

LEMMA ConnectsFits ==
  ASSUME Types, NEW s \in Starters, Connects(s)
  PROVE  /\ st[s].pc \in {"dial", "on"} /\ st[s].pid \in Proxy
         /\ TermTypes' /\ st'[s].pc # "spawn" /\ \A t \in Starters \ {s} : st'[t] = st[t]
         /\ st'[s].pc = "on" => st'[s].pid = st[s].pid
         /\ UNCHANGED <<procVars, snap, status, begun, rs, restarts, muddled>>
<1>1. st[s].pc \in {"dial", "on"}
  BY DEF Connects, Dial, Quit, EOF
<1>2. st[s].pid \in Proxy
  BY <1>1 DEF Types, TermTypes, OkTerm, Terms
<1>3. UNCHANGED <<procVars, snap, status, begun, rs, restarts, muddled>>
  BY DEF Connects, Dial, Quit, EOF, Leaves
<1>4. PICK pc \in {"on", "attach", "ended"} : Goto(s, pc)
  BY DEF Connects, Dial, Quit, EOF, Leaves
<1> DEFINE r == [st[s] EXCEPT !.pc = pc]
<1>5. OkTerm(r) /\ r.pc = pc /\ r.pid = st[s].pid
  BY <1>2, Numbers DEF Types, TermTypes, OkTerm, Terms, Steps
<1>6. st' = [st EXCEPT ![s] = r]
  BY <1>4 DEF Goto, Types, TermTypes, Terms
<1> HIDE DEF r
<1>7. TermTypes' /\ st'[s] = r /\ \A t \in Starters \ {s} : st'[t] = st[t]
  BY <1>3, <1>5, <1>6, TermSet DEF Types
<1> QED BY <1>1, <1>2, <1>3, <1>5, <1>7

\* The directory's conversation, and what is done about it.
LEMMA ResolveFits ==
  ASSUME Types, NEW s \in Starters, Resolve(s)
  PROVE  /\ TermTypes' /\ st'[s].pc \in {"spawn", "dial"}
         /\ \A t \in Starters \ {s} : st'[t] = st[t]
         /\ st[s].pc = "resume"
         /\ UNCHANGED <<procVars, gcVars, status, unseen, begun, rs, restarts>>
<1>1. st[s].pc = "resume" /\ UNCHANGED <<procVars, gcVars, status, unseen, begun, rs, restarts>>
  BY DEF Resolve
<1> DEFINE c == latest[st[s].dir]
           r == [st[s] EXCEPT !.pc = "spawn", !.key = c]
<1>2. TermTypes /\ c \in Conv \cup {None} /\ c \in Int
  <2>1. st[s].dir \in Dirs /\ TermTypes
    BY <1>1 DEF Types, TermTypes, OkTerm
  <2>2. c \in Conv \cup {None}
    BY <2>1 DEF Types, ProcTypes
  <2>3. c \in Int
    <3>1. \A x \in Conv \cup {None} : x \in Int
      BY Numbers DEF None
    <3> HIDE DEF c
    <3> QED BY <2>2, <3>1
  <2> QED BY <2>1, <2>2, <2>3
<1>3. OkTerm(r) /\ r.pc = "spawn"
  BY <1>2 DEF TermTypes, OkTerm, Terms, Steps
<1>4. (\E p \in Proxy : Dials(s, p, c)) \/ st' = [st EXCEPT ![s] = r]
  BY DEF Resolve, Serving, Managed, TermTypes, Terms
<1> HIDE DEF c, r
<1>5. \E x : OkTerm(x) /\ x.pc \in {"spawn", "dial"} /\ st' = [st EXCEPT ![s] = x]
  BY <1>2, <1>3, <1>4, DialsFits
<1> QED BY <1>1, <1>2, <1>5, TermSet

LEMMA StartProxyFits ==
  ASSUME Types, NEW s \in Starters, StartProxy(s)
  PROVE  /\ TermTypes' /\ st'[s].pc \in {"wait", "ended"}
         /\ \A t \in Starters \ {s} : st'[t] = st[t]
         /\ st[s].pc = "spawn" /\ st[s].key \in Conv \cup {None}
         /\ st[s].dir \in Dirs \cup {NoDir}
         /\ Spawn(st[s].dir, st[s].key) \/ UNCHANGED proc
         /\ UNCHANGED <<cause, socks, latest, gcVars, status, unseen, begun, rs, restarts,
                        muddled>>
<1>1. TermTypes /\ st[s].pc = "spawn" /\ (Goto(s, "wait") \/ Goto(s, "ended"))
  BY DEF StartProxy, Types
<1>2. \E x : OkTerm(x) /\ x.pc \in {"wait", "ended"} /\ st' = [st EXCEPT ![s] = x]
  BY <1>1, GotoFits DEF Steps
<1>3. st[s].key \in Conv \cup {None} /\ st[s].dir \in Dirs \cup {NoDir}
  BY <1>1 DEF TermTypes, OkTerm, Terms
<1>4. UNCHANGED <<cause, socks, latest, gcVars, status, unseen, begun, rs, restarts, muddled>>
  BY DEF StartProxy
<1>5. Spawn(st[s].dir, st[s].key) \/ UNCHANGED proc
  BY DEF StartProxy
<1>6. TermTypes' /\ st'[s].pc \in {"wait", "ended"} /\ \A t \in Starters \ {s} : st'[t] = st[t]
  BY <1>1, <1>2, <1>4, TermSet
<1> QED BY <1>1, <1>3, <1>4, <1>5, <1>6

LEMMA TerminalTypes ==
  ASSUME Types, TerminalStep
  PROVE  Types'
<1> PICK s \in Starters : Moves(s) \/ Connects(s) \/ Resolve(s) \/ StartProxy(s)
  BY DEF TerminalStep
<1>1. CASE Moves(s)
  BY <1>1, MovesFits, TermSet DEF Types, ProcTypes, GcTypes, RestartTypes, procVars, gcVars
<1>2. CASE Connects(s)
  <2>1. UNCHANGED left \/ \E x \in Ages : left' = [left EXCEPT ![st[s].pid] = x]
    BY <1>2, ConnectsFits DEF Connects, Dial, Quit, EOF, Connected, Disconnected, Ages, Types,
                              GcTypes
  <2>2. unseen' \subseteq Starters
    BY <1>2 DEF Connects, Dial, Quit, EOF, Leaves, Types, GcTypes
  <2>3. GcTypes'
    BY <1>2, <2>1, <2>2, ConnectsFits DEF Types, GcTypes
  <2> QED BY <1>2, <2>3, ConnectsFits DEF Types, ProcTypes, RestartTypes, procVars
<1>3. CASE Resolve(s)
  <2>1. muddled' \in BOOLEAN
    BY <1>3 DEF Resolve, Types, RestartTypes
  <2> QED BY <1>3, <2>1, ResolveFits DEF Types, ProcTypes, GcTypes, RestartTypes, procVars, gcVars
<1>4. CASE StartProxy(s)
  <2>1. proc' \in [Proxy -> Procs]
    BY <1>4, StartProxyFits, SpawnFits DEF Types, ProcTypes
  <2> QED BY <1>4, <2>1, StartProxyFits DEF Types, ProcTypes, GcTypes, RestartTypes, gcVars
<1> QED BY <1>1, <1>2, <1>3, <1>4

LEMMA RestartStepTypes ==
  ASSUME Types, RestartStep \/ WriteStatus
  PROVE  Types'
<1>1. UNCHANGED <<socks, latest, gcVars, st, unseen, begun>>
  BY DEF RestartStep, Lookup, Kill, Respawn, WriteStatus, procVars
<1>2. TermTypes' /\ GcTypes'
  BY <1>1 DEF Types, TermTypes, GcTypes, OkTerm, gcVars
<1>3. CASE WriteStatus
  <2>1. \A p \in Proxy : proc[p].dir \in Dirs \cup {NoDir}
    BY DEF Types, ProcTypes, Procs
  <2>2. status' \subseteq [pid : Proxy, dir : Dirs \cup {NoDir}]
    BY <1>3, <2>1 DEF WriteStatus, Managed
  <2> QED BY <1>2, <1>3, <2>2 DEF WriteStatus, Types, ProcTypes, RestartTypes, procVars
<1>4. CASE Lookup
  <2>1. PICK e \in status :
          /\ ToResume(e) # None
          /\ rs' = [pc |-> "kill", dir |-> e.dir, pid |-> e.pid, conv |-> ToResume(e)]
          /\ muddled' = (muddled \/ Underway(ToResume(e)) \/ Ambiguous(e))
    BY <1>4 DEF Lookup
  <2>2. e.pid \in Proxy /\ e.dir \in Dirs \cup {NoDir} /\ ToResume(e) \in Conv
    BY <2>1, ToResumeFits
  <2>3. rs' \in Cmds /\ rs'.pid \in Proxy /\ rs'.conv \in Conv
    BY <2>1, <2>2 DEF Cmds
  <2>4. restarts' \in 0 .. MaxRestarts
    BY <1>4, LifecycleAssumption DEF Lookup, Types, RestartTypes
  <2>5. muddled' \in BOOLEAN
    BY <2>1
  <2> QED BY <1>2, <1>4, <2>3, <2>4, <2>5 DEF Lookup, Types, ProcTypes, RestartTypes, procVars
<1>5. CASE Kill
  <2>1. rs.pid \in Proxy /\ rs.conv \in Conv /\ rs' = [rs EXCEPT !.pc = "spawn"]
    BY <1>5 DEF Kill, Types, RestartTypes
  <2>2. rs' \in Cmds /\ rs'.pid = rs.pid /\ rs'.conv = rs.conv
    BY <2>1 DEF Types, RestartTypes, Cmds
  <2> DEFINE r == [proc[rs.pid] EXCEPT !.phase = "closing"]
  <2>3. r \in Procs
    BY <2>1 DEF Types, ProcTypes, Procs, Phases
  <2>4. UNCHANGED proc \/ proc' = [proc EXCEPT ![rs.pid] = r]
    BY <1>5 DEF Kill, Closes
  <2> HIDE DEF r
  <2>5. proc' \in [Proxy -> Procs]
    BY <2>3, <2>4 DEF Types, ProcTypes
  <2>6. cause' \in [Proxy -> {"none", "exit", "gc", "restart"}]
    BY <1>5 DEF Kill, Closes, Types, ProcTypes
  <2>7. muddled' \in BOOLEAN
    BY <1>5 DEF Kill, Types, RestartTypes
  <2> QED BY <1>2, <1>5, <2>1, <2>2, <2>5, <2>6, <2>7 DEF Kill, Types, ProcTypes, RestartTypes
<1>6. CASE Respawn
  <2>1. rs.pc # "idle" /\ rs.conv \in Conv /\ rs.dir \in Dirs \cup {NoDir}
    BY <1>6 DEF Respawn, Types, RestartTypes, Cmds
  <2>2. proc' \in [Proxy -> Procs]
    BY <1>6, <2>1, SpawnFits DEF Respawn, Types, ProcTypes
  <2>3. rs' \in Cmds /\ rs'.pc = "idle"
    BY <1>6 DEF Respawn, NoCmd, Cmds
  <2> QED BY <1>2, <1>6, <2>2, <2>3 DEF Respawn, Types, ProcTypes, RestartTypes
<1> QED BY <1>3, <1>4, <1>5, <1>6 DEF RestartStep

LEMMA TypesKept == Types /\ [Next]_vars => Types'
<1> SUFFICES ASSUME Types, [Next]_vars PROVE Types'
  OBVIOUS
<1>1. CASE UNCHANGED vars
  BY <1>1 DEF vars, procVars, gcVars, Types, ProcTypes, GcTypes, TermTypes, RestartTypes, OkTerm
<1> QED BY <1>1, StepCases, ProxyTypes, TerminalTypes, RestartStepTypes

-----------------------------------------------------------------------------
(* Sockets. *)

LEMMA SocketsKept ==
  ASSUME Types, UpHasSocket, [Next]_vars
  PROVE  UpHasSocket'
<1> USE DEF UpHasSocket, Listens, Types, ProcTypes
<1>1. CASE ProxyStep
  <2> PICK p \in Proxy : \/ Listen(p) \/ Talk(p) \/ Exit(p) \/ Gone(p)
                         \/ WriteSnap(p) \/ HoursPass(p) \/ IdleGCSweep(p)
    BY <1>1 DEF ProxyStep
  <2>1. CASE Listen(p)
    <3>1. /\ \A q \in Proxy \ {p} : proc'[q] = proc[q]
          /\ socks' = {q \in socks : Live(q)} \cup {p}
      BY <2>1 DEF Listen
    <3> QED BY <3>1 DEF Live
  <2>2. CASE Gone(p)
    <3>1. /\ \A q \in Proxy \ {p} : proc'[q] = proc[q]
          /\ proc'[p].phase = "gone" /\ socks \ {p} \subseteq socks'
      BY <2>2 DEF Gone, Procs
    <3> QED BY <3>1
  <2>3. CASE Exit(p) \/ IdleGCSweep(p)
    <3>1. /\ \A q \in Proxy \ {p} : proc'[q] = proc[q]
          /\ proc'[p].phase = "closing" /\ UNCHANGED socks
      BY <2>3 DEF Exit, IdleGCSweep, Closes, Procs
    <3> QED BY <3>1
  <2>4. CASE Talk(p) \/ WriteSnap(p) \/ HoursPass(p)
    BY <2>4 DEF Talk, WriteSnap, HoursPass, procVars
  <2> QED BY <2>1, <2>2, <2>3, <2>4
<1>2. ASSUME NEW d \in Dirs \cup {NoDir}, NEW c \in Conv \cup {None}, Spawn(d, c), UNCHANGED socks
      PROVE  UpHasSocket'
  BY <1>2, SpawnFits
<1>3. CASE TerminalStep
  <2> PICK s \in Starters : Moves(s) \/ Connects(s) \/ Resolve(s) \/ StartProxy(s)
    BY <1>3 DEF TerminalStep
  <2>1. CASE Moves(s) \/ Connects(s) \/ Resolve(s)
    BY <2>1, MovesFits, ConnectsFits, ResolveFits DEF procVars
  <2>2. CASE StartProxy(s)
    BY <1>2, <2>2, StartProxyFits
  <2> QED BY <2>1, <2>2
<1>4. CASE RestartStep
  <2>1. CASE Lookup
    BY <2>1 DEF Lookup, procVars
  <2>2. CASE Kill
    <3>1. \/ UNCHANGED proc
          \/ proc' = [proc EXCEPT ![rs.pid].phase = "closing"]
      BY <2>2 DEF Kill, Closes
    <3>2. rs.pid \in Proxy /\ UNCHANGED socks
      BY <2>2 DEF Kill, RestartTypes
    <3>3. \A q \in Proxy : proc'[q] = proc[q] \/ proc'[q].phase = "closing"
      BY <3>1, <3>2 DEF Procs
    <3> QED BY <3>2, <3>3
  <2>3. CASE Respawn
    <3>1. rs.pc # "idle" /\ rs.conv \in Conv /\ rs.dir \in Dirs \cup {NoDir}
      BY <2>3 DEF Respawn, RestartTypes, Cmds
    <3> QED BY <1>2, <2>3, <3>1 DEF Respawn
  <2> QED BY <1>4, <2>1, <2>2, <2>3 DEF RestartStep
<1>5. CASE WriteStatus \/ UNCHANGED vars
  BY <1>5 DEF WriteStatus, vars, procVars
<1> QED BY <1>1, <1>3, <1>4, <1>5, StepCases

-----------------------------------------------------------------------------
(* Who is attached, and what the GC knows of it. *)

LEMMA OnHasProxy ==
  ASSUME Types, NEW s \in Starters, st[s].pc = "on"
  PROVE  st[s].pid \in Proxy
  BY DEF Types, TermTypes, OkTerm, Terms

\* Terminals that stay on.
LEMMA WatchedStays ==
  ASSUME Types, WatchedIsZero, UNCHANGED <<left, snap, unseen>>,
         \A s \in Starters : st'[s].pc = "on" => st'[s] = st[s]
  PROVE  WatchedIsZero'
  BY DEF WatchedIsZero

LEMMA WatchedKept ==
  ASSUME Types, WatchedIsZero, [Next]_vars
  PROVE  WatchedIsZero'
<1>1. CASE ProxyStep
  <2> PICK p \in Proxy : \/ Listen(p) \/ Talk(p) \/ Exit(p) \/ Gone(p)
                         \/ WriteSnap(p) \/ HoursPass(p) \/ IdleGCSweep(p)
    BY <1>1 DEF ProxyStep
  <2>1. UNCHANGED st
    BY DEF Listen, Talk, Exit, Gone, WriteSnap, HoursPass, IdleGCSweep
  <2>2. CASE Listen(p) \/ Talk(p) \/ Exit(p) \/ IdleGCSweep(p)
    BY <2>1, <2>2, WatchedStays DEF Listen, Talk, Exit, IdleGCSweep, gcVars
  <2> SUFFICES ASSUME NEW s \in Starters, st[s].pc = "on"
               PROVE  left'[st[s].pid] = "zero" /\ (s \notin unseen' => snap'[st[s].pid] = "zero")
    BY <2>1 DEF WatchedIsZero
  <2>3. /\ st[s].pid \in Proxy /\ left[st[s].pid] = "zero"
        /\ s \notin unseen => snap[st[s].pid] = "zero"
    BY OnHasProxy DEF WatchedIsZero
  <2>4. st[s].pid = p => s \in Clients(p)
    BY DEF Clients
  <2>5. CASE Gone(p)
    BY <2>3, <2>4, <2>5 DEF Gone, Types, GcTypes
  <2>6. CASE WriteSnap(p)
    BY <2>3, <2>4, <2>6 DEF WriteSnap, Clients, Types, GcTypes
  <2>7. CASE HoursPass(p)
    <3>1. st[s].pid # p
      BY <2>3, <2>7 DEF HoursPass
    <3> QED BY <2>3, <2>7, <3>1 DEF HoursPass, Types, GcTypes
  <2> QED BY <2>1, <2>2, <2>5, <2>6, <2>7 DEF WatchedIsZero
<1>2. CASE TerminalStep
  <2> PICK s \in Starters : Moves(s) \/ Connects(s) \/ Resolve(s) \/ StartProxy(s)
    BY <1>2 DEF TerminalStep
  <2>1. CASE Moves(s)
    <3>1. \A t \in Starters : st'[t].pc = "on" => st'[t] = st[t]
      BY <2>1, MovesFits, TermSet DEF Types
    <3> QED BY <2>1, <3>1, MovesFits, WatchedStays DEF gcVars
  <2>2. CASE Resolve(s)
    <3>1. \A t \in Starters : st'[t].pc = "on" => st'[t] = st[t]
      BY <2>2, ResolveFits
    <3> QED BY <2>2, <3>1, ResolveFits, WatchedStays DEF gcVars
  <2>3. CASE StartProxy(s)
    <3>1. \A t \in Starters : st'[t].pc = "on" => st'[t] = st[t]
      BY <2>3, StartProxyFits
    <3> QED BY <2>3, <3>1, StartProxyFits, WatchedStays DEF gcVars
  <2>4. CASE Connects(s)
    <3> DEFINE p == st[s].pid
    <3>1. /\ p \in Proxy /\ UNCHANGED snap
          /\ \A t \in Starters \ {s} : st'[t] = st[t]
          /\ st'[s].pc = "on" => st'[s].pid = p
      BY <2>4, ConnectsFits
    <3> HIDE DEF p
    <3> SUFFICES ASSUME NEW t \in Starters, st'[t].pc = "on"
                 PROVE  /\ left'[st'[t].pid] = "zero"
                        /\ t \notin unseen' => snap'[st'[t].pid] = "zero"
      BY DEF WatchedIsZero
    <3>2. CASE t # s
      <4>1. st'[t] = st[t] /\ st[t].pid \in Proxy /\ left[st[t].pid] = "zero"
        BY <3>1, <3>2, OnHasProxy DEF WatchedIsZero
      <4>2. t \notin unseen' => t \notin unseen
        BY <2>4, <3>2 DEF Connects, Dial, Quit, EOF, Leaves
      <4>3. left'[st[t].pid] = "zero"
        <5>1. \/ UNCHANGED left \/ Connected(p) \/ (st[s].pc = "on" /\ Disconnected(p, s))
          BY <2>4 DEF Connects, Dial, Quit, EOF, p
        <5>2. st[t].pid = p => Clients(p) # {s}
          BY <3>1, <3>2, <4>1 DEF Clients
        <5> QED BY <3>1, <4>1, <5>1, <5>2 DEF Connected, Disconnected, Types, GcTypes
      <4> QED BY <3>1, <3>2, <4>1, <4>2, <4>3 DEF WatchedIsZero
    <3>3. CASE t = s
      <4>1. Dial(s) /\ Connected(p) /\ s \in unseen'
        <5>1. ~Quit(s) /\ ~EOF(s)
          BY <3>3 DEF Quit, EOF, Leaves, Goto, Types, TermTypes, Terms
        <5>2. ~Goto(s, "attach")
          BY <3>3 DEF Goto, Types, TermTypes, Terms
        <5> QED BY <2>4, <5>1, <5>2 DEF Connects, Dial, p
      <4> QED BY <3>1, <3>3, <4>1 DEF Connected, Types, GcTypes
    <3> QED BY <3>2, <3>3
  <2> QED BY <2>1, <2>2, <2>3, <2>4
<1>3. CASE RestartStep \/ WriteStatus \/ UNCHANGED vars
  BY <1>3, WatchedStays DEF RestartStep, Lookup, Kill, Respawn, WriteStatus, vars, gcVars
<1> QED BY <1>1, <1>2, <1>3, StepCases

-----------------------------------------------------------------------------
(* Who runs a conversation, or means to. *)

\* No proxy runs a conversation that it did not run before.
NoNewRuns ==
  \A p \in Proxy : Live(p)' /\ Resumed(p)' =>
    Live(p) /\ Resumed(p) /\ proc'[p].conv = proc[p].conv

\* No terminal means to start a proxy that did not before.
NoNewSpawner ==
  \A s \in Starters : st'[s].pc = "spawn" => st[s].pc = "spawn" /\ st'[s].key = st[s].key

LEMMA SingleKept ==
  ASSUME Single, UNCHANGED muddled, NoNewRuns, NoNewSpawner,
         rs'.pc = "idle" \/ UNCHANGED rs
  PROVE  Single'
<1>1. OneProxyPerConversation'
  BY DEF Single, OneProxyPerConversation, NoNewRuns
<1>2. AloneInTerminal /\ AloneInRestart => AloneInTerminal'
  BY DEF AloneInTerminal, NoNewRuns, NoNewSpawner, Runs
<1>3. AloneInRestart => AloneInRestart'
  BY DEF AloneInRestart, NoNewRuns, Runs
<1> QED BY <1>1, <1>2, <1>3 DEF Single, Alone

LEMMA SameRuns == UNCHANGED proc => NoNewRuns
  BY DEF NoNewRuns, Live, Resumed

\* The proxies themselves only stop.
LEMMA ProxySingle ==
  ASSUME Types, Single, ProxyStep
  PROVE  Single'
<1> PICK p \in Proxy : \/ Listen(p) \/ Talk(p) \/ Exit(p) \/ Gone(p)
                       \/ WriteSnap(p) \/ HoursPass(p) \/ IdleGCSweep(p)
  BY DEF ProxyStep
<1>1. UNCHANGED <<st, rs, muddled>>
  BY DEF Listen, Talk, Exit, Gone, WriteSnap, HoursPass, IdleGCSweep
<1>2. NoNewRuns
  <2>1. CASE UNCHANGED proc
    BY <2>1, SameRuns
  <2>2. CASE Listen(p) \/ Exit(p) \/ Gone(p) \/ IdleGCSweep(p)
    <3>1. \A q \in Proxy \ {p} : proc'[q] = proc[q]
      BY <2>2 DEF Listen, Exit, Gone, IdleGCSweep, Closes, Types, ProcTypes
    <3>2. /\ proc'[p].conv = proc[p].conv
          /\ proc'[p].phase \in {"closing", "gone"} \/ (Live(p) /\ proc'[p].phase = "up")
      BY <2>2 DEF Listen, Exit, Gone, IdleGCSweep, Closes, Types, ProcTypes, Procs, Live
    <3> QED BY <3>1, <3>2 DEF NoNewRuns, Live, Resumed
  <2> QED BY <2>1, <2>2 DEF Talk, WriteSnap, HoursPass, procVars
<1> QED BY <1>1, <1>2, SingleKept DEF NoNewSpawner

\* A terminal decides to start a proxy: nobody runs the conversation, nor means to.
LEMMA ResolveSingle ==
  ASSUME Types, UpHasSocket, Single, NEW s \in Starters, Resolve(s)
  PROVE  Single'
<1> DEFINE c == latest[st[s].dir]
<1>1. /\ UNCHANGED <<proc, rs>> /\ st[s].pc = "resume" /\ st[s] \in Terms
      /\ \A t \in Starters \ {s} : st'[t] = st[t]
  BY ResolveFits DEF procVars, Types, TermTypes
<1>2. CASE \E p \in Serving(c) : Dials(s, p, c) /\ UNCHANGED muddled
  <2>1. st'[s].pc = "dial"
    BY <1>1, <1>2 DEF Dials, Types, TermTypes, Terms
  <2> QED BY <1>1, <1>2, <2>1, SameRuns, SingleKept DEF NoNewSpawner
<1>3. CASE \E failed \in {FALSE, TRUE} :
             /\ Serving(c) = {} \/ failed
             /\ st' = [st EXCEPT ![s].pc = "spawn", ![s].key = c]
             /\ muddled' = (muddled \/ (c # None /\ (Serving(c) # {} \/ Underway(c))))
  <2> SUFFICES ASSUME ~muddled' PROVE Single'
    BY DEF Single, OneProxyPerConversation, Alone
  <2>1. ~muddled /\ (c # None => Serving(c) = {} /\ ~Underway(c))
    BY <1>3
  <2>2. st'[s].pc = "spawn" /\ st'[s].key = c
    BY <1>3 DEF Types, TermTypes, Terms
  <2>3. c # None => \A p \in Proxy : ~Runs(p, c)
    <3> SUFFICES ASSUME c # None, NEW p \in Proxy, Runs(p, c) PROVE FALSE
      OBVIOUS
    <3>1. CASE Listens(p)
      BY <2>1, <3>1 DEF Serving, Managed, UpHasSocket, Runs
    <3>2. CASE proc[p].phase = "spawned"
      BY <2>1, <3>2 DEF Underway, Runs
    <3> QED BY <3>1, <3>2 DEF Runs, Live, Listens
  <2>4. c # None => /\ ~(rs.pc # "idle" /\ rs.conv = c)
                    /\ \A t \in Starters : ~(st[t].pc = "spawn" /\ st[t].key = c)
    BY <2>1 DEF Underway
  <2> HIDE DEF c
  <2>5. AloneInTerminal /\ AloneInRestart /\ OneProxyPerConversation
    BY <2>1 DEF Single, Alone
  <2>6. AloneInTerminal'
    <3> SUFFICES ASSUME NEW t \in Starters, st'[t].pc = "spawn", st'[t].key # None
                 PROVE  /\ \A p \in Proxy : ~(Live(p) /\ Resumed(p) /\ proc[p].conv = st'[t].key)
                        /\ \A u \in Starters \ {t} : ~(st'[u].pc = "spawn" /\ st'[u].key = st'[t].key)
                        /\ ~(rs.pc # "idle" /\ rs.conv = st'[t].key)
      BY <1>1 DEF AloneInTerminal, Runs, Live, Resumed
    <3>1. CASE t = s
      BY <1>1, <2>2, <2>3, <2>4, <3>1 DEF Runs
    <3>2. CASE t # s
      BY <1>1, <2>2, <2>4, <2>5, <3>2 DEF AloneInTerminal, Runs
    <3> QED BY <3>1, <3>2
  <2>7. AloneInRestart' /\ OneProxyPerConversation'
    BY <1>1, <2>1, <2>5 DEF AloneInRestart, OneProxyPerConversation, Runs, Live, Resumed
  <2> QED BY <2>6, <2>7 DEF Single, Alone
<1> QED BY <1>2, <1>3 DEF Resolve

\* The new proxy is the only one that runs the conversation.
LEMMA SpawnRuns ==
  ASSUME Types, NEW d \in Dirs \cup {NoDir}, NEW c \in Conv \cup {None}, Spawn(d, c)
  PROVE  \E p \in Proxy :
           /\ \A q \in Proxy \ {p} : proc'[q] = proc[q]
           /\ Resumed(p)' => c # None /\ proc'[p].conv = c
BY SpawnFits DEF Types, Resumed

LEMMA StartSingle ==
  ASSUME Types, Single, NEW s \in Starters, StartProxy(s)
  PROVE  Single'
<1> DEFINE c == st[s].key
<1>1. /\ UNCHANGED <<rs, muddled>> /\ st[s].pc = "spawn" /\ st'[s].pc \in {"wait", "ended"}
      /\ \A t \in Starters \ {s} : st'[t] = st[t]
      /\ c \in Conv \cup {None} /\ st[s].dir \in Dirs \cup {NoDir}
  BY StartProxyFits
<1>2. CASE UNCHANGED proc
  BY <1>1, <1>2, SameRuns, SingleKept DEF NoNewSpawner
<1>3. CASE Spawn(st[s].dir, c)
  <2> SUFFICES ASSUME ~muddled' PROVE Single'
    BY DEF Single, OneProxyPerConversation, Alone
  <2>1. OneProxyPerConversation /\ AloneInTerminal /\ AloneInRestart /\ ~muddled
    BY <1>1 DEF Single, Alone
  <2>2. PICK p \in Proxy : /\ \A q \in Proxy \ {p} : proc'[q] = proc[q]
                           /\ Resumed(p)' => c # None /\ proc'[p].conv = c
    BY <1>1, <1>3, SpawnRuns
  <2>3. c # None => /\ \A q \in Proxy : ~(Live(q) /\ Resumed(q) /\ proc[q].conv = c)
                    /\ \A t \in Starters \ {s} : ~(st[t].pc = "spawn" /\ st[t].key = c)
                    /\ ~(rs.pc # "idle" /\ rs.conv = c)
    BY <1>1, <2>1 DEF AloneInTerminal, Runs
  <2> HIDE DEF c
  <2>4. OneProxyPerConversation'
    <3> SUFFICES ASSUME NEW q \in Proxy, NEW r \in Proxy, Live(q)', Live(r)', Resumed(q)',
                        Resumed(r)', proc'[q].conv = proc'[r].conv
                 PROVE  q = r
      BY DEF OneProxyPerConversation
    <3>1. CASE q # p /\ r # p
      BY <2>1, <2>2, <3>1 DEF OneProxyPerConversation, Live, Resumed
    <3>2. CASE q # p /\ r = p
      BY <2>2, <2>3, <3>2 DEF Live, Resumed
    <3>3. CASE q = p /\ r # p
      BY <2>2, <2>3, <3>3 DEF Live, Resumed
    <3> QED BY <3>1, <3>2, <3>3
  <2>5. AloneInTerminal'
    <3> SUFFICES ASSUME NEW t \in Starters, st'[t].pc = "spawn", st'[t].key # None
                 PROVE  /\ \A q \in Proxy : ~Runs(q, st[t].key)'
                        /\ \A u \in Starters \ {t} : ~(st'[u].pc = "spawn" /\ st'[u].key = st'[t].key)
                        /\ ~(rs'.pc # "idle" /\ rs'.conv = st'[t].key)
      BY <1>1 DEF AloneInTerminal
    <3>1. t # s /\ st'[t] = st[t]
      BY <1>1
    <3>2. \A q \in Proxy : ~(Live(q)' /\ Resumed(q)' /\ proc'[q].conv = st[t].key)
      BY <2>1, <2>2, <2>3, <3>1 DEF AloneInTerminal, Runs, Live, Resumed
    <3> QED BY <1>1, <2>1, <3>1, <3>2 DEF AloneInTerminal, Runs
  <2>6. AloneInRestart'
    BY <1>1, <2>1, <2>2, <2>3 DEF AloneInRestart, Runs, Live, Resumed
  <2> QED BY <2>4, <2>5, <2>6 DEF Single, Alone
<1> QED BY <1>2, <1>3, StartProxyFits

LEMMA LookupSingle ==
  ASSUME Types, Single, Lookup
  PROVE  Single'
<1> SUFFICES ASSUME ~muddled' PROVE Single'
  BY DEF Single, OneProxyPerConversation, Alone
<1>1. PICK e \in status :
        /\ ToResume(e) # None
        /\ rs' = [pc |-> "kill", dir |-> e.dir, pid |-> e.pid, conv |-> ToResume(e)]
        /\ muddled' = (muddled \/ Underway(ToResume(e)) \/ Ambiguous(e))
  BY DEF Lookup
<1>2. ~muddled /\ ~Underway(ToResume(e)) /\ ~Ambiguous(e)
  BY <1>1
<1>3. /\ rs'.pc = "kill" /\ rs'.pid = e.pid /\ rs'.conv = ToResume(e)
      /\ UNCHANGED <<proc, st>>
  BY <1>1 DEF Lookup, procVars
<1>4. OneProxyPerConversation /\ AloneInTerminal
  BY <1>2 DEF Single, Alone
<1> DEFINE c == ToResume(e)
<1>5. \A p \in Proxy \ {e.pid} : ~(Live(p) /\ proc[p].conv = c)
  BY <1>2 DEF Ambiguous
<1>6. \A s \in Starters : ~(st[s].pc = "spawn" /\ st[s].key = c)
  BY <1>2 DEF Underway
<1> HIDE DEF c
<1>7. rs'.conv = c
  BY <1>3 DEF c
<1>8. AloneInTerminal'
  BY <1>3, <1>4, <1>6, <1>7 DEF AloneInTerminal, Runs, Live, Resumed
<1>9. AloneInRestart'
  BY <1>3, <1>5, <1>7 DEF AloneInRestart, Runs, Live, Resumed
<1>10. OneProxyPerConversation'
  BY <1>2, <1>3, <1>4 DEF OneProxyPerConversation, Live, Resumed
<1> QED BY <1>8, <1>9, <1>10 DEF Single, Alone

LEMMA KillSingle ==
  ASSUME Types, Single, Kill
  PROVE  Single'
<1> SUFFICES ASSUME ~muddled' PROVE Single'
  BY DEF Single, OneProxyPerConversation, Alone
<1>1. /\ rs.pc = "kill" /\ rs' = [rs EXCEPT !.pc = "spawn"] /\ UNCHANGED st
      /\ Live(rs.pid) /\ Closes(rs.pid, "restart") /\ UNCHANGED muddled
  BY DEF Kill
<1>2. OneProxyPerConversation /\ AloneInTerminal /\ AloneInRestart /\ ~muddled
  BY <1>1 DEF Single, Alone
<1>3. rs.pid \in Proxy /\ rs'.pc = "spawn" /\ rs'.conv = rs.conv
  BY <1>1 DEF Types, RestartTypes, Cmds
<1>4. proc'[rs.pid].phase = "closing" /\ \A q \in Proxy \ {rs.pid} : proc'[q] = proc[q]
  BY <1>1, <1>3 DEF Closes, Types, ProcTypes, Procs
<1>5. \A q \in Proxy : Live(q)' => q # rs.pid /\ proc'[q] = proc[q]
  BY <1>4 DEF Live
<1>6. OneProxyPerConversation'
  BY <1>2, <1>5 DEF OneProxyPerConversation, Live, Resumed
<1>7. AloneInTerminal'
  BY <1>1, <1>2, <1>3, <1>5 DEF AloneInTerminal, Runs, Live, Resumed
<1>8. AloneInRestart'
  BY <1>1, <1>2, <1>3, <1>5 DEF AloneInRestart, Runs, Live, Resumed
<1> QED BY <1>6, <1>7, <1>8 DEF Single, Alone

LEMMA RespawnSingle ==
  ASSUME Types, Single, Respawn
  PROVE  Single'
<1>1. /\ rs.pc = "spawn" /\ rs'.pc = "idle" /\ UNCHANGED <<st, muddled>>
      /\ Spawn(rs.dir, rs.conv) \/ UNCHANGED proc
      /\ rs.conv \in Conv /\ rs.dir \in Dirs \cup {NoDir}
  BY DEF Respawn, NoCmd, Types, RestartTypes, Cmds
<1>2. CASE UNCHANGED proc
  BY <1>1, <1>2, SameRuns, SingleKept DEF NoNewSpawner
<1>3. CASE Spawn(rs.dir, rs.conv)
  <2> SUFFICES ASSUME ~muddled' PROVE Single'
    BY DEF Single, OneProxyPerConversation, Alone
  <2>1. OneProxyPerConversation /\ AloneInTerminal /\ AloneInRestart /\ ~muddled
    BY <1>1 DEF Single, Alone
  <2> DEFINE c == rs.conv
  <2>2. PICK p \in Proxy : /\ \A q \in Proxy \ {p} : proc'[q] = proc[q]
                           /\ Resumed(p)' => c # None /\ proc'[p].conv = c
    BY <1>1, <1>3, SpawnRuns
  <2>3. /\ \A q \in Proxy : ~(Live(q) /\ Resumed(q) /\ proc[q].conv = c)
        /\ \A t \in Starters : ~(st[t].pc = "spawn" /\ st[t].key = c)
    <3>1. \A q \in Proxy : ~Runs(q, c)
      BY <1>1, <2>1 DEF AloneInRestart
    <3>2. c # None
      BY <1>1, Numbers
    <3> QED BY <1>1, <2>1, <3>1, <3>2 DEF AloneInTerminal, Runs
  <2> HIDE DEF c
  <2>4. OneProxyPerConversation'
    <3> SUFFICES ASSUME NEW q \in Proxy, NEW r \in Proxy, Live(q)', Live(r)', Resumed(q)',
                        Resumed(r)', proc'[q].conv = proc'[r].conv
                 PROVE  q = r
      BY DEF OneProxyPerConversation
    <3>1. CASE q # p /\ r # p
      BY <2>1, <2>2, <3>1 DEF OneProxyPerConversation, Live, Resumed
    <3>2. CASE q # p /\ r = p
      BY <2>2, <2>3, <3>2 DEF Live, Resumed
    <3>3. CASE q = p /\ r # p
      BY <2>2, <2>3, <3>3 DEF Live, Resumed
    <3> QED BY <3>1, <3>2, <3>3
  <2>5. AloneInTerminal'
    BY <1>1, <2>1, <2>2, <2>3 DEF AloneInTerminal, Runs, Live, Resumed
  <2>6. AloneInRestart'
    BY <1>1 DEF AloneInRestart
  <2> QED BY <2>4, <2>5, <2>6 DEF Single, Alone
<1> QED BY <1>1, <1>2, <1>3

-----------------------------------------------------------------------------
(* The invariant, and what follows from it. *)

LEMMA SingleStep ==
  ASSUME Types, UpHasSocket, Single, [Next]_vars
  PROVE  Single'
<1>1. CASE TerminalStep
  <2> PICK s \in Starters : Moves(s) \/ Connects(s) \/ Resolve(s) \/ StartProxy(s)
    BY <1>1 DEF TerminalStep
  <2>1. CASE Moves(s)
    <3>1. st'[s].pc # "spawn" /\ \A t \in Starters \ {s} : st'[t] = st[t]
      BY <2>1, MovesFits, TermSet DEF Types
    <3>2. UNCHANGED <<proc, rs, muddled>>
      BY <2>1, MovesFits DEF procVars
    <3> QED BY <3>1, <3>2, SameRuns, SingleKept DEF NoNewSpawner
  <2>2. CASE Connects(s)
    BY <2>2, ConnectsFits, SameRuns, SingleKept DEF NoNewSpawner, procVars
  <2> QED BY <2>1, <2>2, ResolveSingle, StartSingle
<1>2. CASE WriteStatus \/ UNCHANGED vars
  BY <1>2, SameRuns, SingleKept DEF WriteStatus, vars, procVars, NoNewSpawner
<1> QED BY <1>1, <1>2, StepCases, ProxySingle, LookupSingle, KillSingle, RespawnSingle
       DEF RestartStep

LEMMA Initial == Init => Types /\ UpHasSocket /\ WatchedIsZero /\ Single
<1> SUFFICES ASSUME Init PROVE Types /\ UpHasSocket /\ WatchedIsZero /\ Single
  OBVIOUS
<1> USE Numbers, LifecycleAssumption
<1>1. ProcTypes /\ UpHasSocket
  <2>1. NoProxy \in Procs /\ \A d \in Dirs : [phase |-> "up", dir |-> d, conv |-> 1] \in Procs
    BY DEF NoProxy, Procs, Phases
  <2>2. proc \in [Proxy -> Procs] /\ socks \subseteq Proxy /\ UpHasSocket
    BY <2>1 DEF Init, NoProxy, UpHasSocket, Listens
  <2>3. latest \in [Dirs -> Conv \cup {None}] /\ cause \in [Proxy -> {"none", "exit", "gc", "restart"}]
    BY DEF Init
  <2> QED BY <2>2, <2>3 DEF ProcTypes
<1>2. GcTypes
  BY DEF Init, GcTypes, Ages
<1>3. TermTypes /\ \A s \in Starters : st[s].pc = "idle"
  <2>1. OkTerm(Idle) /\ Idle.pc = "idle" /\ Idle \in Terms
    BY DEF Idle, OkTerm, Terms, Steps
  <2>2. 0 \in 0 .. MaxStarts
    OBVIOUS
  <2> QED BY <2>1, <2>2 DEF Init, TermTypes
<1>4. RestartTypes /\ rs.pc = "idle"
  <2>1. 0 \in 0 .. MaxRestarts
    OBVIOUS
  <2> QED BY <2>1 DEF Init, RestartTypes, NoCmd, Cmds
<1>5. WatchedIsZero
  BY <1>3 DEF WatchedIsZero
<1>6. OneProxyPerConversation
  <2>1. \A p \in Proxy : p # 1 => proc[p] = NoProxy
    BY DEF Init
  <2>2. NoProxy.phase = "none"
    BY DEF NoProxy
  <2>3. \A p \in Proxy : Live(p) => p = 1
    BY <2>1, <2>2 DEF Live
  <2> QED BY <2>3 DEF OneProxyPerConversation
<1>7. Alone
  BY <1>3, <1>4 DEF Alone, AloneInTerminal, AloneInRestart
<1> QED BY <1>1, <1>2, <1>3, <1>4, <1>5, <1>6, <1>7 DEF Types, Single

\* The inductive invariant; Types is TypeOK with Targets.
LEMMA Inductive == Spec => [](Types /\ UpHasSocket /\ WatchedIsZero /\ Single)
<1>1. Types /\ UpHasSocket /\ WatchedIsZero /\ Single /\ [Next]_vars
        => Types' /\ UpHasSocket' /\ WatchedIsZero' /\ Single'
  BY TypesKept, SocketsKept, WatchedKept, SingleStep
<1> QED BY <1>1, Initial, PTL DEF Spec

\* The types hold; a restart ends no claude before it knows the conversation to
\* resume, and a terminal is only connected to a proxy (proxyrestart.go, bykey.go).
THEOREM LifecycleTypeOK == Spec => []TypeOK
<1>1. Types => TypeOK
  BY TypesAre
<1> QED BY <1>1, Inductive, PTL

\* No conversation is resumed by two proxies, however many terminals and restarts
\* there are, unless muddled says why (runStart, findLiveManagedByUUID).
THEOREM OneProxyEach == Spec => []OneProxyPerConversation
<1>1. Single => OneProxyPerConversation
  BY DEF Single
<1> QED BY <1>1, Inductive, PTL

\* A proxy that accepts connections can be found: Sweep of another one that is
\* just starting never takes its socket away (diag/sweep.go).
THEOREM SweepSparesTheLiving == Spec => []UpHasSocket
  BY Inductive, PTL

\* The GC of idle proxies ends no proxy somebody is attached to, except within
\* one snapshot of their attaching (diag/idlegc.go, OnClientConnect).
THEOREM GCSpares == Spec => GCSparesWatched
<1> DEFINE Spares == \A p \in Proxy : cause[p] = "none" /\ cause'[p] = "gc" => Clients(p) \subseteq unseen
<1>1. Types /\ WatchedIsZero /\ [Next]_vars => [Spares]_vars
  <2> SUFFICES ASSUME Types, WatchedIsZero, [Next]_vars, NEW p \in Proxy,
                      cause[p] = "none", cause'[p] = "gc", NEW s \in Clients(p)
               PROVE  s \in unseen
    OBVIOUS
  <2>1. cause' # cause
    OBVIOUS
  <2>2. IdleGCSweep(p)
    <3>1. CASE ProxyStep
      <4>1. PICK q \in Proxy : Exit(q) \/ Gone(q) \/ IdleGCSweep(q)
        BY <2>1, <3>1 DEF ProxyStep, Listen, Talk, WriteSnap, HoursPass, procVars
      <4>2. \A w : cause' = [cause EXCEPT ![q] = w] => q = p /\ w = "gc"
        BY DEF Types, ProcTypes
      <4> QED BY <4>1, <4>2 DEF Exit, Gone, IdleGCSweep, Closes
    <3>2. CASE TerminalStep
      BY <2>1, <3>2, MovesFits, ConnectsFits, ResolveFits, StartProxyFits
         DEF TerminalStep, procVars
    <3>3. CASE RestartStep
      <4>1. Kill /\ cause' = [cause EXCEPT ![rs.pid] = "restart"]
        BY <2>1, <3>3 DEF RestartStep, Lookup, Kill, Respawn, Closes, procVars
      <4> QED BY <4>1 DEF Types, ProcTypes
    <3>4. CASE WriteStatus \/ UNCHANGED vars
      BY <2>1, <3>4 DEF WriteStatus, vars, procVars
    <3> QED BY <3>1, <3>2, <3>3, <3>4, StepCases
  <2>3. st[s].pc = "on" /\ st[s].pid = p /\ s \in Starters
    BY DEF Clients
  <2> QED BY <2>2, <2>3 DEF IdleGCSweep, WatchedIsZero
<1> QED BY <1>1, Inductive, PTL DEF Spec, GCSparesWatched

=============================================================================
