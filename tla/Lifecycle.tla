----------------------------- MODULE Lifecycle -----------------------------
(***************************************************************************)
(* How sessions begin, are found again and end: `claude-master start`      *)
(* (start.go) with attach-by-key (client/bykey.go), the proxy process      *)
(* around RunProxy (main.go runProxy, diag/sweep.go), restart-proxy        *)
(* (agent/proxyrestart.go, remoteexec_unix.go), and what the monitor does  *)
(* to all of them: STATUS_FILE and the GC of idle proxies (diag/idlegc.go).*)
(*                                                                         *)
(* None of them talk to each other.  They meet in files that are always a  *)
(* little old: STATUS_FILE, <pid>.sock, the snapshot of a proxy's counters *)
(* and claude's own conversation files.                                    *)
(***************************************************************************)
EXTENDS Integers, FiniteSets

CONSTANTS
  Starters,     \* terminals in which `start` or `attach` is run
  Dirs,         \* working directories
  StartDirs,    \* bound: those in which the terminals start
  Running,      \* bound: those in which a session may run at the start
  Below,        \* pairs <<d, e>> where e is inside d
  MaxProxies,   \* bound: proxies ever started
  MaxStarts,    \* bound: commands run in a terminal
  MaxRestarts   \* bound: restart-proxy commands

ASSUME LifecycleAssumption ==
  /\ StartDirs \subseteq Dirs /\ Running \subseteq Dirs
  /\ Below \subseteq Dirs \X Dirs /\ IsFiniteSet(Starters)
  /\ MaxProxies \in Nat \ {0} /\ {MaxStarts, MaxRestarts} \subseteq Nat

Proxy  == 1 .. MaxProxies         \* also the pid of its claude
Old    == MaxProxies + 1          \* a conversation from before
Conv   == 1 .. Old                \* p is the one that proxy p began
None   == 0
NoDir  == "?"                     \* lsof did not tell

VARIABLES
  proc,      \* proxies: phase, directory, conversation
  cause,     \* history: what ended a proxy
  socks,     \* proxies whose <pid>.sock exists
  left,      \* LastDisconnectNs of a proxy: 0 while it is attached to
  snap,      \* the copy of it in diag/<pid>.snap
  latest,    \* conversation file of a directory written last
  status,    \* sessions in STATUS_FILE
  st,        \* the commands in the terminals
  unseen,    \* history: attached since the last snapshot
  begun,     \* commands begun in each terminal
  rs,        \* restart-proxy in progress
  restarts,  \* restart-proxy commands so far
  muddled    \* history: two spawners overlapped, or one acted on less
             \* than it should have seen

procVars == <<proc, cause, socks, latest>>
gcVars   == <<left, snap>>
vars == <<procVars, gcVars, status, st, unseen, begun, rs, restarts, muddled>>

NoProxy == [phase |-> "none", dir |-> NoDir, conv |-> None]
Idle    == [pc |-> "idle", dir |-> NoDir, pid |-> None, key |-> 0]
NoCmd   == [pc |-> "idle", dir |-> NoDir, pid |-> None, conv |-> None]

Init ==
  /\ \/ proc = [p \in Proxy |-> NoProxy] /\ socks = {}
     \/ \E d \in Running :
          /\ proc = [p \in Proxy |-> IF p = 1 THEN [phase |-> "up", dir |-> d, conv |-> 1]
                                     ELSE NoProxy]
          /\ socks = {1}
  /\ cause = [p \in Proxy |-> "none"] /\ status = {}
  /\ left = [p \in Proxy |-> "zero"] /\ snap = [p \in Proxy |-> "zero"]
  /\ \E d \in Dirs : latest = [e \in Dirs |-> IF e = d THEN Old ELSE None]
  /\ st = [s \in Starters |-> Idle] /\ begun = [s \in Starters |-> 0]
  /\ unseen = {} /\ rs = NoCmd /\ restarts = 0 /\ muddled = FALSE

\* The claude of p runs (ps lists it once it listens), the proxy accepts.
Live(p)    == proc[p].phase \in {"spawned", "up"}
Listens(p) == proc[p].phase = "up"
Resumed(p) == proc[p].conv # p

Clients(p) == {s \in Starters : st[s].pc = "on" /\ st[s].pid = p}

\* Key: the UUID of --resume, or pid-<n>, written -n.
Key(p)       == IF Resumed(p) THEN proc[p].conv ELSE -p
Resumable(k) == k > 0

\* scanner.Scan and managedOnly; the map by key keeps one session of each.
Managed == {p \in Proxy : Listens(p) /\ p \in socks}

-----------------------------------------------------------------------------
(***************************************************************************)
(* The proxy process.                                                      *)
(***************************************************************************)
Spawn(d, c) ==
  \E p \in Proxy :
    /\ proc[p].phase = "none" /\ \A q \in 1 .. p - 1 : proc[q].phase # "none"
    /\ proc' = [proc EXCEPT ![p] = [phase |-> "spawned", dir |-> d,
                                    conv |-> IF c = None THEN p ELSE c]]

\* Sweep removes what dead processes left; then claude is started and the
\* socket is opened.
Listen(p) ==
  /\ proc[p].phase = "spawned"
  /\ proc' = [proc EXCEPT ![p].phase = "up"]
  /\ socks' = {q \in socks : Live(q)} \cup {p}
  /\ UNCHANGED <<cause, latest, gcVars, status, st, unseen, begun, rs, restarts, muddled>>

\* claude writes its conversation file.
Talk(p) ==
  /\ Listens(p) /\ proc[p].dir # NoDir
  /\ latest' = [latest EXCEPT ![proc[p].dir] = proc[p].conv]
  /\ UNCHANGED <<proc, cause, socks, gcVars, status, st, unseen, begun, rs,
                 restarts, muddled>>

\* claude ends, or its proxy closes the PTY and kills it after a signal.
Closes(p, why) ==
  /\ proc' = [proc EXCEPT ![p].phase = "closing"]
  /\ cause' = [cause EXCEPT ![p] = why]

Exit(p) ==
  /\ Listens(p) /\ Closes(p, "exit")
  /\ UNCHANGED <<socks, latest, gcVars, status, st, unseen, begun, rs, restarts,
                 muddled>>

\* RunProxy returns and removes its files, or five seconds after a signal to
\* the proxy os.Exit(128) leaves them there.  The snapshot stays in either case
\* (os.Exit skips the deferred removal), but nobody reads that of a dead process.
Gone(p) ==
  /\ proc[p].phase = "closing" /\ Clients(p) = {}
  /\ proc' = [proc EXCEPT ![p].phase = "gone", ![p].dir = NoDir]
  /\ \/ socks' = socks \ {p}
     \/ cause[p] = "gc" /\ UNCHANGED socks
  /\ cause' = [cause EXCEPT ![p] = "none"]
  /\ left' = [left EXCEPT ![p] = "zero"] /\ snap' = [snap EXCEPT ![p] = "zero"]
  /\ UNCHANGED <<latest, status, st, unseen, begun, rs, restarts,
                 muddled>>

-----------------------------------------------------------------------------
(***************************************************************************)
(* The counters of a proxy, their snapshot every 30 s, and the monitor.    *)
(* LastDisconnectNs is zero before the first client and while there is one;*)
(* it is "old" once IdleGCHours have passed.                               *)
(***************************************************************************)
\* Mutant of Connected: LastDisconnectNs is not reset.
ConnectedLate(p) == UNCHANGED left

\* OnClientConnect, OnClientDisconnect.
Connected(p) == left' = [left EXCEPT ![p] = "zero"]

Disconnected(p, s) == left' = [left EXCEPT ![p] = IF Clients(p) = {s} THEN "recent" ELSE @]

WriteSnap(p) ==
  /\ Live(p)
  /\ snap' = [snap EXCEPT ![p] = left[p]]
  /\ unseen' = unseen \ Clients(p)
  /\ UNCHANGED <<procVars, left, status, st, begun, rs, restarts, muddled>>

\* IdleGCHours pass, and many snapshots are written meanwhile.
HoursPass(p) ==
  /\ left[p] = "recent" /\ snap[p] = "recent" /\ Live(p)
  /\ left' = [left EXCEPT ![p] = "old"] /\ snap' = [snap EXCEPT ![p] = "old"]
  /\ UNCHANGED <<procVars, status, st, unseen, begun, rs, restarts, muddled>>

IdleGCSweep(p) ==
  /\ snap[p] = "old" /\ Live(p) /\ Closes(p, "gc")
  /\ UNCHANGED <<socks, latest, gcVars, status, st, unseen, begun, rs, restarts,
                 muddled>>

\* A tick writes STATUS_FILE.  lsof may fail for a session.  (A tick whose scan
\* fails writes nothing.)
WriteStatus ==
  /\ \E blind \in SUBSET Managed :
     \E listed \in {l \in SUBSET Managed :
            \A p \in Managed : \E q \in l : Key(q) = Key(p)} :
       /\ \A p, q \in listed : Key(p) = Key(q) => p = q
       /\ status' = {[pid |-> p, dir |-> IF p \in blind THEN NoDir ELSE proc[p].dir] : p \in listed}
  /\ UNCHANGED <<procVars, gcVars, st, unseen, begun, rs, restarts, muddled>>

-----------------------------------------------------------------------------
(***************************************************************************)
(* `start` in a terminal.                                                  *)
(***************************************************************************)
Goto(s, pc) == st' = [st EXCEPT ![s].pc = pc]
Attach(s, k) == st' = [st EXCEPT ![s].pc = "attach", ![s].key = k]
Dials(s, p, k) == st' = [st EXCEPT ![s].pc = "dial", ![s].pid = p, ![s].key = k]

\* Somebody has decided to start a proxy for c, or is just starting one.
Underway(c) ==
  \/ \E s \in Starters : st[s].pc = "spawn" /\ st[s].key = c
  \/ rs.pc # "idle" /\ rs.conv = c
  \/ \E p \in Proxy : proc[p].phase = "spawned" /\ proc[p].conv = c

Begin(s, d) ==
  /\ st[s].pc = "idle" /\ begun[s] < MaxStarts
  /\ begun' = [begun EXCEPT ![s] = @ + 1]
  /\ st' = [st EXCEPT ![s] = [Idle EXCEPT !.pc = "look", !.dir = d]]
  /\ UNCHANGED <<procVars, gcVars, status, unseen, rs, restarts, muddled>>

\* findLiveSessionByCwd, findLiveSessionsInSubtree.
Here(d)  == {e \in status : e.dir = d}
Under(d) == {e \in status : <<d, e.dir>> \in Below}

\* A session of this directory, or one further down that the user picks.
\* (readSnapStartCwd asks for the snapshot of claude's pid; snapshots are named
\* by the proxy's, so the restart in a moved directory does not happen.)
Look(s) ==
  /\ st[s].pc = "look"
  /\ LET d == st[s].dir IN
     \/ \E e \in Here(d) : Attach(s, Key(e.pid))
     \/ Here(d) = {} /\ \E e \in Under(d) : Attach(s, Key(e.pid))
     \/ Here(d) = {} /\ Goto(s, "resume")
  /\ UNCHANGED <<procVars, gcVars, status, unseen, begun, rs, restarts, muddled>>

\* findLiveManagedByUUID.
Serving(c) == {p \in Managed : Resumed(p) /\ proc[p].conv = c}

\* Mutant of Resolve: trusts STATUS_FILE, without the backstop.
ResolveTrusting(s) ==
  /\ st[s].pc = "resume"
  /\ LET c == latest[st[s].dir] IN
       /\ st' = [st EXCEPT ![s].pc = "spawn", ![s].key = c]
       /\ muddled' = (muddled \/ (c # None /\ Underway(c)))
  /\ UNCHANGED <<procVars, gcVars, status, unseen, begun, rs, restarts>>

\* resolveResumeArgs, and the search of the processes for a proxy that already
\* resumes the conversation; a scan that fails finds none.
Resolve(s) ==
  /\ st[s].pc = "resume"
  /\ LET c == latest[st[s].dir] IN
     \/ \E p \in Serving(c) : Dials(s, p, c) /\ UNCHANGED muddled
     \/ \E failed \in {FALSE, TRUE} :
          /\ Serving(c) = {} \/ failed
          /\ st' = [st EXCEPT ![s].pc = "spawn", ![s].key = c]
          /\ muddled' = (muddled \/ (c # None /\ (Serving(c) # {} \/ Underway(c))))
  /\ UNCHANGED <<procVars, gcVars, status, unseen, begun, rs, restarts>>

\* spawnDetachedProxy.
StartProxy(s) ==
  /\ st[s].pc = "spawn"
  /\ \/ Spawn(st[s].dir, st[s].key) /\ Goto(s, "wait")
     \/ Goto(s, "ended") /\ UNCHANGED proc
  /\ UNCHANGED <<cause, socks, latest, gcVars, status, unseen, begun, rs, restarts,
                 muddled>>

\* waitKeyForCwd; after 30 s the backstop again, or exit.
Wait(s) ==
  /\ st[s].pc = "wait"
  /\ \/ \E e \in Here(st[s].dir) : Attach(s, Key(e.pid))
     \/ \E p \in Serving(st[s].key) : Dials(s, p, st[s].key)
     \/ Goto(s, "ended")
  /\ UNCHANGED <<procVars, gcVars, status, unseen, begun, rs, restarts, muddled>>

-----------------------------------------------------------------------------
(***************************************************************************)
(* Attach by key: RunByKey, and Run on the socket it finds.                *)
(***************************************************************************)
BeginAttach(s) ==
  /\ st[s].pc = "idle" /\ begun[s] < MaxStarts
  /\ begun' = [begun EXCEPT ![s] = @ + 1]
  /\ \E e \in status : Attach(s, Key(e.pid))
  /\ UNCHANGED <<procVars, gcVars, status, unseen, rs, restarts, muddled>>

\* ResolveSockByKey.
Found(k) == {e.pid : e \in {f \in status : Key(f.pid) = k /\ f.pid \in socks}}

\* Mutant of ResolveKey: waits for the key for ever.
ResolveKeyAlways(s) ==
  /\ st[s].pc = "attach"
  /\ \E p \in Found(st[s].key) : Dials(s, p, st[s].key)
  /\ UNCHANGED <<procVars, gcVars, status, unseen, begun, rs, restarts, muddled>>

\* Found, or not for 10 s.
ResolveKey(s) ==
  /\ st[s].pc = "attach"
  /\ \/ \E p \in Found(st[s].key) : Dials(s, p, st[s].key)
     \/ Found(st[s].key) = {} /\ Goto(s, "ended")
  /\ UNCHANGED <<procVars, gcVars, status, unseen, begun, rs, restarts, muddled>>

\* Connect: at most thirty attempts, then the key is resolved again.
Dial(s) ==
  /\ st[s].pc = "dial"
  /\ LET p == st[s].pid IN
     \/ /\ Listens(p)
        /\ Goto(s, "on") /\ Connected(p) /\ unseen' = unseen \cup {s}
     \/ /\ ~Listens(p)
        /\ Goto(s, "attach") /\ UNCHANGED <<left, unseen>>
  /\ UNCHANGED <<procVars, snap, status, begun, rs, restarts, muddled>>

Leaves(s) ==
  /\ Goto(s, "ended") /\ unseen' = unseen \ {s}
  /\ UNCHANGED <<procVars, snap, status, begun, rs, restarts, muddled>>

\* The terminal is closed.
Quit(s) ==
  /\ st[s].pc = "on" /\ Live(st[s].pid)
  /\ Disconnected(st[s].pid, s) /\ Leaves(s)

\* The proxy ends the connection: runLoop returns nil, so Run and RunByKey do.
EOF(s) ==
  /\ st[s].pc = "on" /\ ~Live(st[s].pid)
  /\ Disconnected(st[s].pid, s) /\ Leaves(s)

Again(s) ==
  /\ st[s].pc = "ended" /\ begun[s] < MaxStarts
  /\ st' = [st EXCEPT ![s] = Idle]
  /\ UNCHANGED <<procVars, gcVars, status, unseen, begun, rs, restarts, muddled>>

-----------------------------------------------------------------------------
(***************************************************************************)
(* ProxyRestarter.Restart, for a command from the cloud.                   *)
(***************************************************************************)
\* The conversation to resume; without one nothing is killed.
ToResume(e) == IF Resumable(Key(e.pid)) THEN Key(e.pid)
               ELSE IF e.dir = NoDir THEN None ELSE latest[e.dir]

\* Another session runs the conversation of the directory.
Ambiguous(e) == \E p \in Proxy \ {e.pid} : Live(p) /\ proc[p].conv = ToResume(e)

\* Mutant of Lookup: kills first, and asks for the conversation afterwards.
LookupUnresolved ==
  /\ rs.pc = "idle" /\ restarts < MaxRestarts /\ restarts' = restarts + 1
  /\ \E e \in status :
       /\ rs' = [pc |-> "kill", dir |-> e.dir, pid |-> e.pid, conv |-> ToResume(e)]
       /\ muddled' = (muddled \/ Underway(ToResume(e)) \/ Ambiguous(e))
  /\ UNCHANGED <<procVars, gcVars, status, st, unseen, begun>>

Lookup ==
  /\ rs.pc = "idle" /\ restarts < MaxRestarts /\ restarts' = restarts + 1
  /\ \E e \in status :
       /\ ToResume(e) # None
       /\ rs' = [pc |-> "kill", dir |-> e.dir, pid |-> e.pid, conv |-> ToResume(e)]
       /\ muddled' = (muddled \/ Underway(ToResume(e)) \/ Ambiguous(e))
  /\ UNCHANGED <<procVars, gcVars, status, st, unseen, begun>>

\* killProxy; STATUS_FILE may be old and the process gone.
Kill ==
  /\ rs.pc = "kill" /\ rs' = [rs EXCEPT !.pc = "spawn"]
  /\ \/ Live(rs.pid) /\ Closes(rs.pid, "restart") /\ UNCHANGED muddled
     \/ ~Live(rs.pid) /\ muddled' = TRUE /\ UNCHANGED <<proc, cause>>
  /\ UNCHANGED <<socks, latest, gcVars, status, st, unseen, begun, restarts>>

\* spawnResumeProxy, or its failure.
Respawn ==
  /\ rs.pc = "spawn" /\ rs' = NoCmd
  /\ \/ Spawn(rs.dir, rs.conv)
     \/ UNCHANGED proc
  /\ UNCHANGED <<cause, socks, latest, gcVars, status, st, unseen, begun, restarts,
                 muddled>>

-----------------------------------------------------------------------------
Command(s) == Look(s) \/ Resolve(s) \/ StartProxy(s) \/ Wait(s)
              \/ ResolveKey(s) \/ Dial(s) \/ EOF(s)

Next ==
  \/ \E p \in Proxy : Listen(p) \/ Talk(p) \/ Exit(p) \/ Gone(p)
                      \/ WriteSnap(p) \/ HoursPass(p) \/ IdleGCSweep(p)
  \/ \E s \in Starters : Command(s) \/ Quit(s) \/ Again(s) \/ BeginAttach(s)
  \/ \E s \in Starters, d \in StartDirs : Begin(s, d)
  \/ WriteStatus \/ Lookup \/ Kill \/ Respawn

Spec == Init /\ [][Next]_vars

\* The commands go on, the monitor ticks, a proxy whose claude is gone ends.
Fairness ==
  /\ \A s \in Starters : WF_vars(Command(s))
  /\ WF_vars(WriteStatus)
  /\ \A p \in Proxy : WF_vars(Gone(p))

FairSpec == Spec /\ Fairness

-----------------------------------------------------------------------------
\* Types; a terminal that is connected or connecting has a proxy; a restart
\* ends no claude before it knows the conversation to resume.
TypeOK ==
  /\ proc \in [Proxy -> [phase : {"none", "spawned", "up", "closing", "gone"},
                         dir : Dirs \cup {NoDir}, conv : Conv \cup {None}]]
  /\ cause \in [Proxy -> {"none", "exit", "gc", "restart"}]
  /\ socks \subseteq Proxy /\ latest \in [Dirs -> Conv \cup {None}]
  /\ left \in [Proxy -> {"zero", "recent", "old"}]
  /\ snap \in [Proxy -> {"zero", "recent", "old"}]
  /\ status \subseteq [pid : Proxy, dir : Dirs \cup {NoDir}]
  /\ st \in [Starters -> [pc : {"idle", "look", "resume", "spawn", "wait",
                                "attach", "dial", "on", "ended"},
                          dir : Dirs \cup {NoDir}, pid : Proxy \cup {None},
                          key : Int]]
  /\ \A s \in Starters : st[s].pc \in {"dial", "on"} => st[s].pid # None
  /\ unseen \subseteq Starters /\ begun \in [Starters -> 0 .. MaxStarts]
  /\ rs \in [pc : {"idle", "kill", "spawn"}, dir : Dirs \cup {NoDir},
             pid : Proxy \cup {None}, conv : Conv \cup {None}]
  /\ rs.pc # "idle" => rs.conv # None
  /\ restarts \in 0 .. MaxRestarts /\ muddled \in BOOLEAN

\* No conversation is resumed by two proxies at once, however old STATUS_FILE
\* is and whatever lsof hides (the backstop of runStart), unless two spawners
\* overlapped, a scan of the processes failed, or a restart went by an entry
\* that was out of date or by a directory with several sessions.
OneProxyPerConversation ==
  ~muddled => \A p, q \in Proxy :
    Live(p) /\ Live(q) /\ Resumed(p) /\ Resumed(q) /\ proc[p].conv = proc[q].conv
      => p = q

\* The GC of idle proxies only ends a proxy that somebody is attached to if
\* they attached after its last snapshot, which is at most 30 s old.
GCSparesWatched ==
  [][\A p \in Proxy : cause[p] = "none" /\ cause'[p] = "gc" => Clients(p) \subseteq unseen]_vars

\* Every `start` and every `attach` comes to an end: it is connected, or it has
\* given up.  It never waits for a session that is gone.
Settles ==
  \A s \in Starters : st[s].pc \notin {"idle", "on", "ended"} ~> st[s].pc \in {"on", "ended"}
=============================================================================
