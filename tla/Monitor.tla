------------------------------ MODULE Monitor ------------------------------
(***************************************************************************)
(* The monitor daemon: monitor.go RunLoop with its limit watcher           *)
(* (limit.go), its resume scheduler (resume.go) and the tmux windows       *)
(* (TmuxWindows).  A tick scans the sessions, adds, heals and renames      *)
(* windows, interrupts sessions at their usage limit, drops sessions that  *)
(* are gone, resumes those whose limit was reset and writes STATUS_FILE.   *)
(*                                                                         *)
(* Between any two of these steps proxies come and go, their status files  *)
(* change, windows close, and the daemon may be killed and started again.  *)
(* To save states, what the tick cannot see until some later step happens  *)
(* just before that step: a proxy starts between two ticks, a status file  *)
(* changes once its session is scanned, a reset time passes before Due,    *)
(* and what happens while the daemon is down happens before it is killed.  *)
(***************************************************************************)
EXTENDS TmuxWindows

CONSTANTS
  LevelsOf,    \* bound: usage levels the status file of a session may show
  MaxInc,      \* bound: proxies started for a session, one after the other
  Cooldown,    \* ticks between two healings of a session (30 s)
  MaxResets,   \* bound: times at which limits are reset
  MaxFaults    \* bound: steps in which the monitor is killed, the user closes a
               \* window, tmux commands fail or a message does not get through

ASSUME MonitorAssumption ==
  /\ IsFiniteSet(Sessions) /\ LevelsOf \in [Sessions -> SUBSET (0 .. 4)]
  /\ MaxInc \in [Sessions -> Nat]
  /\ {Cooldown, MaxResets, MaxFaults, MaxWins} \subseteq Nat

\* usage_percent as the watcher sees it: not in the file, below the warning,
\* at the warning, at the interrupt, at 100 %.
Unknown == 0   Low == 1   Approaching == 2   Interrupt == 3   Reached == 4
Level == Unknown .. Reached
NoStatus == [level |-> Unknown, active |-> FALSE]
Entry    == [at : Nat, inc : Nat]
NoEntry  == [at |-> 0, inc |-> 0]
Nobody   == [s \in Sessions |-> 0]
Nothing  == [s \in Sessions |-> NoEntry]
NoMap    == [s \in Sessions |-> NoName]

VARIABLES
  proc, spawned,  \* proxy of each session (0: none), proxies started so far
  status,         \* its <pid>.status.json
  clock,          \* reset times that have passed
  pc,             \* where the monitor is in its tick
  current,        \* this tick's scan: the proxy of each session
  todo,           \* sessions of the scan not yet looked at
  seen, listOK,   \* window names at the start of the tick
  known,          \* sessions of the last tick
  cool,           \* ticks until a session may be healed again
  notified,       \* LimitWatcher.notified (0: no entry)
  pending, disk,  \* ResumeScheduler.pending and its file
  resumes,        \* result of Due not yet sent
  focus,          \* session just interrupted, not yet scheduled
  tm,             \* windows and the manager's map
  saved,          \* window names in STATUS_FILE
  msg,            \* history: the message the last step sent
  owed,           \* history: proxy that was told to pause and not resumed since
  lapsed,         \* history: sessions whose owed proxy the daemon gave up: no
                  \* reset time, a message that failed, or a kill
  clash,          \* history: two windows, or two sessions, had one name
  faults          \* faults so far

envVars   == <<proc, spawned, status, clock>>
tickVars  == <<pc, current, todo, seen, listOK, focus, resumes>>
limitVars == <<known, cool, notified, pending, disk>>
histVars  == <<owed, lapsed>>
vars == <<envVars, tickVars, limitVars, tm, saved, msg, histVars, clash, faults>>

Quiet == msg' = [kind |-> "none"]

\* Two windows, or two sessions in the manager's map, have the same name.
SharesName(t) ==
  \/ \E v, w \in t.wins : v # w /\ v.name = w.name
  \/ \E a, b \in Sessions : a # b /\ t.map[a] # NoName /\ t.map[a] = t.map[b]

Fault == faults < MaxFaults /\ faults' = faults + 1

\* The commands of bad fail, in one step.
Failing(bad) == IF bad = {} THEN UNCHANGED faults ELSE Fault

\* Nothing is owed to s any more.
Settled(s) == owed' = [owed EXCEPT ![s] = 0] /\ lapsed' = lapsed \ {s}

Tmux(t) == /\ tm' = t
           /\ clash' = (clash \/ SharesName(t))

Init ==
  /\ proc = Nobody /\ spawned = Nobody /\ clock = 0
  /\ status = [s \in Sessions |-> NoStatus]
  /\ pc = "idle" /\ current = Nobody /\ todo = {}
  /\ seen = {} /\ listOK = TRUE /\ focus = {} /\ resumes = {}
  /\ known = {} /\ cool = Nobody /\ notified = [s \in Sessions |-> 0]
  /\ pending = Nothing /\ disk = Nothing
  /\ tm = [wins |-> {}, map |-> NoMap] /\ saved = NoMap
  /\ msg = [kind |-> "none"]
  /\ owed = Nobody /\ clash = FALSE
  /\ lapsed = {}
  /\ faults = 0

-----------------------------------------------------------------------------
(***************************************************************************)
(* The proxies.  The status file's percentage only ever grows: the scanner *)
(* of a proxy keeps the largest it has seen (screen/status.go).            *)
(***************************************************************************)
Spawn(s) ==
  /\ pc = "idle" /\ proc[s] = 0 /\ spawned[s] < MaxInc[s]
  /\ spawned' = [spawned EXCEPT ![s] = @ + 1]
  /\ proc' = [proc EXCEPT ![s] = spawned[s] + 1]
  /\ Quiet
  /\ UNCHANGED <<status, clock, tickVars, limitVars, tm, saved, histVars,
                 clash, faults>>

Ends(s) ==
  /\ proc[s] # 0
  /\ proc' = [proc EXCEPT ![s] = 0]
  /\ status' = [status EXCEPT ![s] = NoStatus]
  /\ Settled(s)
  /\ Quiet
  /\ UNCHANGED <<spawned, clock, tickVars, limitVars, tm, saved, clash, faults>>

StatusWrite(s) ==
  /\ s \in todo \cap known /\ proc[s] = current[s]
  /\ \E l \in LevelsOf[s], a \in BOOLEAN :
       /\ l >= status[s].level
       /\ status' = [status EXCEPT ![s] = [level |-> l, active |-> a]]
  /\ status' # status
  /\ Quiet
  /\ UNCHANGED <<proc, spawned, clock, tickVars, limitVars, tm, saved, histVars,
                 clash, faults>>

ResetPasses ==
  /\ pc = "sync" /\ disk # Nothing /\ clock < MaxResets /\ clock' = clock + 1
  /\ Quiet
  /\ UNCHANGED <<proc, spawned, status, tickVars, limitVars, tm, saved,
                 histVars, clash, faults>>

\* A window closes: its socket client has lost its proxy, or the user did it.
WindowCloses(w) ==
  /\ \/ w.inc # proc[w.owner] /\ UNCHANGED faults
     \/ w.inc = proc[w.owner] /\ Fault
  /\ tm' = [tm EXCEPT !.wins = @ \ {w}]
  /\ Quiet
  /\ UNCHANGED <<envVars, tickVars, limitVars, saved, histVars, clash>>

-----------------------------------------------------------------------------
(***************************************************************************)
(* One tick.                                                               *)
(***************************************************************************)
At(l) == pc = l

\* scanSessions, managedOnly, windowSet.  (A tick whose scan fails does
\* nothing.)
Scan ==
  /\ At("idle") /\ pc' = "sync"
  /\ current' = proc /\ todo' = {s \in Sessions : proc[s] # 0}
  /\ seen' = NamesOf(tm.wins)
  /\ \/ listOK' = TRUE /\ UNCHANGED faults
     \/ listOK' = FALSE /\ Fault
  /\ Quiet
  /\ UNCHANGED <<envVars, focus, resumes, limitVars, tm, saved, histVars,
                 clash>>

SyncNew(s) ==
  /\ At("sync") /\ s \in todo \ known
  /\ todo' = todo \ {s}
  /\ \E bad \in SUBSET AddCommands :
       Failing(bad) /\ Tmux(AddWindow(tm, s, current[s], bad))
  /\ Quiet
  /\ UNCHANGED <<envVars, pc, current, seen, listOK, focus, resumes, limitVars,
                 saved, histVars>>

\* readSessionStatus: the file of the scanned proxy, gone with it.
StatusOf(s) == IF proc[s] = current[s] THEN status[s] ELSE NoStatus

\* LimitWatcher.Check: an event only when the level rises above the last one.
Rises(s) == StatusOf(s).level \in Approaching .. Reached
            /\ StatusOf(s).level > notified[s]
Checked(s) ==
  CASE StatusOf(s).level = Unknown -> notified[s]
    [] StatusOf(s).level = Low     -> 0
    [] OTHER -> IF Rises(s) THEN StatusOf(s).level ELSE notified[s]

\* Mutant of Heals: a window that is known is trusted to exist.
HealsUntracked(s) == listOK /\ tm.map[s] = NoName /\ cool[s] = 0

Heals(s) == listOK /\ Missing(tm, seen, s) /\ cool[s] = 0

\* The window work before the limits, then rename to name (if any).
Renamed(t, s, name, bad) == IF name = NoName THEN t ELSE RenameWindow(t, s, name, bad)

WindowStep(s, name) ==
  \E ren \in IF name = NoName THEN {{}} ELSE SUBSET RenameCommands :
    \/ /\ Heals(s)
       /\ cool' = [cool EXCEPT ![s] = Cooldown]
       /\ \E add \in SUBSET AddCommands :
            LET added == AddWindow(tm, s, current[s], add) IN
            /\ Failing(add \cup ren)
            /\ tm' = Renamed(added, s, name, ren)
            /\ clash' = (clash \/ SharesName(added) \/ SharesName(tm'))
    \/ /\ ~Heals(s)
       /\ Failing(ren) /\ Tmux(Renamed(tm, s, name, ren)) /\ UNCHANGED cool

Remark(s, r) == <<DirOf[s], r>>

\* handleLimitEvent for an approaching limit or an idle session.
Warned(s) ==
  /\ Rises(s)
  /\ StatusOf(s).level = Approaching \/ ~StatusOf(s).active
  /\ WindowStep(s, Remark(s, "[warn]"))
  /\ notified' = [notified EXCEPT ![s] = Checked(s)]
  /\ Quiet /\ UNCHANGED <<pc, focus, pending, disk, histVars>>

\* handleLimitEvent: ESC and the request to pause; whether it arrived is not
\* looked at.  The rest is Schedule.
Interrupted(s) ==
  /\ Rises(s)
  /\ StatusOf(s).level >= Interrupt /\ StatusOf(s).active
  /\ WindowStep(s, NoName)
  /\ notified' = [notified EXCEPT ![s] = Checked(s)]
  /\ pc' = "schedule" /\ focus' = {s}
  /\ msg' = [kind |-> "interrupt", to |-> s, inc |-> current[s],
             level |-> Checked(s)]
  /\ owed' = [owed EXCEPT ![s] = current[s]]
  /\ lapsed' = lapsed \ {s}
  /\ UNCHANGED <<pending, disk>>

\* Scheduled, and active: taken for a resume by hand.
Reactivated(s) ==
  /\ ~Rises(s) /\ pending[s] # NoEntry /\ StatusOf(s).active
  /\ WindowStep(s, ShortDir(s))
  /\ pending' = [pending EXCEPT ![s] = NoEntry] /\ disk' = pending'
  /\ notified' = [notified EXCEPT ![s] = 0]
  /\ Settled(s)
  /\ Quiet /\ UNCHANGED <<pc, focus>>

NoEvent(s) ==
  /\ ~Rises(s) /\ (pending[s] = NoEntry \/ ~StatusOf(s).active)
  /\ WindowStep(s, NoName)
  /\ notified' = [notified EXCEPT ![s] = Checked(s)]
  /\ Quiet /\ UNCHANGED <<pc, focus, pending, disk, histVars>>

SyncKnown(s) ==
  /\ At("sync") /\ s \in todo \cap known
  /\ todo' = todo \ {s}
  /\ Warned(s) \/ Interrupted(s) \/ Reactivated(s) \/ NoEvent(s)
  /\ UNCHANGED <<envVars, current, seen, listOK, resumes, known, saved>>

\* s is given up, unless its entry is in the file.
GivesUp(s) == lapsed' = IF disk[s].inc = owed[s] THEN lapsed ELSE lapsed \cup {s}

RenameTo(s, name) ==
  \E bad \in SUBSET RenameCommands : Failing(bad) /\ Tmux(RenameWindow(tm, s, name, bad))

\* Mutant of Schedule: the entry is not saved.
ScheduleUnsaved(s) ==
  /\ At("schedule") /\ s \in focus
  /\ focus' = {} /\ pc' = "sync"
  /\ \/ GivesUp(s) /\ UNCHANGED <<pending, disk>>
     \/ /\ pending' = [pending EXCEPT ![s] = [at |-> clock + 1, inc |-> current[s]]]
        /\ UNCHANGED disk
        /\ UNCHANGED lapsed
  /\ RenameTo(s, Remark(s, "[PAUSED]"))
  /\ Quiet
  /\ UNCHANGED <<envVars, current, todo, seen, listOK, resumes, known, cool,
                 notified, saved, owed>>

\* The rest of handleLimitEvent: Schedule fails if no reset time was read.
Schedule(s) ==
  /\ At("schedule") /\ s \in focus
  /\ focus' = {} /\ pc' = "sync"
  /\ \/ GivesUp(s) /\ UNCHANGED <<pending, disk>>
     \/ /\ pending' = [pending EXCEPT ![s] = [at |-> clock + 1, inc |-> current[s]]]
        /\ disk' = pending'
        /\ UNCHANGED lapsed
  /\ RenameTo(s, Remark(s, "[PAUSED]"))
  /\ Quiet
  /\ UNCHANGED <<envVars, current, todo, seen, listOK, resumes, known, cool,
                 notified, saved, owed>>

\* A session of the last tick is gone.
Forget(s) ==
  /\ At("sync") /\ todo = {} /\ s \in known /\ current[s] = 0
  /\ known' = known \ {s}
  /\ \E bad \in SUBSET RemoveCommands : Failing(bad) /\ Tmux(RemoveWindow(tm, s, bad))
  /\ notified' = [notified EXCEPT ![s] = 0]
  /\ pending' = [pending EXCEPT ![s] = NoEntry]
  /\ disk' = IF pending[s] = NoEntry THEN disk ELSE pending'
  /\ Quiet
  /\ UNCHANGED <<envVars, tickVars, cool, saved, histVars>>

AllSynced == todo = {} /\ \A s \in known : current[s] # 0
IsDue(s)  == pending[s] # NoEntry /\ pending[s].at <= clock
Due       == {s \in Sessions : IsDue(s)}

\* Mutant of TakeDue: the entries stay in the file.
TakeDueUnsaved ==
  /\ At("sync") /\ AllSynced /\ pc' = "resume"
  /\ resumes' = {[to |-> s, inc |-> pending[s].inc] : s \in Due}
  /\ pending' = [s \in Sessions |-> IF s \in Due THEN NoEntry ELSE pending[s]]
  /\ Quiet
  /\ UNCHANGED <<envVars, current, todo, seen, listOK, focus, known, cool,
                 notified, disk, tm, saved, histVars, clash, faults>>

\* ResumeScheduler.Due: take the entries out and save.
TakeDue ==
  /\ At("sync") /\ AllSynced /\ pc' = "resume"
  /\ resumes' = {[to |-> s, inc |-> pending[s].inc] : s \in Due}
  /\ pending' = [s \in Sessions |-> IF s \in Due THEN NoEntry ELSE pending[s]]
  /\ disk' = IF Due = {} THEN disk ELSE pending'
  /\ Quiet
  /\ UNCHANGED <<envVars, current, todo, seen, listOK, focus, known, cool,
                 notified, tm, saved, histVars, clash, faults>>

\* resumeSessions, for one entry; its socket may be gone, or not take the
\* message, which nobody notices.
Resume(r) ==
  /\ At("resume") /\ r \in resumes
  /\ resumes' = resumes \ {r}
  /\ \E sent \in BOOLEAN, ren \in IF current[r.to] # 0 THEN SUBSET RenameCommands ELSE {{}} :
       /\ \/ /\ proc[r.to] = r.inc /\ sent
             /\ msg' = [kind |-> "resume", to |-> r.to, inc |-> r.inc]
             /\ Settled(r.to)
          \/ /\ proc[r.to] = r.inc /\ ~sent
             /\ lapsed' = lapsed \cup {r.to}
             /\ Quiet /\ UNCHANGED owed
          \/ proc[r.to] # r.inc /\ ~sent /\ Quiet /\ UNCHANGED histVars
       /\ IF ren = {} /\ (sent \/ proc[r.to] # r.inc) THEN UNCHANGED faults ELSE Fault
       /\ Tmux(IF current[r.to] # 0 THEN RenameWindow(tm, r.to, ShortDir(r.to), ren) ELSE tm)
  /\ notified' = [notified EXCEPT ![r.to] = 0]
  /\ UNCHANGED <<envVars, pc, current, todo, seen, listOK, focus, known, cool,
                 pending, disk, saved>>

\* Mutant of EndTick: the tick ends before every due session was resumed.
EndTickEarly ==
  /\ At("resume") /\ pc' = "idle"
  /\ known' = {s \in Sessions : current[s] # 0}
  /\ saved' = [s \in Sessions |-> IF current[s] # 0 THEN tm.map[s] ELSE NoName]
  /\ current' = Nobody /\ seen' = {} /\ listOK' = TRUE
  /\ cool' = [s \in Sessions |-> IF cool[s] = 0 THEN 0 ELSE cool[s] - 1]
  /\ Quiet
  /\ UNCHANGED <<envVars, todo, focus, resumes, notified, pending, disk, tm,
                 histVars, clash, faults>>

\* WriteStatus (tmp and rename), and the end of the tick.
EndTick ==
  /\ At("resume") /\ resumes = {} /\ pc' = "idle"
  /\ known' = {s \in Sessions : current[s] # 0}
  /\ saved' = [s \in Sessions |-> IF current[s] # 0 THEN tm.map[s] ELSE NoName]
  /\ current' = Nobody /\ seen' = {} /\ listOK' = TRUE
  /\ cool' = [s \in Sessions |-> IF cool[s] = 0 THEN 0 ELSE cool[s] - 1]
  /\ Quiet
  /\ UNCHANGED <<envVars, todo, focus, resumes, notified, pending, disk, tm,
                 histVars, clash, faults>>

-----------------------------------------------------------------------------
(***************************************************************************)
(* The daemon is killed and started again (CmdRun): it loads what is left  *)
(* of the pending file and adopts the windows STATUS_FILE names.           *)
(* os.WriteFile truncates the pending file first: a kill in the middle of  *)
(* a save leaves a file that load cannot parse.                            *)
(***************************************************************************)
Saving == \/ pc = "schedule"
          \/ pc = "sync" /\ AllSynced /\ Due # {}
          \/ pc = "sync" /\ \E s \in todo \cap known : pending[s] # NoEntry

\* What a kill makes the daemon forget: every entry, in the middle of a save;
\* else what it was about to schedule or to send.
Killed ==
  /\ pc # "idle" /\ Fault
  /\ \/ /\ Saving /\ disk' = Nothing
        /\ lapsed' = {s \in Sessions : owed[s] # 0}
     \/ /\ UNCHANGED disk
        /\ lapsed' = lapsed \cup {s \in focus : disk[s].inc # owed[s]}
                            \cup {r.to : r \in resumes}
  /\ pc' = "idle" /\ current' = Nobody /\ todo' = {} /\ seen' = {} /\ listOK' = TRUE
  /\ focus' = {} /\ resumes' = {} /\ known' = {} /\ cool' = Nobody
  /\ notified' = Nobody
  /\ Quiet
  /\ UNCHANGED <<envVars, saved, owed, clash>>

\* The windows a restarted daemon cannot find again: STATUS_FILE names another
\* than the map did, or the list fails.
Orphaned(bad) ==
  {[w EXCEPT !.lost = @ \/ bad # {} \/ saved[w.owner] # tm.map[w.owner]] : w \in tm.wins}

\* Mutant of Restart: the windows named in STATUS_FILE are not adopted.
RestartFresh ==
  /\ Killed
  /\ pending' = disk'
  /\ tm' = [wins |-> Orphaned({}), map |-> NoMap]

\* NewResumeScheduler loads the file; restoreWindows.
Restart ==
  /\ Killed
  /\ pending' = disk'
  /\ \E bad \in SUBSET {"list"} :
       tm' = [wins |-> Orphaned(bad), map |-> Adopted(tm.wins, saved, bad)]

-----------------------------------------------------------------------------
Tick ==
  \/ Scan \/ TakeDue \/ EndTick
  \/ \E s \in Sessions : SyncNew(s) \/ SyncKnown(s) \/ Schedule(s) \/ Forget(s)
  \/ \E r \in resumes : Resume(r)

Environment ==
  \/ \E s \in Sessions : Spawn(s) \/ Ends(s) \/ StatusWrite(s)
  \/ \E w \in tm.wins : WindowCloses(w)
  \/ ResetPasses

Next == Tick \/ Environment \/ Restart

Spec == Init /\ [][Next]_vars

\* The loop runs on; a socket client whose proxy is gone ends.
Fairness ==
  /\ WF_vars(Tick)
  /\ \A s \in Sessions :
       WF_vars(\E w \in tm.wins :
            w.owner = s /\ w.inc # proc[s] /\ WindowCloses(w))

FairSpec == Spec /\ Fairness

-----------------------------------------------------------------------------
\* Types, and what the loop holds at each place: work of a tick never outlives it.
TypeOK ==
  /\ proc \in [Sessions -> Nat] /\ spawned \in [Sessions -> Nat]
  /\ status \in [Sessions -> [level : Level, active : BOOLEAN]]
  /\ clock \in 0 .. MaxResets
  /\ pc \in {"idle", "sync", "schedule", "resume"}
  /\ current \in [Sessions -> Nat] /\ todo \subseteq Sessions
  /\ seen \subseteq Names /\ listOK \in BOOLEAN
  /\ known \subseteq Sessions /\ cool \in [Sessions -> 0 .. Cooldown]
  /\ notified \in [Sessions -> {0} \cup Approaching .. Reached]
  /\ pending \in [Sessions -> Entry] /\ disk \in [Sessions -> Entry]
  /\ resumes \subseteq [to : Sessions, inc : Nat] /\ focus \subseteq Sessions
  /\ tm \in [wins : SUBSET Window, map : [Sessions -> Names \cup {NoName}]]
  /\ saved \in [Sessions -> Names \cup {NoName}]
  /\ pc = "idle" => todo = {} /\ focus = {} /\ resumes = {}
  /\ pc = "schedule" <=> focus # {}
  /\ owed \in [Sessions -> Nat] /\ lapsed \subseteq Sessions
  /\ clash \in BOOLEAN

\* A proxy that was told to pause until its limit is reset, and that nobody has
\* resumed, is on its way into the scheduler, in the scheduler and in its file,
\* from which a restarted daemon reads it, or in the batch being sent, unless
\* it is one of those the code gives up (lapsed): Schedule read no reset time,
\* the resume message failed, or the daemon was killed inside a save, between
\* the interrupt and Schedule or between the save of Due and the message.
OwedIsRecorded ==
  \A s \in Sessions : owed[s] # 0 /\ s \notin lapsed =>
    \/ s \in focus
    \/ pending[s].inc = owed[s] /\ disk[s] = pending[s]
    \/ [to |-> s, inc |-> owed[s]] \in resumes

\* A resume message only goes to a proxy that was told to pause, once for each
\* time it was, crashes and restarts of the daemon included.
ResumeIsOwed == [][msg'.kind = "resume" => owed[msg'.to] = msg'.inc]_vars

\* The daemon never makes a second window for a session, restarts included
\* (restoreWindows: no duplicate windows), beside those it has lost sight of:
\* tmux did not list, rename or kill the window when it was told to, or the
\* daemon was killed before STATUS_FILE had the window's name or could not list
\* the windows when it started.
NoDuplicateWindows ==
  ~clash => \A v, w \in tm.wins : v.owner = w.owner /\ ~v.lost /\ ~w.lost => v = w

\* Every session that keeps running gets a window, also when the user or a
\* failing tmux took it away (the self healing of RunLoop), unless the manager
\* takes the window of another session for it: the healing goes by names, and
\* a name that is free again is given to the next session of the directory.
Windowed(s) == \E w \in tm.wins : w.owner = s /\ w.inc = proc[s]
Mistaken(s) == \E w \in tm.wins : w.name = tm.map[s] /\ w.owner # s
Healed == \A s \in Sessions : proc[s] # 0 ~> proc[s] = 0 \/ Windowed(s) \/ Mistaken(s)
=============================================================================
