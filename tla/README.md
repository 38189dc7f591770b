# Verification of claude-master

TLA+ models of claude-master (Go), the configurations that model-check them
with TLC, and theorems about them checked by TLAPS. `PROJECT.json` maps every
definition to the source lines it stands for. Paths below are relative to
`src/internal/` unless they start with `src/`.

claude-master wraps each `claude` process in a PTY proxy that models its screen
and serves it to several terminals over a unix socket, a monitor that arranges
the sessions as tmux windows and resumes those that hit a usage limit, and a
cloud agent that publishes sessions and takes commands through Firestore.

## 1. Inventory

### The system's parts

| Part | State it keeps | Operations | Talks to |
|---|---|---|---|
| Proxy server `ptyproxy/server.go` | VT model, clients and their views, hold (`syncStart`, `syncTimer`), `done`, all under `Server.mu` | masterPump, acceptLoop, clientReader, syncValve, Stop, SetHostSize, HandleHostInput | the pty (claude), unix-socket clients, the host terminal, the status file |
| Proxy lifecycle `ptyproxy/run.go`, `proxy*.go` | pty, child, socket and status files | RunProxy, context cancellation, SIGWINCH | starts and stops the server |
| VT model `screen/vt.go` | cells, bounded history, `histTotal`, DECSET 2026 flag | Feed | read by renderers and flusher |
| Views `screen/scroll.go` | follow, anchor, last bottom | Scroll, FollowBottom, RenderANSI | one per host and client |
| Session log `screen/flush.go`, `ptyproxy/sessionlog.go` | armed, lastTotal, file | capture per read, finalize | VT history, disk |
| Socket client `client/client.go` | own nav mode, `pkScrolled`, terminal size | Run, processStdin, sendResize | proxy socket |
| Attach by key `client/bykey.go` | none | RunByKey, ResolveSockByKey | STATUS file, sockets |
| start, proxy process `src/cmd/claude-master/start.go`, `main.go` | none; the files of a process | runStart, spawnDetachedProxy, runProxy | STATUS, ps, claude's conversation files |
| Monitor `monitor/monitor.go` | limit watcher, pid file | SyncOnce, RunLoop, start, stop | scanner, tmux, proxies' sockets, STATUS file |
| Limits and resumes `monitor/limit.go`, `resume.go` | notified levels, pending map and its file | Check, Schedule, Due, Remove | monitor loop |
| tmux manager `tmux/tmux.go` | key-to-window map, marks of windows | AddWindow, RenameWindow, RemoveWindow, NewMarkedWindow, MarkedWindows | tmux server |
| Scanner `scanner/` | none | Scan | ps, /proc, sessions directory |
| Diagnostics `diag/` | counters and their snapshot per process | OnClientConnect, IdleGCSweep, Sweep | proxies (signals) |
| Producer `main.go` runOneCloud | keys of the last tick | tick, PushStatus, DeleteSession | STATUS, Firestore |
| Remote windows `cloud/agent/remotesync.go` | trigger channel | RunRemoteTmuxSync, ReconcileRemote | Firestore, tmux |
| Commands `cloud/state/commands.go`, `cloud/agent/commands.go` | documents and their status | PushCommand, WatchCommands, claimCommand, handle, AckCommand | Firestore, launchd, restarter |
| Proxy restart `cloud/agent/proxyrestart.go` | none | Restart | STATUS, ps, a spawned proxy |
| Wakes and relay lines `cloud/agent/agent.go`, `cloud/relay/` | `Agent.active`, wake document, grants | Wake, handleWake, BridgeSourceIdle | relay, proxy socket |
| Pairing, enrolment, clouds file | documents, a file | CreatePairing, ConsumePairing, runCloudEnroll | Firestore |
| tmux control mode `tmuxcc/` | pane layout, reply matching | parse, render, input | `tmux -CC` |
| ttysync `ttysync/` | burst buffer, two parsers, two timers | WrapStdio, PumpWithIdleConfig | any tty program |
| Self update, config | - | download and rename; flags | - |

### How they interact

claude writes to its tty; `masterPump` reads the master, feeds the VT, captures
lines for the session log, writes the status file and renders one frame for the
host and each client. Host keys go through `HandleHostInput`, client bytes
through `parseClientInput`, both to the master. The monitor finds proxies by
their socket files, reads their status files and writes STATUS_FILE, by which
`start`, attach, the cloud agent and the restarter find sessions; the idle GC
reads snapshots of the client counter. The cloud agent of one PC publishes its
STATUS as documents, which the agent of another shows as windows; such a window
runs `cloud attach`, which wakes the first agent to open a line to the relay.
The proxy is the heart: every other part observes or drives proxies, through
files and documents that are always a little old.

### Hard behaviours and what must hold

- *Interleaving*: the pump, the accept loop, a reader per client, valve timers,
  a context goroutine and two callers of `Stop` share `Server.mu`, but
  `Stop` and the pump's flush give it up between their steps. A client must be counted exactly
  once and never be left without a reader; nobody may miss an update.
- *Timeouts*: frames are held while claude redraws; a timer bounds the hold.
  It may fire against a hold that is over.
- *Deadlock*: blocking writes to a pty, partly with the lock held.
- *Framing*: a byte stream mixing keys with frames, read in arbitrary pieces.
- *Bounded buffers*: the history is trimmed, erased and indexed by a running
  total while it is flushed to a file and scrolled through.
- *Shutdown*: child exit, cancelled context, pump end and file removal in any
  order.
- *Crash and restart, partial failure, stale reads*: the monitor works on a scan
  that is old by the time it acts, identifies windows by names that are reused,
  and may be killed between any two effects, or while it writes a file. `start`,
  attach, restart-proxy and the idle GC decide from STATUS_FILE and snapshots
  while proxies begin and end: no conversation may get two proxies, no watched
  proxy may be swept, no command may wait for ever.
- *Two machines and a database*: documents, windows and running sessions must
  agree in the end although every call may fail, streams end, agents are killed
  and the owner revokes a PC; meanwhile no window is doubled or closed by mistake.
- *At most once*: a command that two agents see several times, and that may
  restart the one that runs it, is done once and answered.
- *Bursts*: output is held back to be shown whole; not too long, never cut inside
  a sequence, and complete.

## 2. Modules

| Module | Stands for | Kind |
|---|---|---|
| `ProxyServer` | `server.go` pump, clients, valve, Stop; `run.go` lifecycle | state machine, `Spec` and `FairSpec` |
| `PtyFlow` | locks and kernel buffers on the input and output paths | state machine with fairness |
| `ScrollRenderer` | `screen/scroll.go` | operators on a view record |
| `ClientInput` | `parseClientInput`, `client.in`, a client's view | actions over bytes, part of `SocketClient` |
| `SocketClient` | `client/client.go`; EXTENDS `ClientInput` | composition of client and server |
| `HostScroll` | `HandleHostInput`, `SetHostSize`; uses `ScrollRenderer` | state machine |
| `SessionLog` | `vt.go` lineFeed, `flush.go`, `sessionlog.go` | state machine |
| `LineLog` | what a session log promises | abstract specification |
| `ProxyLife` | what a proxy promises to those that meet its socket and counter | abstract specification |
| `CommandQueue` | what the control line for commands promises | abstract specification |
| `TmuxWindows` | `tmux/tmux.go` over the windows tmux has | operators on a record |
| `Monitor` | `monitor.go` RunLoop, `limit.go`, `resume.go`; uses `TmuxWindows` | state machine, `Spec` and `FairSpec` |
| `Lifecycle` | `start.go`, `bykey.go`, `runProxy`, `proxyrestart.go`, `diag/`, STATUS_FILE | state machine, `Spec` and `FairSpec` |
| `CloudSync` | producer, documents, revocation, `remotesync.go`, marked windows | state machine, `Spec` and `FairSpec` |
| `CloudAgent` | commands, wakes, data lines, viewers | state machine, `Spec` and `FairSpec` |
| `TtySync` | `ttysync/` pump and its byte machines | state machine |
| `MCProxyServer`, `MCSocketClient`, `MCMonitor`, `MCLifecycle`, `MCTtySync` | values for constants | model-checking instances |
| `ProxyServerProofs`, `HostScrollProofs`, `MonitorProofs`, `LifecycleProofs`, `CloudSyncProofs`, `CloudAgentProofs` | the module each is named after | theorems and proofs |
| `InputProofs` | `SocketClient` (with `ClientInput`) and `PtyFlow`: the way of input to claude | theorems and proofs |
| `OutputProofs` | `SessionLog` and `TtySync`: the ways of a program's output, to the file and to the terminal | theorems and proofs |

Operators named as mutants of another (`GateHoldUnarmed`, ...) are not used by
any specification. Each is a plausible bug of the definition after it; with it
in place TLC finds the property it is listed with in `PROJECT.json` violated.

### ProxyServer

The screen is a version: `ver` counts reads fed to the VT, `hostShown` and
`shown[c]` say which version was last written where. A critical section of
`Server.mu` that does only bounded work is one action; code that gives up `mu`
between two effects (the flush at the end of the pump, the three steps of
`Stop`, RunProxy's cleanup) is one action per section, with program counters
for the pump and RunProxy. `clientGoneLocked` is `ClientGone`, and every caller
of it uses that operator. Failed renders are nondeterministic and unavoidable on
a connection this process closed. `timer` distinguishes an armed timer from one
that fired, because `Timer.Stop` cannot recall a goroutine that already waits
for `mu`; `valves` counts those. `syncStart` is kept as an age, `Hold` ticks
being `syncHoldMax`. Two constants capture what the platform decides:
`HangupOnExit` (does the master's read end when the child exits although the
proxy itself keeps the slave open) and `ErrWithData` (may a read return bytes
together with its error; `io.Reader` allows it, `os.File` never does).

`ProxyLife` is the proxy as `Lifecycle` uses it: its phase, its socket, whom it
serves and its counter. `ImplementsLife` is the refinement: the phase is "closing" as soon
as claude is gone or the pty closed, and "gone" when RunProxy has returned. A client may
still get through while the proxy closes; its connection ends at the first
frame or with the others. The socket goes before RunProxy returns (in `Lifecycle` the two are one
step).

### PtyFlow

`mu` and `wlock` are `Server.mu` and the write lock inside `os.File`. A source
reads a chunk, the host takes `mu` (and keeps it across the write), remote
clients do not, and writes unit by unit while the kernel has room. claude is one
thread: while it is committed to write a burst it does not read.

### ClientInput and SocketClient

`ClientInput` is the server's end of one connection: `wire` holds the bytes in
the socket, `Read(n)` delivers any number of them, and each turn of the parser's
loop is one action (`Turn` says how many bytes it takes, what it does and whether
the loop returns). Lengths and encodings are those of the code, two's complement
included. A frame moves the view of this client (`ScrollRenderer`), as claude's
output does.

`SocketClient` adds what writes into the stream: `processStdin`, one action per
branch in the order of its tests, and the goroutine of `watchResize`, which reads
the size and writes the frame in two steps. `connW.mu` keeps each write whole, but
the writes of one read of the keyboard (`todo`) may be interleaved with a size. A
read may hold several keys; the tests look at its beginning, at all of it, or for
a byte in it, as in the code. `asked` is history: what each item on its way asks
for; it is the reference the parser is compared with. A browser behind the relay
(`cfg.web`) writes IMAGE frames with any length and any payload. What such a frame
asks for is said by `Effects`: of a valid length as much of the payload as it announces
(`Taken`), and what is left over (`Surplus`), or the whole payload when the length
is invalid and only the header is dropped (`server.go:336`), reaches claude as keys.

The parser can lose step with what was written, and `astray` records where: when a
read ends between the two bytes of a magic (`HalfMagic`; section 5), and when a picture
misleads (`Misleads`), because it is shorter than it says and swallows what comes next, or
because what is left over of it contains 0xfd or more and can be (part of) a
magic. Up to there the properties claim everything; from there on only `TypeOK`
is claimed. In the run the writers stop there (`Onward` FALSE); the proofs do not need that.

The step sizes make scroll frames whose arguments are the bytes of magics: -1 is
`ff ff`, -3 is `ff fd`. `unseen` marks a
size that changed between the first frame and `watchResize`, whose signal nobody
hears.

### HostScroll and ScrollRenderer

One action per branch of `HandleHostInput`, in the order of its tests, plus the
pump's reads, the erasure of the scrollback and SIGWINCH. Lines are numbered as
they are drawn; `top` is the number of the first line last shown, so that
"the view did not move" can be said. A read is either rendered or held back
(`Shown`); the hold itself is `ProxyServer`'s subject.

### SessionLog and LineLog

A line is the number under which it scrolled out, so the file's contents can be
compared with what happened. The flusher sees only `histTotal` and the length
of the history, as in the code. `start` and `lost` are history variables: where
the flusher armed itself, and what claude erased or the disk refused before it
was in the file.
`LineLog` says: lines are appended in order, each at most once, and nothing after
closing; `ImplementsLineLog` is the refinement (`confirmed <- histTotal`,
`closed <- ~open`).

### Monitor and TmuxWindows

A tick of `RunLoop` is cut wherever the world can change under it: `Scan` (the
scan and the list of window names), one `SyncNew` or `SyncKnown` per session,
`Schedule` (what `handleLimitEvent` does after the messages are sent), one
`Forget` per session that is gone, `TakeDue`, one `Resume` per due entry,
`EndTick` (STATUS_FILE). `SyncKnown` splits as the code does: `Warned`,
`Interrupted`, `Reactivated`, `NoEvent`, each after the healing of the window
(`WindowStep`). Between the steps proxies start and end, status files change,
reset times pass, windows close, tmux commands fail and the daemon is killed;
`Restart` reads back what is on disk. A kill inside a save leaves the pending file
empty, because `os.WriteFile` truncates first; `Schedule` is a step of its own after
`Interrupted`, so that a kill may come after the message and before the entry. Writing
the pending file is taken to succeed unless the daemon is killed in it.

Some of these only happen where it first makes a difference (a proxy starts
between ticks, a status file changes after its session is scanned and before
the monitor reads it, a reset time passes before `Due`): the module's header says
which. An earlier occurrence leads to the same states of the monitor, so nothing
is lost.

`usage_percent` is one of five levels, the ones the watcher's thresholds tell
apart; "not in the file" is one of them and leaves `notified` as it is. Time is
counted in ticks (the healing cooldown) and in reset times passed (`clock`).

A window is owned by one proxy (`owner`, `inc`) and has a name. The manager knows
names only: `Target` finds a window if exactly one has the name, `UniqueName` is
the loop over suffixes, and a list of windows that fails counts as empty in
`AddWindow` but stops the healing of a tick. A rename gives back the plain
directory name, or one with a remark, without looking at what other windows are
called. Every call takes the set of its tmux commands that fail (`bad`); the code
looks at none of these failures, so the map says what the manager meant to do.

`owed`, `lapsed`, `clash`, the `lost` of a window and `msg` are history: the proxy
that was told to pause and not resumed since; the sessions of which the code has given
that up; whether two windows ever shared a name; whether the map has let go of a
window that goes on; and the message of the last step. `lapsed` and `lost` are what the properties
exempt, and each is set only by the step that gives up: a pause without a reset time, a resume
message that fails, a kill in one of three places; a list, rename or kill that tmux
refuses, a kill before STATUS_FILE has the name, a list that fails when the daemon
starts. `clash` also looks at the windows between
the two halves of a step that adds a window and renames it at once: when
every name of a directory is taken the window that was added is a namesake for a
moment, and if tmux then fails to make it, the rename is done to the other
session's window. Proving `NoDuplicateWindows` brought this out; two sessions do not
have enough windows for it.

`Healed` exempts a session while the manager takes another session's window for
its own (`Mistaken`). Without the exemption it fails in two ways: a closed
window's name is given to the next session of the directory before the first is
healed, and a restarted daemon adopts names from a STATUS_FILE older than the
windows. The healing is by name and sees nothing missing.

### Lifecycle

A proxy is its phase (`spawned`: started, the socket not yet open; `up`;
`closing`: claude is gone, the cleanup runs; `gone`), its directory and its
conversation; `Resumed(p)` tells a proxy with `--resume` from one whose key is
`pid-<n>`. `ProxyServer` is the inside of `up` and `closing`. What other
processes know is in separate variables: `socks` (files that a killed proxy
leaves behind and the next one sweeps), `status` (STATUS_FILE, written by the
monitor from a scan in which `lsof` may fail), `left` and `snap` (the time of the last
disconnect, and the copy of it the idle GC reads), `latest` (claude's newest
conversation file of a directory).

`start` is Begin, Look (STATUS_FILE), Resolve (the conversation to resume and the
search of the processes for a proxy that has it), StartProxy, Wait, and then attach:
ResolveKey, Dial, and EOF or Quit. `restart-proxy` is Lookup, Kill, Respawn. Time
limits are choices that are enabled while what is waited for is not there.
Three histories say what the properties exempt: `muddled` (two spawners of one
conversation overlapped, a scan failed, or a restart went by an entry that was out of date or
ambiguous; the code has no lock against these), `unseen` (a terminal attached since
the last snapshot) and `cause` (what ended a proxy).

### CloudSync

One action per call to Firestore or tmux, because each may fail (`Fault`) and
the agents may be killed between any two. The producer's tick is Tick, one Push
per session in the order of STATUS, PushParent, one Delete per session that is
gone; what has nothing to do is folded into the step before (`Onward`). The
consumer is Look (windows, then PCs), ReadSessions, and per session Keep or New and
Mark, then KillGone; `trigger` is the channel of capacity one. The owner acts at
any time with `SetRevoked`, `ClearRevoked` and the two halves of `deletePC`.

Windows are ids with a mark (`wins`); tmux does not reuse ids, so `Fresh` leaves
out those a reconcile still remembers. History: `orphans` (documents whose deletion
failed), `unlisted` (documents left behind without `pcs/{pc}`), `there` (sessions
listed in Firestore ever since the windows were listed), `missed` (what a reconcile failed to
do, or a change no further snapshot announces), `blind` (a tick that was under
way when the PC was revoked, or could not read that it was). A kill-window that fails
(`KillWindowIDs`) leaves any part of the windows it should have closed; a failed Set or
Delete may have been done.

### CloudAgent

Two agents of one PC, because nothing stops a second one. Commands go through
Snapshot, claimCommand (a transaction whose error may hide its commit), handle,
AckCommand and DoRestart; `known` and `batch` are what a listener has seen and has
still to handle. For wakes, `woken` are the agents whose listener has the
document still to deliver, `line` the data lines with `Agent.active` as "not
none" (a line that is closed stays in it, "closing", until `handleWake` returns, and
a wake that comes meanwhile is dropped), and `viewer` the loop of the window on the other PC. One document holds
the last wake only. `ran` and `lost` are history. The relay is external: it
admits whom `CheckRelayGrant` admits, joins the two ends, and drops a viewer
without a source some time later.

`CommandQueue` says what an owner may rely on: a command is claimed once, done at
most once, answered at most once, and its answer is true. `ImplementsQueue` is the
refinement; `Late` are the commands that are answered before they are done
(`restart-agent`, which ends the process that answers).

### TtySync

Bytes are classes: those that the two machines (`tailTracker`, `ansiParser`) and
`stripSyncMarkers` tell apart, with marks for the properties alone (whether a
sequence ends here, whether `tailTracker` takes it to be over before it is, whether
it is a marker of the program's). `Receive` is one
pass of the loop with a chunk, `flush` the function of that name with its three
outcomes: plain, wrapped up to the last complete sequence, or given up because the
rest is longer than `maxTailHold`. Both timers count ticks. `astray` and `torn` are history:
the parser has missed a sequence, and a sequence was let go in parts (section 5).

What the program writes (`Streams`) is any concatenation of whole sequences and
characters. `Terminal` reads it the way a terminal does (ECMA-48: a CSI ends with a byte
from 0x40 on, an escape sequence behind its intermediate bytes), and the assumption says
that this reading never breaks off (`Whole`: no escape inside a CSI, no continuation byte
out of place, no BEL in a DCS) and that the markers are where they are labelled (`Marked`).
`early` marks where the tracker is ahead of the terminal: behind `<`, `=`, `>` in a CSI and
behind an intermediate byte after ESC. Both occur in the repository's own capture
(`ESC [ > c`, `ESC ( B` in `testdata/tmux-outer-real.raw`); section 5 has what follows. The
class "J" is the final byte of an erasing CSI; a letter J in a text is "x". A write that
fails counts as whole and ends the pump; partial writes are not examined.

## 3. Runs

| Run | Shows | Bounds |
|---|---|---|
| `proxy_server` | freshness, holds and files of the proxy, refinement of `ProxyLife`, all interleavings | 2 clients (symmetric), 3 tokens of output, reads of 1-2 tokens, hold of 2 ticks |
| `proxy_live` | held frames are released; RunProxy returns | 1 client, 3 tokens, hold of 1 tick, `FairSpec` |
| `pty_flow` | contiguous chunks; claude is drained; input arrives, or gridlock | host and 2 remotes, buffers of 2 units, chunks and bursts of 3 |
| `socket_client` | the server does what was asked, keys meet the live view, both sides agree in the end | 3 reads of 7 kinds, or 3 of 5 pictures, 2 resizes, history of 1, socket of 8 bytes, 3 settings, every chunking |
| `session_log` | completeness, refinement of `LineLog` | history and burst of 3 lines, 6 lines in all |
| `host_scroll` | views pinned; a key returns to the live view | history of 4, screen of 3, host of 2 and 4 rows, 6 lines |
| `monitor_limits` | a paused proxy is not forgotten, is resumed once, over crashes and restarts | 1 session, 2 successive proxies, levels low, interrupt and reached (and unknown), 2 reset times, 2 faults |
| `monitor_windows` | no duplicate windows; windows are healed | 2 sessions of one directory, 3 proxies, level approaching (renames), 1 fault, cooldown of 2 ticks, `FairSpec` |
| `lifecycle` | one proxy per conversation, the GC spares what is watched, commands end | 1 terminal with 2 commands, a directory and one inside it, 2 proxies and an old conversation, 1 restart, `FairSpec` |
| `cloud_sync` | no runaway of windows, none closed by mistake, revocation holds, convergence | 2 sessions, 4 windows, 1 change, 1 fault, 1 act of the owner, `FairSpec` |
| `cloud_agent` | refinement of `CommandQueue`, answered, watched | 2 agents, 1 command, 1 session and an ended one, 2 faults, `FairSpec` |
| `ttysync` | markers between sequences or where the tracker is early, nothing lost, nothing late | 3 sequences of 11 kinds, 3 settings, 8 bytes of buffer, idle 1, hold 2, maximum 3 ticks |

*Why the bounds are enough.* Two clients give every pair of concurrent ends
(one dying in a broadcast while another registers); three tokens are a whole
frame, or a frame that ends and one that begins; two-token reads make both happen in one
read; two ticks distinguish a young hold, an old one and an expired one. A chunk longer
than the pty's buffer blocks in the middle, a burst longer than the other buffer
blocks claude: these are the two ingredients of gridlock, and a third writer
shows what happens to those who queue behind. A burst as long as the history is
the extreme the assumption on `ChunkMax` allows. Six lines overflow a history of four.
In `socket_client` three reads make a client scroll, type and scroll again, or enter and
leave nav mode; two changes of the size make the second one overtake the
first; frames are four to eight bytes, so that the socket holds two at most and
every cut within and across frames occurs. The browser's pictures have length 0, 1 and 65536
with a maximum of 1, and payloads that are missing, exact, left over behind an invalid
length, or begin a magic (left over behind a valid length they are covered by the proof).
For limits one session is enough: watcher and scheduler are maps that no step
relates across sessions, except the one file they share, and a torn file loses
every entry at once. Two proxies in succession give the stale entry of the first
a chance to reach the second; two reset times allow a second pause after a resume;
two faults are a kill during the recovery from a kill. For windows two sessions of one
directory compete for a name; two windows per session and five suffixes mean that
neither bound is ever what prevents a duplicate; one fault is the user's close, a
failed command or a kill, with everything the proxies do by themselves on top.
In `lifecycle` two proxies and the conversation from before are what a duplicate
needs; the second command of the terminal meets what the first one left, and a
restart in between replaces the proxy. In `cloud_sync` the consumer begins with two windows
of one session, as a runaway of an earlier version leaves them; four windows leave two to
be made wrongly; a single fault is a failed call, an ended stream, a kill or
a closed window, anywhere. In `cloud_agent` the second agent is the one that may
claim what the first has claimed; the second fault meets the recovery from the first.
In `ttysync` three sequences of up to seven bytes outgrow the buffer, the tail
limit, and both at once.

*Deadlock* is checked except in `PtyFlow`, where sources run out of chunks and
where gridlock is a state the properties speak about, and in `Monitor`, `Lifecycle`,
`CloudSync`, `CloudAgent` and `TtySync`, whose bounds end what the environment does (or
whose program ends): their liveness properties, or the bound on waiting in `Timely`, say
that what should go on does.

*Fairness.* Go runs every goroutine that is ready, timers fire, and a read with
data or an error returns: weak fairness of the pump, RunProxy, `Stop`, the
clock, the valve, `CtxKill` (it follows `CtxClose` in one goroutine) and each
client's registration and reader. Nothing is assumed of claude, of the peers or of
whoever cancels the context. In `PtyFlow` claude completes a write the pty has room for (weak)
and, between redraws, comes back to read (strong: it is disabled while a burst
lasts). In `Monitor` the loop takes its next step (a goroutine on a ticker) and the
window of a proxy that ended closes (its socket client exits); nothing is assumed of
claude, the user, tmux or the clock of the limits. In `Lifecycle` the commands in a
terminal go on (their waits have time limits), the monitor's ticker writes STATUS_FILE,
and a proxy whose claude has ended finishes; `Settles` needs no proxy ever to be
started. In `CloudSync` both agents are kept alive by launchd and retry on tickers or
streams that `keepSubscribed` reopens; faults are bounded, so that "in the end" has a meaning.
In `CloudAgent` it is the same, and strong fairness for the delivery of a viewer's own
wake: the viewers share one document, and one of them that is always overwritten just before the
agent looks is never heard; they sleep 30 s between attempts, at different times.
`TtySync` needs none: its claim about time is an invariant over ticks, and timers that
have fired are served before the next tick.

## 4. Proofs

Each proof module EXTENDS its specification; every theorem holds for all values
of the constants that satisfy the module's named assumption: finite sets of
processes, sizes and limits in their ranges, bounds that are natural numbers, and
the values that stand for "none" different from the others. `ChunkMax <= HistMax` of
`SessionLog` and the whole sequences of `TtySync` are the only ones that restrict what the
code may meet. The proofs hold for
every value of the bounds, so no fault or change too few hides a violation.
Each inductive invariant was model-checked before it was proved.

- `ProxyServerProofs` (`ProxyAssumption`): `TypeOK`, `CountersAgree`, `Watched`,
  `Fresh`, `HoldIsSync`, `HoldCovered`, `NoFilesLeft`. The inductive invariant
  is `TypeOK /\ Conns /\ Holds /\ Views /\ Files`. `Conns` adds to the counter and the
  readers that every registered client was accepted and that a connection being
  accepted is not registered yet; without it registering could count twice.
  `Holds` ties the timer to the hold: there is one exactly while there is a hold,
  and it fires only when the hold has run out. With it, a valve that finds a hold
  in progress shows the newest screen, and a later read of the same hold
  broadcasts itself; so a viewer that lags always has a timer or a valve ahead of
  it. `Files` orders the ends of the pump and of RunProxy: past the drain the pump
  has made its last read, so nobody writes the status file again. Cardinality
  facts come from `FiniteSetTheorems`. `ServerImplementsLife`: `Init` and every step of the
  server map to `ProxyLife`, which needs two more invariants: the socket
  file and the listener go together and only an accepted client has a reader
  (`Reachable`); the listener is closed, the pump at its end and RunProxy past its wait only
  when claude or the pty is gone (`Ended`).
- `OutputProofs` for `SessionLog` (`LogAssumption`): `TypeOK`, `LogInOrder`, `LogComplete`
  and `ImplementsLineLog`. The invariant says that the history is the window of
  lines `FirstIdx + 1 .. histTotal`, that the lines past `lastTotal` in it are
  exactly those of the chunk being fed (so trimming cannot reach them, by
  `ChunkMax <= HistMax`), and that the log is increasing and bounded by what was
  captured. The lemmas `PendingIsRun` and `Recorded` say that what is drained is
  a run of consecutive new lines, which is the step `Record` of `LineLog`.
- `OutputProofs` for `TtySync` (`TtySyncAssumption`): `Timely`, `OnlyBetween`, `Intact`, for
  every stream of whole sequences of any length, every cut into reads, all settings and
  limits. The run `Terminal` makes over the stream is the ruler both parsers are held
  against. `Placed`: some place `q` is where the terminal will be before the rest of the input,
  and the parsers know of it what `Known` says: outside strings `ansiParser` is at `q` (an
  intermediate or private byte ends a sequence for it, an escape ends a string); `tailTracker`
  is at `q`, or in its ground state where it is early (`TrackerIs`, `Over`), until a sequence
  has been let go in parts, and then at least not in a string when the terminal is not
  (`TrackerNear`). One lemma for each machine takes this over a byte
  (`ParserStep`, `NearStep`, `ExactStep`), and `Along` over a chunk. `KeptBack` then says that
  what the tracker keeps back begins right after a sequence or an early place (`Cut`) and erases
  nothing (`Held`),
  and `Noticed` that a cleared screen in the buffer has been seen. `Timely` follows with the
  accounts of the two timers (`Timers`: ticks since it was set and ticks left make what it
  was set to). `Intact` is shown step by step, with the invariant that what is still to be shown
  is labelled (`Labelled`): picking places out of a sequence distributes over concatenation
  (`PlainConcat`), and dropping markers drops nothing else (`PlainStripped`). `OnlyBetween`
  needs that the rest of a stream cut after a sequence is as well marked as
  the whole (`PartMarked`: no marker lies across such a cut), and that dropping the markers, however
  many follow each other at the end, leaves the end of a sequence last (`StrippedWell`).
  The comment in `flush` that `stripSyncMarkers` returns no carry there (`wrap.go:190`) rests
  on the same fact: what goes out ends a sequence.
- `HostScrollProofs` (`ScrollAssumption`): `TypeOK`, `FrozenIsAbove`,
  `ViewPinned`, `NavSwallows`, `TypedLive`. The invariant adds that `view` was
  last rendered for some canvas (`LastRender`), which is what makes a scrolled-back
  anchor comparable with the current bottom, and that nav mode implies managed
  mode.
- `InputProofs` for `SocketClient` (`ClientInputAssumption`, `SocketClientAssumption`,
  `StepsAssumption`, `PicturesAssumption`, `WebAssumption`): `TypeOK`, `OnlyAsked`,
  `TypedLive`, `CaughtUp`, for IMAGE frames of any length and payload and for reads that
  end anywhere. The last three exempt what follows `astray` (section 2).
  These say what a parser makes of any stream of bytes, cut anywhere. The usual way would be
  induction over the stream, which the prover does not do; instead `Spoken(s, e)`, "the bytes
  `s` ask for `e`", is the least relation that contains the empty stream and is closed under one more
  key or frame. A fact about all streams is then a set of pairs shown to be closed: a
  stream begins with a whole key or frame (`SpokenFront`), two streams make one
  (`SpokenJoin`), and cut anywhere it is a stream and the beginning of one more frame
  (`SpokenSplits`). Every item's bytes are such a stream (`KeysSpoken`,
  `ScrollSpoken`, `ResizeSpoken`, `ImageSpoken`: the two's complement and the
  four-byte length of the code, for every number in their range), and one turn of the
  parser takes whole keys and frames off it, up to the last one that is complete
  (`TurnSpoken`). The inductive invariant is `TypeInv`, and while not `astray`
  `StreamInv /\ AheadInv /\ SizedInv` (`InStep`); a picture that does not mislead is a frame and keys
  (`ImageSpoken`), and of the turn that forwards half a magic all but that byte is what was
  asked for (`HalfAsked`).
  `StreamInv`: the buffer is a stream that is done next, and then the beginning of at
  most one frame whose rest is at the front of the socket; together they ask for exactly `asked`.
  `AheadInv`: before every typed key on its way the last scroll on its way is back to the live
  view, or there is none and the view is live; the same holds of what is still in `todo`
  behind all that is on its way, and behind both if the client knows of no scrolling (`~nav /\ ~pk`).
  `SizedInv`: if no signal waits, the last resize on its way is the height of
  the terminal, or there is none and the server has it, or it has been taken to be written.
  `TypeInv` adds that the items in `todo` are well formed and that `pk` is only set
  where one of the two switches would reset it (`Knows`).
- `InputProofs` for `PtyFlow` (`FlowAssumption`): `FlowTypeOK`, `WriteLocked /\ HostLocked`,
  `ChunksContiguous`, and that gridlock is for ever. Besides the two locks the
  invariant says where the chunk under way stands (`Underway`, `Unwritten`,
  `AtEnd`): the units of it that are in the pty are those its writer has
  written, nobody else's are behind them, and a chunk that has not begun has no units
  there. Contiguity alone is not inductive: it does not say that the writer of
  the last unit is the one that may go on. `GridlockIsForever` makes
  `InputForwardedOrGridlock` mean what it says: the exempted state is not a delay.
- `LifecycleProofs` (`LifecycleAssumption`): `TypeOK`, `OneProxyPerConversation`,
  `GCSparesWatched`, and that a proxy that accepts connections has its socket.
  The last one is what the search for a living proxy rests on, so it comes first.
  The others need `Alone` (unless `muddled`, whoever is about to spawn for a conversation is the only
  one, and there is no proxy of it but the one a restart is going to kill) and
  `WatchedIsZero` (the time of the last disconnect, and the snapshot once written,
  are zero while somebody is attached).
- `MonitorProofs` (`MonitorAssumption`): `TypeOK`, `OwedIsRecorded`, `ResumeIsOwed`,
  `NoDuplicateWindows`. The types need `Places`: a tick only ends with no session left to
  look at. For the limits, `Limits` relates the pending entries to the
  proxies: what is owed is in focus, in an entry or in the batch, or has lapsed; an entry meets only
  the proxy it was made for (`EntryOwed`, and
  `Spawned`: later proxies have other numbers), a due entry is in the batch or in the scheduler but not in both
  (`Batch`), and the scan of a tick shows every proxy that still lives (`Scanned`),
  which is why forgetting a session that is gone forgets nothing that is owed. For
  windows, `Tidy` says that each window that is not `lost` has the name its session has in the map
  and that names are unique; then a name finds the session's own window or a lost
  one, and a session for which none is found has none but lost ones. `Min` of the
  community modules needs that a set of numbers has a least one
  (`MinIsLeast`, from well-foundedness). `AddWindowKeepsNamesApart` says when
  `UniqueName` cannot give two windows one name, and `HowNamesClash` that `clash` becomes true in
  a step that adds a window when every numbered name of the directory is
  taken, the name of a closed window is given away before its session is healed or tmux
  failed, or in a rename, which asks nobody, to a name another session or window has.
- `CloudSyncProofs` (`CloudSyncAssumption`): `TypeOK`, `NoSecondWindow`, `KillsOnlyGone`,
  `RevokedStaysOut`. `Listing` is what a reconcile may rely on of a list that is
  getting old: windows in it can only have closed (`ListedOnce`), those of sessions
  that stayed are still there (`ListedThere`), a session not dealt with has
  no others (`ListedAll`), and a window that waits for its mark is the first one of
  its session (`OneToMark`). `Blinded` says that a producer that goes on although the PC is
  revoked is one that `RevokedStaysOut` exempts.
- `CloudAgentProofs` (`CloudAgentAssumption`): `TypeOK`, `ImplementsQueue`, `DoneOnce`, that a
  command has one agent, and that an answer stands and is true. `DoneOnce` counts executions; what makes it inductive is
  that an agent that has a command is alone with it (`OneClaimer`), that it was
  claimed and is not pending any more (`Claimed`), and that it is not done before the step
  that does it (`NotYet`; for `restart-agent` that step comes after the acknowledgement). The
  refinement adds what an agent is about to report (`Reported`). `NoCommandForgotten` is the
  half of `Answered` that is a safety property: a claimed command is with an agent that has still to
  answer it (`Worked`), a pending one is in the batch of every agent that was told of it (`Heard`).

`WriteLocked`, `UpHasSocket`, `Listing`, `OneClaimer`, `DoneOnce`, `CountersAgree`,
`Watched`, `HoldIsSync`, `LogInOrder`, `FrozenIsAbove`, `NavSwallows` and the type
invariants of `SessionLog` and `HostScroll` are proved for all constants and no run
repeats them; they follow from the invariants of these proofs, or are parts of them.
Three action properties that no run checks are proved as well: `GridlockIsForever`,
`AnswerStands` and `HowNamesClash`.

Only model-checked: the liveness properties and gridlock freedom (`FrameReleased`,
`RunProxyReturns`, `ClaudeDrained`, `InputForwardedOrGridlock`, `Healed`, `Settles`,
`Converges`, `Answered`, `Watched` of `CloudAgent`), because fairness and ENABLED
are outside the prover. Every safety property that a run checks is proved.

## 5. Where code and comments disagree

Met while modelling. Each can be seen in the models by the change named; the
properties of section 3 exempt or assume away exactly these.

1. A magic cut by the end of a read is forwarded to claude as keys, though the
   carry-over buffer is meant for it (`server.go:47`, `:307`, `:349`): claude gets
   a byte 0xff nobody typed, and the rest of the frame as keys. This is `HalfMagic`; `OnlyAsked`
   exempts that byte and, by `astray`, what follows. Of an IMAGE frame with an
   invalid length only the seven bytes of the header are dropped; the payload is typed into
   claude, or parsed if it contains a magic, though `server.go:337` and `DESIGN_M7.md:379` speak of
   a resync and of discarding it safely. The model has it (`Surplus`, `Misleads`).
2. On Linux the slave descriptor the proxy keeps open prevents the hang-up that
   ends the pump; RunProxy waits for ever (`run.go:136`). `HangupOnExit` is TRUE
   in `proxy_live`; with FALSE `RunProxyReturns` fails.
3. Host input is written with `Server.mu` held (`server.go:475`, `:530`); with
   both directions of the pty full the proxy and claude wait for each other. That is
   `Gridlock` in `PtyFlow`.
4. A session that was just interrupted and still shows as active a tick later is
   taken for one resumed by hand: its entry is dropped, the watcher forgets its
   level, and it is interrupted again at the same level (`monitor/monitor.go:311`;
   `limit.go:5` speaks of one notification). That is `Reactivated`. A daemon killed between
   the interrupt (`:218`) and the entry (`:220`), or between the save of `Due` and the message,
   leaves a session paused for ever, and so do a pause whose reset time cannot be read and a resume
   message that does not get through, because `Due` has removed the entry and the result of
   `SendToSocket` is dropped (`:230`). These are `lapsed`.
5. The monitor finds windows by name. A window's name may go to the next session
   of the directory before the first is healed, or be adopted from a STATUS_FILE
   older than the windows (`Mistaken`, which `Healed` exempts).
   `RenameWindow` re-keys its map though tmux refused the rename (`tmux/tmux.go:293`), and
   `RemoveWindow` forgets a window that was not killed; the next healing, or the next session, makes
   a second window beside the first. The same happens after a restart whose one list fails
   (`monitor.go:178` takes it for no windows), or which finds a STATUS_FILE older than a
   rename, although `:161` promises no duplicates. Such windows are `lost`.
6. `RunByKey` promises to reconnect when a proxy is restarted (`bykey.go:33`,
   `:55`), but `runLoop` returns nil at the end of a connection and the loop ends:
   `EOF` in `Lifecycle` leads to "ended".
7. `start` looks for a proxy's snapshot under claude's pid, while snapshots are
   named by the proxy's own; the restart in a moved directory (`start.go:63`)
   never happens. The deferred removal of the snapshot (`main.go:188`) is
   skipped by `os.Exit`.
8. Two starts, or a start and a restart, that overlap resume one conversation
   twice (`muddled`). An entry whose directory `lsof` did not tell makes
   a restarted proxy run in the agent's directory.
9. A reconcile that is aborted is not tried again before something else changes;
   a failed DeleteSession is not tried again before the agent restarts; `pcs/{pc}` is
   written after the sessions, and the listener hears of sessions only
   (`missed`, `orphans`). A kill-window that fails (`tmux.go:191`) leaves a second or a dead
   window until something else triggers a reconcile (`missed`). `main.go:612` says
   that the next tick restores what was deleted; but when `deletePC` runs beside a tick, or
   in part, or a tick fails or is killed between the sessions and `PushStatus`'s last write, the
   sessions are there, `pcs/{pc}` is not, and is not written before another session
   changes (`state.go:131`): until then no PC shows windows for them (`unlisted`).
10. A command whose claim or acknowledgement fails stays pending or running for
    ever; nothing gives up on it (`lost`).
11. `stdin` reads that hold more than one thing: a wheel report together with text
    loses the text, two PgUp together are typed, two focus reports together
    count as a key, a report of the mouse before text keeps the view back.
12. The rest of a read after the first clear of the screen is not fed to `ansiParser`, so
    a clear cut by the next read is missed (`wrap.go:93` says the state is
    kept over chunks); this is `astray`. After a sequence longer than `maxTailHold` a marker may be
    put inside it (`wrap.go:179`); this is `torn`. `tailTracker` takes a CSI to be over at `<`,
    `=` and `>`, which are parameter bytes (`syncwrap.go:149`), and an escape sequence at its first
    intermediate byte (`syncwrap.go:144`): when `ESC [ > c` or `ESC ( B` is cut there, a marker
    gets inside it and the terminal prints the rest, although `syncwrap.go:82` and `wrap.go:150`
    promise that this never happens; this is `early`. Output not yet read when the program
    ends is discarded.
13. A read that ends one frame and begins the next keeps the hold's start, so the
    new frame may be shown half-drawn; the flush of a frame on hold when claude dies is
    unreachable with `os.File`, whose error comes without data; leaving nav mode
    follows the live view but renders nothing until the next output.

## 6. Not modelled, and plan

Not modelled, and why:

- cell contents and escape parsing of the VT (a pure function from bytes to
  cells), status heuristics (regular expressions), image files, self update and
  configuration: pure functions or pure I/O;
- Windows back ends: system calls; the contract they implement is `ProxyServer`'s;
- pairing and enrolment: one transaction and a sequence of calls run once;
- `start` with explicit arguments, the expiry of grants, versions of
  documents (nothing decides by them), the dashboard's snapshot, the cap on remote
  windows, the monitor's SyncOnce, CmdStart and CmdStop.

`CloudAgent` assumes of times that only a bounded number of idle lines close just while
a viewer connects (these are counted as faults; connecting takes less than the 30 s after
which a line closes), and that the relay keeps a lone viewer for longer than a wake and a
data line take. The daemons are taken to be those launchd runs; without launchd
`restart-agent` is acknowledged although nothing restarts.

Plan, modules: `ControlMode` (`tmuxcc/`: matching of `%begin` and `%end`, panes that
vanish while their output is on its way); the monitor's start and stop (a pid file
and a pid that is reused); pairing.

Plan, theorems: that `Lifecycle` composed with `ProxyLife` for each of its proxies is what
it is with its own phases.
