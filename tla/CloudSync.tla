----------------------------- MODULE CloudSync -----------------------------
(***************************************************************************)
(* Sessions on other PCs as tmux windows of this one.                      *)
(*                                                                         *)
(* On the PC the sessions run on, runOneCloud (main.go) compares STATUS    *)
(* with what it had before and writes one Firestore document per session   *)
(* (state.go).  On the PC that shows them, RunRemoteTmuxSync               *)
(* (remotesync.go) is told of changes, reads the documents and reconciles  *)
(* the windows that carry the mark @cm_remote (tmux.go, mark_unix.go).     *)
(* Every call to Firestore and to tmux can fail (a write also after it has *)
(* been done), both agents can be killed at any step, and an owner can     *)
(* revoke the producing PC meanwhile.                                      *)
(*                                                                         *)
(* Left out: the version of a document, which nothing here reads, the copy *)
(* of the sessions for the dashboard, and the limit above which a          *)
(* reconcile only closes windows (three a session and eight more).         *)
(***************************************************************************)
EXTENDS Integers, FiniteSets

CONSTANTS
  Keys,         \* sessions of the producing PC, in the order of STATUS
  Contents,     \* what STATUS may say of a session
  MaxWindows,   \* bound: tmux window ids
  MaxChanges,   \* bound: changes of STATUS
  MaxFaults,    \* bound: failed calls, closed windows and killed agents
  MaxAdmin      \* bound: revocations, deletions and enrolments

ASSUME CloudSyncAssumption ==
  /\ Keys \subseteq Nat /\ IsFiniteSet(Keys)
  /\ {MaxWindows, MaxChanges, MaxFaults, MaxAdmin} \subseteq Nat

Gone     == "gone"
Free     == 0 - 1
Unmarked == 0 - 2
Window   == 1 .. MaxWindows

VARIABLES
  status,   \* STATUS of the producing PC
  doc,      \* pcs/{pc}/sessions/{key}: the content behind its hash
  pcDoc,    \* pcs/{pc} exists
  revoked,  \* revoked/{pc} exists
  prod,     \* the producing agent
  orphans,  \* history: documents whose deletion was lost
  admin,    \* what the owner does next: nothing, deletePC or its second half
  sub,      \* the subscription of WatchSessions is up
  trigger,  \* the channel of RunRemoteTmuxSync, capacity one
  rc,       \* ReconcileRemote
  wins,     \* tmux windows: free, without a mark, or the session they are for
  there,    \* history: visible ever since rc listed the windows, none closed
  missed,   \* history: something has gone by since the last reconcile began
  unlisted, \* history: documents were left behind without pcs/{pc}
  changes, faults, acts

cloudVars == <<doc, pcDoc, revoked, unlisted>>
prodVars  == <<status, prod, orphans>>
vars == <<cloudVars, prodVars, admin, sub, trigger, rc, wins, there, missed,
          changes, faults, acts>>

None == [k \in Keys |-> Gone]
Off  == [pc |-> "off", prev |-> {}, ss |-> None, todo |-> {}, changed |-> FALSE,
         blind |-> FALSE]
Rest == [pc |-> "rest", cur |-> {}, want |-> {}, new |-> 0, key |-> Free]

Keyed(m) == {k \in Keys : m[k] # Gone}
Of(k)    == {w \in Window : wins[w] = k}

\* What ListPCs and ListSessions give: a PC without its own document is not
\* listed, whatever its sessions.
Visible == IF pcDoc THEN Keyed(doc) ELSE {}

\* tmux windows may be left double by an agent of an earlier version.
Init ==
  /\ \E c \in Contents : status = [k \in Keys |-> c]
  /\ doc = None /\ pcDoc = FALSE /\ revoked \in BOOLEAN
  /\ prod = Off /\ orphans = {} /\ admin = "none"
  /\ sub = FALSE /\ trigger = TRUE
  /\ rc = Rest /\ there = {} /\ missed = FALSE /\ unlisted = FALSE
  /\ \E k \in Keys : /\ \A j \in Keys : k <= j
                     /\ wins = [w \in Window |-> IF w \in {1, 2} THEN k ELSE Free]
  /\ changes = 0 /\ faults = 0 /\ acts = 0

Fault == faults < MaxFaults /\ faults' = faults + 1
Fine  == UNCHANGED faults

\* Mutant of Tell: the callback is dropped while a reconcile is under way.
TellIdle == trigger' = (trigger \/ (sub /\ rc.pc = "rest"))

\* A change of a session document makes the subscription, if there is one, call
\* back, and the callback fills the channel.
Tell == trigger' = (trigger \/ sub)

\* Writing or deleting pcs/{pc} is not a change of any session document.
Untold == missed' = (missed \/ (pcDoc' # pcDoc /\ ~trigger))

\* Documents stay without pcs/{pc} when it is deleted while there are some, or
\* when those of a tick are written and it is not (e).
Unlist(e) == unlisted' = (~pcDoc' /\ Keyed(doc') # {} /\ (unlisted \/ e))

StatusChanges ==
  /\ changes < MaxChanges /\ changes' = changes + 1
  /\ \E k \in Keys, c \in Contents \cup {Gone} :
       c # status[k] /\ status' = [status EXCEPT ![k] = c]
  /\ UNCHANGED <<cloudVars, prod, orphans, admin, sub, trigger, rc, wins, there,
                 missed, faults, acts>>

-----------------------------------------------------------------------------
(***************************************************************************)
(* The producing agent.                                                    *)
(***************************************************************************)
ProdFrame == UNCHANGED <<status, revoked, admin, sub, rc, wins, changes, acts>>

\* IsSelfRevoked: a read that fails says no.
Start ==
  /\ prod.pc = "off"
  /\ \/ ~revoked /\ Fine /\ prod' = [prod EXCEPT !.pc = "register"]
     \/ revoked /\ Fine /\ prod' = [prod EXCEPT !.pc = "seed"]
     \/ revoked /\ Fault /\ prod' = [prod EXCEPT !.pc = "register", !.blind = TRUE]
  /\ UNCHANGED <<doc, pcDoc, unlisted, orphans, trigger, there, missed>> /\ ProdFrame

\* RegisterPCVersion; when it fails the agent ends and is started again.
Register ==
  /\ prod.pc = "register" /\ Fine /\ pcDoc' = TRUE /\ Untold
  /\ prod' = [prod EXCEPT !.pc = "seed", !.blind = FALSE]
  /\ UNCHANGED <<doc, orphans, trigger, there>> /\ Unlist(FALSE) /\ ProdFrame

\* OwnSessionKeys.
Seed ==
  /\ prod.pc = "seed"
  /\ \/ /\ Fine /\ orphans' = {}
        /\ prod' = [prod EXCEPT !.pc = "tick", !.prev = Keyed(doc)]
     \/ /\ Fault /\ orphans' = Keyed(doc)
        /\ prod' = [prod EXCEPT !.pc = "tick"]
  /\ UNCHANGED <<doc, pcDoc, unlisted, trigger, there, missed>> /\ ProdFrame

\* The rest of a tick that has nothing to do: without a change pcs/{pc} is not
\* written, with nothing to delete prev becomes what is there now.
Onward(p) ==
  LET pushed == p.pc = "push" /\ p.todo = {} /\ ~p.changed
  IN IF (pushed \/ p.pc = "delete") /\ p.prev \subseteq Keyed(p.ss)
     THEN [Off EXCEPT !.pc = "tick", !.prev = Keyed(p.ss)]
     ELSE IF pushed THEN [p EXCEPT !.pc = "delete"] ELSE p

Begin(ss, blind) ==
  prod' = Onward([prod EXCEPT !.pc = "push", !.ss = ss, !.todo = Keyed(ss),
                              !.changed = FALSE, !.blind = blind])

\* Mutant of Tick: pushes without asking whether this PC is revoked.
TickUnchecked ==
  /\ prod.pc = "tick" /\ Begin(status, FALSE) /\ Fine
  /\ UNCHANGED <<doc, pcDoc, unlisted, orphans, trigger, there, missed>> /\ ProdFrame

\* Every 5 s; a STATUS file that cannot be read has no sessions.
Tick ==
  /\ prod.pc = "tick"
  /\ \/ ~revoked /\ Begin(status, FALSE) /\ Fine
     \/ ~revoked /\ Begin(None, FALSE) /\ Fault
     \/ revoked /\ Begin(status, TRUE) /\ Fault
  /\ UNCHANGED <<doc, pcDoc, unlisted, orphans, trigger, there, missed>> /\ ProdFrame

\* PushStatus, one session: no write while the content is the same, unless the
\* document cannot be read; a write that reports an error, done or not, leaves the
\* sessions after it for the next tick, and pcs/{pc} too.
Push(k) ==
  /\ prod.pc = "push" /\ k \in prod.todo /\ \A j \in prod.todo : k <= j
  /\ UNCHANGED <<pcDoc, there, missed>>
  /\ \/ /\ doc[k] = prod.ss[k] /\ Fine
        /\ prod' = Onward([prod EXCEPT !.todo = @ \ {k}])
        /\ UNCHANGED <<doc, unlisted, trigger>>
     \/ /\ \/ doc[k] # prod.ss[k] /\ Fine
           \/ doc[k] = prod.ss[k] /\ Fault
        /\ prod' = [prod EXCEPT !.todo = @ \ {k}, !.changed = TRUE]
        /\ doc' = [doc EXCEPT ![k] = prod.ss[k]] /\ Tell /\ Unlist(FALSE)
     \/ /\ Fault /\ prod' = Onward([prod EXCEPT !.pc = "delete", !.todo = {}])
        /\ \/ UNCHANGED <<doc, trigger>>
           \/ doc' = [doc EXCEPT ![k] = prod.ss[k]] /\ Tell
        /\ Unlist(prod.changed \/ doc' # doc)
  /\ orphans' = (IF k \in Keyed(doc') THEN orphans \ {k} ELSE orphans) /\ ProdFrame

\* The parent document, when something changed; its error is ignored.
PushParent ==
  /\ prod.pc = "push" /\ prod.todo = {}
  /\ prod' = Onward([prod EXCEPT !.pc = "delete"])
  /\ \/ pcDoc' = TRUE /\ Fine
     \/ UNCHANGED pcDoc /\ Fault
  /\ UNCHANGED <<doc, orphans, trigger, there>> /\ Untold /\ Unlist(TRUE) /\ ProdFrame

\* DeleteSession; what fails is not tried again, prev is the new set anyway.
Delete(k) ==
  /\ prod.pc = "delete" /\ k \in prod.prev \ Keyed(prod.ss)
  /\ prod' = Onward([prod EXCEPT !.prev = @ \ {k}])
  /\ \/ /\ Fine /\ doc' = [doc EXCEPT ![k] = Gone]
        /\ there' = there \ {k} /\ Tell /\ UNCHANGED orphans
     \/ /\ Fault /\ orphans' = orphans \cup {k}
        /\ UNCHANGED <<doc, there, trigger>>
  /\ UNCHANGED <<pcDoc, missed>> /\ Unlist(FALSE) /\ ProdFrame

\* The agent is killed (restart-agent, an update); launchd starts it again.
ProdCrash ==
  /\ prod.pc # "off" /\ Fault /\ prod' = Off
  /\ UNCHANGED <<doc, pcDoc, orphans, trigger, there, missed>> /\ Unlist(prod.changed)
  /\ ProdFrame

-----------------------------------------------------------------------------
(***************************************************************************)
(* The owner: the web interface calls SetRevoked and deletePC, a new       *)
(* enrolment of the PC calls ClearRevoked.                                 *)
(***************************************************************************)
OwnerFrame == UNCHANGED <<status, sub, rc, wins, changes, faults>>
Act == acts < MaxAdmin /\ acts' = acts + 1

SetRevoked ==
  /\ ~revoked /\ Act /\ revoked' = TRUE
  /\ prod' = [prod EXCEPT !.blind = prod.pc \in {"register", "push", "delete"}]
  /\ admin = "none" /\ admin' \in {"none", "delete"}
  /\ UNCHANGED <<doc, pcDoc, unlisted, orphans, trigger, there, missed>> /\ OwnerFrame

ClearRevoked ==
  /\ revoked /\ Act /\ revoked' = FALSE
  /\ UNCHANGED <<doc, pcDoc, unlisted, prod, orphans, admin, trigger, there, missed>> /\ OwnerFrame

\* deletePC: the sessions, and then pcs/{pc}; what fails is ignored.
DeleteSessions ==
  /\ \/ admin = "delete" /\ UNCHANGED acts
     \/ admin = "none" /\ Act
  /\ admin' = "parent"
  /\ \E ks \in SUBSET Keyed(doc) :
       /\ doc' = [k \in Keys |-> IF k \in ks THEN Gone ELSE doc[k]]
       /\ there' = there \ ks
       /\ IF ks = {} THEN UNCHANGED trigger ELSE Tell
       /\ orphans' = orphans \cup (Keyed(doc) \ ks)
  /\ UNCHANGED <<pcDoc, revoked, prod, missed>> /\ Unlist(FALSE) /\ OwnerFrame

DeleteParent ==
  /\ admin = "parent" /\ admin' = "none"
  /\ pcDoc' \in {FALSE, pcDoc} /\ Untold
  /\ there' = IF pcDoc' THEN there ELSE {}
  /\ UNCHANGED <<doc, revoked, prod, orphans, trigger, acts>> /\ Unlist(TRUE) /\ OwnerFrame

-----------------------------------------------------------------------------
(***************************************************************************)
(* The consuming agent: WatchSessions and RunRemoteTmuxSync.               *)
(***************************************************************************)
SyncFrame == UNCHANGED <<cloudVars, prodVars, admin, changes, acts>>

\* keepSubscribed: the stream ends, and is opened again with a first snapshot.
StreamEnds ==
  /\ sub /\ Fault /\ sub' = FALSE
  /\ UNCHANGED <<trigger, rc, wins, there, missed>> /\ SyncFrame

Subscribe ==
  /\ ~sub /\ Fine /\ sub' = TRUE /\ trigger' = TRUE
  /\ UNCHANGED <<rc, wins, there, missed>> /\ SyncFrame

\* Mutant of Abort: the next reconcile begins with the windows of this one.
AbortKeeps == Fault /\ rc' = [rc EXCEPT !.pc = "rest"] /\ there' = {} /\ missed' = TRUE

\* The goroutine returns from ReconcileRemote without having done anything.
Abort == Fault /\ rc' = Rest /\ there' = {} /\ missed' = TRUE

Marked == {<<w, wins[w]>> : w \in {v \in Window : wins[v] \in Keys}}

\* Mutant of Look: a list of windows that fails is a list of none.
LookBlind ==
  /\ rc.pc = "rest" /\ trigger /\ trigger' = FALSE
  /\ \E cur \in {Marked, {}} :
       /\ cur = Marked \/ faults < MaxFaults
       /\ faults' = IF cur = Marked THEN faults ELSE faults + 1
       /\ rc' = [Rest EXCEPT !.pc = IF pcDoc THEN "sessions" ELSE "each", !.cur = cur]
  /\ there' = Visible /\ missed' = FALSE
  /\ UNCHANGED <<sub, wins>> /\ SyncFrame

\* MarkedWindows and ListPCs.
Look ==
  /\ rc.pc = "rest" /\ trigger /\ trigger' = FALSE
  /\ \/ /\ Fine /\ there' = Visible /\ missed' = FALSE
        /\ rc' = [Rest EXCEPT !.pc = IF pcDoc THEN "sessions" ELSE "each", !.cur = Marked]
     \/ Abort
  /\ UNCHANGED <<sub, wins>> /\ SyncFrame

\* Mutant of ReadSessions: no sessions when they cannot be read.
ReadSessionsBlind ==
  /\ rc.pc = "sessions"
  /\ \/ Fine /\ rc' = [rc EXCEPT !.pc = "each", !.want = Keyed(doc)]
     \/ Fault /\ rc' = [rc EXCEPT !.pc = "each"]
  /\ UNCHANGED <<sub, trigger, wins, there, missed>> /\ SyncFrame

\* ListSessions.
ReadSessions ==
  /\ rc.pc = "sessions"
  /\ \/ /\ Fine /\ rc' = [rc EXCEPT !.pc = "each", !.want = Keyed(doc)]
        /\ UNCHANGED <<there, missed>>
     \/ Abort
  /\ UNCHANGED <<sub, trigger, wins>> /\ SyncFrame

Listed(k) == {e \in rc.cur : e[2] = k}
Kill(ws)  == wins' = [w \in Window |-> IF w \in ws THEN Free ELSE wins[w]]

\* KillWindowID for each of ws; what fails is ignored, and not tried again before
\* the next reconcile.
KillWindowIDs(ws) ==
  \/ Fine /\ Kill(ws) /\ UNCHANGED missed
  \/ Fault /\ missed' = TRUE /\ \E vs \in SUBSET ws : vs # ws /\ Kill(vs)

\* A session with windows keeps one; the others are left from a runaway.
Keep(k) ==
  /\ rc.pc = "each" /\ k \in rc.want /\ Listed(k) # {}
  /\ \E e \in Listed(k) : KillWindowIDs({f[1] : f \in Listed(k) \ {e}})
  /\ rc' = [rc EXCEPT !.want = @ \ {k}, !.cur = @ \ Listed(k)]
  /\ UNCHANGED <<sub, trigger, there>> /\ SyncFrame

\* tmux does not use the id of a window again.
Fresh == {w \in Window : wins[w] = Free /\ \A e \in rc.cur : e[1] # w}

\* NewMarkedWindow: new-window, ...
New(k) ==
  /\ rc.pc = "each" /\ k \in rc.want /\ Listed(k) = {}
  /\ \/ \E w \in Fresh :
          /\ Fine /\ \A v \in Fresh : w <= v
          /\ wins' = [wins EXCEPT ![w] = Unmarked]
          /\ rc' = [rc EXCEPT !.pc = "mark", !.want = @ \ {k}, !.new = w, !.key = k]
          /\ UNCHANGED missed
     \/ /\ Fault /\ rc' = [rc EXCEPT !.want = @ \ {k}] /\ missed' = TRUE
        /\ UNCHANGED wins
  /\ UNCHANGED <<sub, trigger, there>> /\ SyncFrame

\* ... and set-option @cm_remote.
Mark ==
  /\ rc.pc = "mark" /\ rc' = [rc EXCEPT !.pc = "each", !.new = 0, !.key = Free]
  /\ \/ /\ wins[rc.new] = Unmarked /\ Fine
        /\ wins' = [wins EXCEPT ![rc.new] = rc.key] /\ UNCHANGED missed
     \/ wins[rc.new] = Free /\ Fine /\ UNCHANGED <<wins, missed>>
     \/ wins[rc.new] = Unmarked /\ Fault /\ missed' = TRUE /\ UNCHANGED wins
  /\ UNCHANGED <<sub, trigger, there>> /\ SyncFrame

\* The windows of sessions that are gone, then those named like ours that have
\* no mark; a list of the latter that fails leaves them all.
KillGone ==
  /\ rc.pc = "each" /\ rc.want = {} /\ rc' = Rest /\ there' = {}
  /\ KillWindowIDs({e[1] : e \in rc.cur} \cup {w \in Window : wins[w] = Unmarked})
  /\ UNCHANGED <<sub, trigger>> /\ SyncFrame

\* Somebody closes one of the windows.
CloseWindow(w) ==
  /\ wins[w] # Free /\ Fault /\ Kill({w}) /\ missed' = TRUE
  /\ there' = there \ {wins[w]}
  /\ UNCHANGED <<sub, trigger, rc>> /\ SyncFrame

SyncCrash ==
  /\ Fault /\ rc' = Rest /\ sub' = FALSE /\ trigger' = TRUE /\ there' = {}
  /\ UNCHANGED <<wins, missed>> /\ SyncFrame

-----------------------------------------------------------------------------
Producer == \/ Start \/ Register \/ Seed \/ Tick \/ PushParent
            \/ \E k \in Keys : Push(k) \/ Delete(k)

Reconcile == \/ Look \/ ReadSessions \/ Mark \/ KillGone
             \/ \E k \in Keys : Keep(k) \/ New(k)

Next ==
  \/ StatusChanges \/ Producer \/ ProdCrash
  \/ SetRevoked \/ ClearRevoked \/ DeleteSessions \/ DeleteParent
  \/ StreamEnds \/ Subscribe \/ Reconcile \/ SyncCrash
  \/ \E w \in Window : CloseWindow(w)

Spec == Init /\ [][Next]_vars

\* Both agents run (launchd), and a stream that ends is opened again.
Fairness == WF_vars(Producer) /\ WF_vars(Reconcile) /\ WF_vars(Subscribe)

FairSpec == Spec /\ Fairness

-----------------------------------------------------------------------------
\* Types; a window waits for its mark exactly while it has just been created,
\* and a reconcile carries nothing over to the next one.
TypeOK ==
  /\ {status, doc} \subseteq [Keys -> Contents \cup {Gone}]
  /\ {pcDoc, revoked, sub, trigger, missed, unlisted} \subseteq BOOLEAN
  /\ admin \in {"none", "delete", "parent"}
  /\ prod \in [pc : {"off", "register", "seed", "tick", "push", "delete"},
               prev : SUBSET Keys, ss : [Keys -> Contents \cup {Gone}],
               todo : SUBSET Keys, changed : BOOLEAN, blind : BOOLEAN]
  /\ prod.todo \subseteq Keyed(prod.ss)
  /\ rc \in [pc : {"rest", "sessions", "each", "mark"},
             cur : SUBSET (Window \X Keys), want : SUBSET Keys,
             new : Window \cup {0}, key : Keys \cup {Free}]
  /\ rc.pc = "rest" => rc = Rest
  /\ rc.pc = "mark" <=> rc.new # 0
  /\ wins \in [Window -> Keys \cup {Free, Unmarked}]
  /\ orphans \subseteq Keys /\ there \subseteq Keys
  /\ changes \in 0 .. MaxChanges /\ faults \in 0 .. MaxFaults /\ acts \in 0 .. MaxAdmin

\* No runaway: a window is only ever marked for a session that has none,
\* whatever fails and whenever either agent is killed.
NoSecondWindow ==
  [][\A k \in Keys, w \in Window : wins[w] # k /\ wins'[w] = k => Of(k) = {}]_vars

\* A reconcile does not close the only window of a session that was listed in
\* Firestore all the while: a call that fails is never taken for "no session".
KillsOnlyGone ==
  [][\A k \in there : rc # rc' /\ Of(k) # {} => \E w \in Window : wins'[w] = k]_vars

\* A revoked PC that has been deleted does not come back by itself, unless a
\* tick was under way when it was revoked or could not read that it is.
RevokedStaysOut ==
  [][revoked /\ ~prod.blind => Keyed(doc') \subseteq Keyed(doc) /\ (pcDoc' => pcDoc)]_vars

Followed ==
  /\ ~revoked => \A k \in Keys \ orphans : doc[k] = status[k]
  /\ Keyed(doc) # {} => pcDoc \/ unlisted
  /\ ~missed => /\ Visible = {k \in Keys : Of(k) # {}}
                /\ \A k \in Visible : \E w \in Window : Of(k) = {w}
                /\ Of(Unmarked) = {}

\* Once nothing changes and nothing fails any more, the documents are those of
\* the running sessions, their PC is listed, there is one window for each that is,
\* and no window without a mark.  Not covered: a document whose deletion failed
\* (orphans); pcs/{pc} deleted while there are documents, or not written after
\* them, which no tick makes good before another session changes (unlisted); and
\* what the last reconcile failed to do, or what happened since it began that no
\* further snapshot announces (missed: an aborted reconcile, a window that could
\* not be made or killed or was closed, pcs/{pc} written after the sessions).
Converges == <>[]Followed
=============================================================================
