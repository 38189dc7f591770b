---------------------------- MODULE TmuxWindows ----------------------------
(***************************************************************************)
(* tmux.Manager (internal/tmux/tmux.go) over a tmux session: a record tm   *)
(* holds the windows tmux has and the manager's map from session keys to   *)
(* window names.  Names identify windows to the manager, so everything     *)
(* depends on their being unique.                                          *)
(*                                                                         *)
(* A window runs the socket client of one proxy: owner is the session, inc *)
(* says which of its successive proxies.  no tells windows of one owner    *)
(* apart (tmux's window id).  lost is a history: the manager's map named   *)
(* this window, until a tmux command failed on it or the daemon was killed *)
(* before it saved the name.                                               *)
(*                                                                         *)
(* Every call of the manager is given the tmux commands of it that fail,   *)
(* bad; none of these failures is noticed.                                 *)
(***************************************************************************)
EXTENDS Integers, Sequences, FiniteSets, FiniteSetsExt

CONSTANTS
  Sessions,    \* session keys
  DirOf,       \* the directory each runs in (its ShortDir)
  MaxWins      \* bound: windows a session may have at a time

\* What the manager appends to a directory name: nothing or a number when it
\* adds a window, a remark when it renames one.
Numbers == <<"", "-2", "-3", "-4", "-5">>
Remarks == {"[warn]", "[PAUSED]"}
NoName  == <<>>
Names   == {<<DirOf[s], t>> : s \in Sessions,
                              t \in {Numbers[i] : i \in DOMAIN Numbers} \cup Remarks}

ShortDir(s) == <<DirOf[s], "">>
Window == [owner : Sessions, inc : Nat, no : 1 .. MaxWins, name : Names, lost : BOOLEAN]

NamesOf(wins)  == {w.name : w \in wins}
Named(wins, n) == {w \in wins : w.name = n}

\* tmux finds a window by its exact name and refuses an ambiguous one; the
\* manager does not look at the refusal.
Target(wins, n) == IF Cardinality(Named(wins, n)) = 1 THEN Named(wins, n) ELSE {}

\* The commands of a call.  A list that fails counts as no window ("names" is
\* the second one of AddWindow, for uniqueName).
AddCommands    == {"list", "names", "new"}
RenameCommands == {"list", "rename"}
RemoveCommands == {"list", "kill"}

Slots(wins, s) == {n \in 1 .. MaxWins : \A w \in wins : w.owner = s => w.no # n}

NewWindow(wins, s, i, name, bad) ==
  IF "new" \in bad \/ Slots(wins, s) = {} THEN wins
  ELSE wins \cup {[owner |-> s, inc |-> i, no |-> Min(Slots(wins, s)), name |-> name,
                   lost |-> FALSE]}

UniqueName(wins, s) ==
  LET free == {i \in DOMAIN Numbers : <<DirOf[s], Numbers[i]>> \notin NamesOf(wins)}
  IN  <<DirOf[s], IF free = {} THEN "" ELSE Numbers[Min(free)]>>

Has(tm, s) == tm.map[s] # NoName /\ tm.map[s] \in NamesOf(tm.wins)

\* The map is about to name something else for s, and its window goes on.
LoseSight(tm, s) == {[w EXCEPT !.lost = @ \/ w.name = tm.map[s]] : w \in tm.wins}

\* Reuse the window the session has, or make one under a name that is free.
AddWindow(tm, s, i, bad) ==
  IF Has(tm, s) /\ "list" \notin bad THEN tm
  ELSE LET name == UniqueName(IF "names" \in bad THEN {} ELSE tm.wins, s) IN
       [wins |-> NewWindow(LoseSight(tm, s), s, i, name, bad),
        map  |-> [tm.map EXCEPT ![s] = name]]

\* The map follows even if tmux did not rename the window.
RenameWindow(tm, s, name, bad) ==
  IF ~Has(tm, s) \/ "list" \in bad THEN tm
  ELSE LET old == Target(tm.wins, tm.map[s]) IN
       [wins |-> IF "rename" \in bad THEN LoseSight(tm, s)
                 ELSE (tm.wins \ old) \cup {[w EXCEPT !.name = name] : w \in old},
        map  |-> [tm.map EXCEPT ![s] = name]]

RemoveWindow(tm, s, bad) ==
  IF tm.map[s] = NoName THEN tm
  ELSE [wins |-> IF bad # {} THEN LoseSight(tm, s)
                 ELSE tm.wins \ Target(tm.wins, tm.map[s]),
        map  |-> [tm.map EXCEPT ![s] = NoName]]

\* AdoptWindow, for every session the status file names a living window of;
\* none, if the list failed.
Adopted(wins, saved, bad) ==
  [s \in Sessions |-> IF bad = {} /\ saved[s] \in NamesOf(wins) THEN saved[s] ELSE NoName]

\* healWindowMissing: in the list of names seen before.
Missing(tm, seen, s) == tm.map[s] = NoName \/ tm.map[s] \notin seen
=============================================================================
