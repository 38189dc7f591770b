--------------------------- MODULE MonitorProofs ---------------------------
(***************************************************************************)
(* Proofs about Monitor, for every set of sessions in whatever directories *)
(* and every bound: its types, that no paused proxy is forgotten and none  *)
(* is resumed twice, and that the daemon makes no second window.           *)
(***************************************************************************)
EXTENDS Monitor, FiniteSetTheorems, WellFoundedInduction, TLAPS

-----------------------------------------------------------------------------
(***************************************************************************)
(* The tmux manager's operators.                                           *)
(***************************************************************************)
\* A set of natural numbers has a least member, and Min is it.
LEMMA MinIsLeast ==
  ASSUME NEW T, T \subseteq Nat, T # {}
  PROVE  Min(T) \in T /\ \A y \in T : Min(T) <= y
<1> DEFINE R == {ss \in Nat \X Nat : ss[1] < ss[2]}
<1>1. IsWellFoundedOn(R, Nat)
  BY NatLessThanWellFounded DEF OpToRel
<1>2. \A x, y \in Nat : x < y => <<x, y>> \in R
  OBVIOUS
<1> HIDE DEF R
<1>3. PICK x \in T : \A y \in T : ~(<<y, x>> \in R)
  BY <1>1, WFMin
<1>4. \A y \in T : ~(y < x)
  BY <1>2, <1>3
<1>5. \A y \in T : x <= y
  BY <1>4
<1> QED
  BY <1>5 DEF Min

\* The windows and the map of the manager are what TypeOK says.
WellFormed(t) ==
  t \in [wins : SUBSET Window, map : [Sessions -> Names \cup {NoName}]]

\* The names the daemon gives are names, and none is the absence of one.
LEMMA NamesGiven ==
  /\ NoName \notin Names
  /\ \A s \in Sessions :
       /\ ShortDir(s) \in Names
       /\ Remark(s, "[warn]") \in Names /\ Remark(s, "[PAUSED]") \in Names
       /\ \A i \in DOMAIN Numbers : <<DirOf[s], Numbers[i]>> \in Names
<1>1. NoName \notin Names
  BY DEF Names, NoName
<1>2. ASSUME NEW s \in Sessions, NEW i \in DOMAIN Numbers
      PROVE  <<DirOf[s], Numbers[i]>> \in Names
  BY DEF Names
<1>3. 1 \in DOMAIN Numbers /\ Numbers[1] = ""
  BY DEF Numbers
<1>4. ASSUME NEW s \in Sessions, NEW r \in Remarks
      PROVE  <<DirOf[s], r>> \in Names
  BY DEF Names
<1> QED
  BY <1>1, <1>2, <1>3, <1>4 DEF ShortDir, Remark, Remarks

LEMMA NumbersCounted == DOMAIN Numbers \subseteq Nat
  BY DEF Numbers

LEMMA UniqueNameIs ==
  ASSUME NEW wins, NEW s \in Sessions
  PROVE  UniqueName(wins, s) \in Names
<1> DEFINE free == {i \in DOMAIN Numbers : <<DirOf[s], Numbers[i]>> \notin NamesOf(wins)}
<1>1. UniqueName(wins, s) = <<DirOf[s], IF free = {} THEN "" ELSE Numbers[Min(free)]>>
  BY DEF UniqueName
<1>2. free \subseteq DOMAIN Numbers
  OBVIOUS
<1> HIDE DEF free
<1>3. CASE free = {}
  BY <1>1, <1>3, NamesGiven DEF ShortDir
<1>4. CASE free # {}
  <2>1. Min(free) \in DOMAIN Numbers
    BY <1>2, <1>4, NumbersCounted, MinIsLeast
  <2> QED
    BY <1>1, <1>4, <2>1, NamesGiven
<1> QED
  BY <1>3, <1>4

\* new-window makes at most one window, of that session under that name.
LEMMA NewWindowIs ==
  ASSUME NEW wins \in SUBSET Window, NEW s \in Sessions, NEW i \in Nat,
         NEW name \in Names, NEW bad, MaxWins \in Nat
  PROVE  /\ NewWindow(wins, s, i, name, bad) \in SUBSET Window
         /\ \A w \in NewWindow(wins, s, i, name, bad) :
              w \in wins \/ (w.owner = s /\ w.name = name)
<1>1. CASE "new" \in bad \/ Slots(wins, s) = {}
  BY <1>1 DEF NewWindow
<1>2. CASE ~("new" \in bad \/ Slots(wins, s) = {})
  <2> DEFINE n == Min(Slots(wins, s))
             new == [owner |-> s, inc |-> i, no |-> n, name |-> name, lost |-> FALSE]
  <2>1. Slots(wins, s) \subseteq 1 .. MaxWins /\ 1 .. MaxWins \subseteq Nat
    BY DEF Slots
  <2>2. n \in 1 .. MaxWins
    BY <1>2, <2>1, MinIsLeast
  <2> HIDE DEF n
  <2>3. new \in Window /\ new.owner = s /\ new.name = name
    BY <2>2 DEF Window
  <2>4. NewWindow(wins, s, i, name, bad) = wins \cup {new}
    BY <1>2 DEF NewWindow, n
  <2> HIDE DEF new
  <2> QED
    BY <2>3, <2>4
<1> QED
  BY <1>1, <1>2

\* A window the manager loses sight of stays what it is.
Unseen(w, n) == [w EXCEPT !.lost = @ \/ w.name = n]

LEMMA UnseenIs ==
  ASSUME NEW w \in Window, NEW n
  PROVE  /\ Unseen(w, n) \in Window
         /\ Unseen(w, n).owner = w.owner /\ Unseen(w, n).name = w.name
         /\ ~Unseen(w, n).lost => ~w.lost /\ w.name # n
<1>1. (w.lost \/ w.name = n) \in BOOLEAN
  BY DEF Window
<1> QED
  BY <1>1 DEF Unseen, Window

LEMMA LoseSightOf ==
  ASSUME NEW t, NEW s
  PROVE  LoseSight(t, s) = {Unseen(w, t.map[s]) : w \in t.wins}
  BY DEF LoseSight, Unseen

LEMMA LoseSightIs ==
  ASSUME NEW t, WellFormed(t), NEW s \in Sessions
  PROVE  /\ LoseSight(t, s) \in SUBSET Window
         /\ NamesOf(LoseSight(t, s)) = NamesOf(t.wins)
<1>1. \A w \in t.wins : w \in Window
  BY DEF WellFormed
<1>2. \A w \in t.wins : /\ Unseen(w, t.map[s]) \in Window
                        /\ Unseen(w, t.map[s]).name = w.name
  BY <1>1, UnseenIs
<1> QED
  BY <1>2, LoseSightOf DEF NamesOf

LEMMA LoseSightApart ==
  ASSUME NEW t, WellFormed(t), NEW s \in Sessions,
         \A v, w \in t.wins : v.name = w.name => v = w
  PROVE  \A v, w \in LoseSight(t, s) : v.name = w.name => v = w
<1>1. \A w \in t.wins : w \in Window
  BY DEF WellFormed
<1>2. \A w \in t.wins : Unseen(w, t.map[s]).name = w.name
  BY <1>1, UnseenIs
<1> QED
  BY <1>2, LoseSightOf

\* Renaming touches the windows and the name of one session in the map.
LEMMA TargetIs ==
  ASSUME NEW wins, NEW n
  PROVE  Target(wins, n) \subseteq Named(wins, n)
  BY DEF Target

LEMMA AddTyped ==
  ASSUME NEW t, WellFormed(t), NEW s \in Sessions, NEW i \in Nat, NEW bad,
         MaxWins \in Nat
  PROVE  WellFormed(AddWindow(t, s, i, bad))
<1> DEFINE name == UniqueName(IF "names" \in bad THEN {} ELSE t.wins, s)
           wins == NewWindow(LoseSight(t, s), s, i, name, bad)
<1>1. name \in Names
  BY UniqueNameIs
<1> HIDE DEF name
<1>2. wins \in SUBSET Window
  BY <1>1, LoseSightIs, NewWindowIs
<1> HIDE DEF wins
<1>3. CASE Has(t, s) /\ "list" \notin bad
  BY <1>3 DEF AddWindow
<1>4. CASE ~(Has(t, s) /\ "list" \notin bad)
  <2>1. AddWindow(t, s, i, bad) = [wins |-> wins, map |-> [t.map EXCEPT ![s] = name]]
    BY <1>4 DEF AddWindow, name, wins
  <2> QED
    BY <1>1, <1>2, <2>1 DEF WellFormed
<1> QED
  BY <1>3, <1>4

LEMMA RenameTyped ==
  ASSUME NEW t, WellFormed(t), NEW s \in Sessions, NEW name \in Names, NEW bad
  PROVE  WellFormed(RenameWindow(t, s, name, bad))
<1> DEFINE old == Target(t.wins, t.map[s])
           new == {[w EXCEPT !.name = name] : w \in old}
<1>1. old \subseteq t.wins
  BY TargetIs DEF Named
<1>2. t.wins \subseteq Window
  BY DEF WellFormed
<1> HIDE DEF old
<1>3. new \subseteq Window
  BY <1>1, <1>2 DEF Window
<1> HIDE DEF new
<1>4. CASE ~Has(t, s) \/ "list" \in bad
  BY <1>4 DEF RenameWindow
<1>5. CASE Has(t, s) /\ "list" \notin bad
  <2>1. RenameWindow(t, s, name, bad)
          = [wins |-> IF "rename" \in bad THEN LoseSight(t, s) ELSE (t.wins \ old) \cup new,
             map |-> [t.map EXCEPT ![s] = name]]
    BY <1>5 DEF RenameWindow, old, new
  <2>2. LoseSight(t, s) \subseteq Window
    BY LoseSightIs
  <2> QED
    BY <1>2, <1>3, <2>1, <2>2 DEF WellFormed
<1> QED
  BY <1>4, <1>5

LEMMA RemoveTyped ==
  ASSUME NEW t, WellFormed(t), NEW s \in Sessions, NEW bad
  PROVE  WellFormed(RemoveWindow(t, s, bad))
<1>1. CASE t.map[s] = NoName
  BY <1>1 DEF RemoveWindow
<1>2. CASE t.map[s] # NoName
  <2>1. RemoveWindow(t, s, bad)
          = [wins |-> IF bad # {} THEN LoseSight(t, s)
                      ELSE t.wins \ Target(t.wins, t.map[s]),
             map  |-> [t.map EXCEPT ![s] = NoName]]
    BY <1>2 DEF RemoveWindow
  <2>2. LoseSight(t, s) \subseteq Window
    BY LoseSightIs
  <2> QED
    BY <2>1, <2>2 DEF WellFormed
<1> QED
  BY <1>1, <1>2

-----------------------------------------------------------------------------
(***************************************************************************)
(* Why one window each: as long as names are unique, a window the manager  *)
(* has not lost sight of has the name that its session has in the map.     *)
(***************************************************************************)
OwnName(t) == \A w \in t.wins : ~w.lost => t.map[w.owner] = w.name
Tidy(t)    == ~SharesName(t) /\ OwnName(t)

\* Nobody else has the name of s in the map when the map names something new.
LEMMA LoseSightOwn ==
  ASSUME NEW t, WellFormed(t), OwnName(t), NEW s \in Sessions,
         NEW v \in LoseSight(t, s), ~v.lost
  PROVE  v.owner \in Sessions \ {s} /\ t.map[v.owner] = v.name
<1>1. PICK w \in t.wins : v = Unseen(w, t.map[s])
  BY LoseSightOf
<1>2. w \in Window
  BY DEF WellFormed
<1>3. v.owner = w.owner /\ v.name = w.name /\ ~w.lost /\ w.name # t.map[s]
  BY <1>1, <1>2, UnseenIs
<1>4. w.owner \in Sessions
  BY <1>2 DEF Window
<1>5. t.map[w.owner] = w.name
  BY <1>3 DEF OwnName
<1> QED
  BY <1>3, <1>4, <1>5

\* AddWindow makes a window for a session that has none, or loses sight of it.
LEMMA AddOwn ==
  ASSUME NEW t, WellFormed(t), OwnName(t), NEW s \in Sessions, NEW i \in Nat,
         NEW bad, MaxWins \in Nat
  PROVE  OwnName(AddWindow(t, s, i, bad))
<1> DEFINE name == UniqueName(IF "names" \in bad THEN {} ELSE t.wins, s)
           wins == NewWindow(LoseSight(t, s), s, i, name, bad)
<1>1. name \in Names
  BY UniqueNameIs
<1> HIDE DEF name
<1>2. \A w \in wins : w \in LoseSight(t, s) \/ (w.owner = s /\ w.name = name)
  BY <1>1, LoseSightIs, NewWindowIs
<1> HIDE DEF wins
<1>3. CASE Has(t, s) /\ "list" \notin bad
  BY <1>3 DEF AddWindow
<1>4. CASE ~(Has(t, s) /\ "list" \notin bad)
  <2>1. AddWindow(t, s, i, bad) = [wins |-> wins, map |-> [t.map EXCEPT ![s] = name]]
    BY <1>4 DEF AddWindow, name, wins
  <2>2. DOMAIN t.map = Sessions
    BY DEF WellFormed
  <2>3. ASSUME NEW w \in wins, ~w.lost
        PROVE  [t.map EXCEPT ![s] = name][w.owner] = w.name
    BY <1>2, <2>2, <2>3, LoseSightOwn
  <2> QED
    BY <2>1, <2>3 DEF OwnName
<1> QED
  BY <1>3, <1>4

NamesApart(wins) == \A v, w \in wins : v.name = w.name => v = w

\* uniqueName: while one of the numbered names of a directory is free and the
\* windows can be listed for it, AddWindow never gives a window the name of
\* another.
THEOREM AddWindowKeepsNamesApart ==
  ASSUME NEW t, WellFormed(t), NamesApart(t.wins), NEW s \in Sessions, NEW i,
         NEW bad, "names" \notin bad,
         \E k \in DOMAIN Numbers : <<DirOf[s], Numbers[k]>> \notin NamesOf(t.wins)
  PROVE  NamesApart(AddWindow(t, s, i, bad).wins)
<1> DEFINE free == {k \in DOMAIN Numbers : <<DirOf[s], Numbers[k]>> \notin NamesOf(t.wins)}
           name == UniqueName(t.wins, s)
           lost == LoseSight(t, s)
           new  == [owner |-> s, inc |-> i, no |-> Min(Slots(lost, s)), name |-> name,
                    lost |-> FALSE]
<1>1. Min(free) \in free
  <2>1. free \subseteq DOMAIN Numbers /\ free # {}
    OBVIOUS
  <2> HIDE DEF free
  <2> QED
    BY <2>1, NumbersCounted, MinIsLeast
<1>2. name \notin NamesOf(t.wins)
  <2>1. name = <<DirOf[s], Numbers[Min(free)]>>
    BY <1>1 DEF UniqueName
  <2> QED
    BY <1>1, <2>1
<1>3. new.name = name
  OBVIOUS
<1>4. \/ AddWindow(t, s, i, bad).wins = t.wins
      \/ AddWindow(t, s, i, bad).wins = lost
      \/ AddWindow(t, s, i, bad).wins = lost \cup {new}
  BY DEF AddWindow, NewWindow
<1>5. NamesApart(lost) /\ NamesOf(lost) = NamesOf(t.wins)
  BY LoseSightIs, LoseSightApart DEF NamesApart
<1> HIDE DEF name, new, lost
<1>6. NamesApart(lost \cup {new})
  BY <1>2, <1>3, <1>5 DEF NamesApart, NamesOf
<1> QED
  BY <1>4, <1>5, <1>6

\* As long as no two windows share a name, tmux finds the one that has it.
LEMMA TargetIsNamed ==
  ASSUME NEW t, ~SharesName(t), NEW n
  PROVE  Target(t.wins, n) = Named(t.wins, n)
<1> DEFINE named == Named(t.wins, n)
<1>1. \A v, w \in named : v = w
  BY DEF SharesName, Named
<1>2. Target(t.wins, n) = IF Cardinality(named) = 1 THEN named ELSE {}
  BY DEF Target
<1> HIDE DEF named
<1>3. CASE named = {}
  BY <1>2, <1>3 DEF named
<1>4. CASE named # {}
  <2>1. PICK w : named = {w}
    BY <1>1, <1>4
  <2>2. Cardinality(named) = 1
    BY <2>1, FS_Singleton
  <2> QED
    BY <1>2, <2>2 DEF named
<1> QED
  BY <1>3, <1>4

LEMMA RenameOwn ==
  ASSUME NEW t, WellFormed(t), Tidy(t), NEW s \in Sessions, NEW name \in Names, NEW bad
  PROVE  OwnName(RenameWindow(t, s, name, bad))
<1> DEFINE old == Named(t.wins, t.map[s])
           new == {[w EXCEPT !.name = name] : w \in old}
           map == [t.map EXCEPT ![s] = name]
<1>1. CASE ~Has(t, s) \/ "list" \in bad
  BY <1>1 DEF RenameWindow, Tidy
<1>2. CASE Has(t, s) /\ "list" \notin bad
  <2>1. Target(t.wins, t.map[s]) = old
    BY TargetIsNamed DEF Tidy
  <2>2. RenameWindow(t, s, name, bad)
          = [wins |-> IF "rename" \in bad THEN LoseSight(t, s) ELSE (t.wins \ old) \cup new,
             map |-> map]
    BY <1>2, <2>1 DEF RenameWindow
  <2>3. /\ \A w \in t.wins : w \in Window /\ w.owner \in Sessions
        /\ DOMAIN t.map = Sessions
    BY DEF WellFormed, Window
  <2>4. ASSUME NEW w \in t.wins \ old, ~w.lost PROVE map[w.owner] = w.name
    BY <2>3, <2>4 DEF Tidy, OwnName, Named
  <2>5. ASSUME NEW w \in new, ~w.lost PROVE map[w.owner] = w.name
    <3>1. PICK u \in old : w = [u EXCEPT !.name = name]
      OBVIOUS
    <3>2. u \in t.wins /\ u \in Window /\ u.name = t.map[s]
      BY <2>3 DEF Named
    <3>3. w.owner = u.owner /\ w.name = name /\ w.lost = u.lost
      BY <3>1, <3>2 DEF Window
    <3>4. t.map[u.owner] = t.map[s]
      BY <2>5, <3>2, <3>3 DEF Tidy, OwnName
    <3>5. t.map[s] # NoName
      BY <3>2, NamesGiven DEF Window
    <3>6. u.owner = s
      BY <2>3, <3>2, <3>4, <3>5 DEF Tidy, SharesName
    <3> QED
      BY <2>3, <3>3, <3>6
  <2>6. ASSUME NEW w \in LoseSight(t, s), ~w.lost PROVE map[w.owner] = w.name
    BY <2>3, <2>6, LoseSightOwn DEF Tidy
  <2> HIDE DEF new, old, map
  <2>7. CASE "rename" \in bad
    BY <2>2, <2>6, <2>7 DEF OwnName
  <2>8. CASE "rename" \notin bad
    BY <2>2, <2>4, <2>5, <2>8 DEF OwnName
  <2> QED
    BY <2>7, <2>8
<1> QED
  BY <1>1, <1>2

LEMMA RemoveOwn ==
  ASSUME NEW t, WellFormed(t), Tidy(t), NEW s \in Sessions, NEW bad
  PROVE  OwnName(RemoveWindow(t, s, bad))
<1> DEFINE map == [t.map EXCEPT ![s] = NoName]
<1>1. CASE t.map[s] = NoName
  BY <1>1 DEF RemoveWindow, Tidy
<1>2. CASE t.map[s] # NoName
  <2>1. RemoveWindow(t, s, bad)
          = [wins |-> IF bad # {} THEN LoseSight(t, s) ELSE t.wins \ Named(t.wins, t.map[s]),
             map  |-> map]
    BY <1>2, TargetIsNamed DEF RemoveWindow, Tidy
  <2>2. /\ \A w \in t.wins : w.owner \in Sessions
        /\ DOMAIN t.map = Sessions
    BY DEF WellFormed, Window
  <2>3. ASSUME NEW w \in t.wins \ Named(t.wins, t.map[s]), ~w.lost
        PROVE  map[w.owner] = w.name
    BY <2>2, <2>3 DEF Tidy, OwnName, Named
  <2>4. ASSUME NEW w \in LoseSight(t, s), ~w.lost PROVE map[w.owner] = w.name
    BY <2>2, <2>4, LoseSightOwn DEF Tidy
  <2> HIDE DEF map
  <2> QED
    BY <2>1, <2>3, <2>4 DEF OwnName
<1> QED
  BY <1>1, <1>2

\* No two sessions of STATUS_FILE have the same window.
SavedApart(map) ==
  \A a, b \in Sessions : a # b /\ map[a] # NoName => map[a] # map[b]

\* A restarted daemon adopts the windows it knew and saved, or loses them.
LEMMA AdoptTidy ==
  ASSUME WellFormed(tm), Tidy(tm), SavedApart(saved), NEW bad
  PROVE  Tidy([wins |-> Orphaned(bad), map |-> Adopted(tm.wins, saved, bad)])
<1> DEFINE f(w) == [w EXCEPT !.lost = @ \/ bad # {} \/ saved[w.owner] # tm.map[w.owner]]
           map  == Adopted(tm.wins, saved, bad)
<1>1. \A w \in tm.wins : /\ f(w).owner = w.owner /\ f(w).name = w.name
                         /\ f(w).lost <=> w.lost \/ bad # {}
                                           \/ saved[w.owner] # tm.map[w.owner]
                         /\ w.owner \in Sessions
  BY DEF WellFormed, Window
<1>2. Orphaned(bad) = {f(w) : w \in tm.wins}
  BY DEF Orphaned
<1>3. \A s \in Sessions : map[s] = saved[s] \/ map[s] = NoName
  BY DEF Adopted
<1>4. ASSUME NEW w \in tm.wins, ~f(w).lost PROVE map[f(w).owner] = f(w).name
  <2>1. tm.map[w.owner] = w.name /\ saved[w.owner] = w.name /\ bad = {}
    BY <1>1, <1>4 DEF Tidy, OwnName
  <2>2. w.name \in NamesOf(tm.wins)
    BY DEF NamesOf
  <2> QED
    BY <1>1, <2>1, <2>2 DEF Adopted
<1>5. \A v, w \in tm.wins : v.name = w.name => v = w
  BY DEF Tidy, SharesName
<1> HIDE DEF f, map
<1>6. \A v, w \in Orphaned(bad) : v # w => v.name # w.name
  BY <1>1, <1>2, <1>5
<1>7. \A a, b \in Sessions : a # b /\ map[a] # NoName => map[a] # map[b]
  BY <1>3 DEF SavedApart
<1>8. \A w \in Orphaned(bad) : ~w.lost => map[w.owner] = w.name
  BY <1>2, <1>4
<1> QED
  BY <1>6, <1>7, <1>8 DEF Tidy, SharesName, OwnName, map

\* A window that closes disturbs nothing.
LEMMA CloseTidy ==
  ASSUME NEW t, WellFormed(t), Tidy(t), NEW w
  PROVE  Tidy([t EXCEPT !.wins = @ \ {w}])
<1> DEFINE new == [t EXCEPT !.wins = @ \ {w}]
<1>1. new.wins = t.wins \ {w} /\ new.map = t.map
  BY DEF WellFormed
<1> HIDE DEF new
<1>2. Tidy(new)
  BY <1>1 DEF Tidy, SharesName, OwnName
<1> QED
  BY <1>2 DEF new


-----------------------------------------------------------------------------
(***************************************************************************)
(* Types.                                                                  *)
(***************************************************************************)
EnvTypes ==
  /\ proc \in [Sessions -> Nat] /\ spawned \in [Sessions -> Nat]
  /\ status \in [Sessions -> [level : Level, active : BOOLEAN]]
  /\ clock \in 0 .. MaxResets

TickTypes ==
  /\ pc \in {"idle", "sync", "schedule", "resume"}
  /\ current \in [Sessions -> Nat] /\ todo \subseteq Sessions
  /\ seen \subseteq Names /\ listOK \in BOOLEAN
  /\ resumes \subseteq [to : Sessions, inc : Nat] /\ focus \subseteq Sessions
  /\ pc = "idle" => todo = {} /\ focus = {} /\ resumes = {}
  /\ pc = "schedule" <=> focus # {}

LimitTypes ==
  /\ known \subseteq Sessions /\ cool \in [Sessions -> 0 .. Cooldown]
  /\ notified \in [Sessions -> {0} \cup Approaching .. Reached]
  /\ pending \in [Sessions -> Entry] /\ disk \in [Sessions -> Entry]

WindowTypes == WellFormed(tm) /\ saved \in [Sessions -> Names \cup {NoName}]

HistTypes == owed \in [Sessions -> Nat] /\ lapsed \subseteq Sessions /\ clash \in BOOLEAN

LEMMA TypeParts ==
  TypeOK <=> EnvTypes /\ TickTypes /\ LimitTypes /\ WindowTypes /\ HistTypes
  BY DEF TypeOK, EnvTypes, TickTypes, LimitTypes, WindowTypes, HistTypes, WellFormed

LEMMA TypePartsNext ==
  TypeOK' <=> EnvTypes' /\ TickTypes' /\ LimitTypes' /\ WindowTypes' /\ HistTypes'
  BY DEF TypeOK, EnvTypes, TickTypes, LimitTypes, WindowTypes, HistTypes, WellFormed

LEMMA Bounds ==
  /\ MaxWins \in Nat /\ Cooldown \in Nat /\ MaxResets \in Nat
  /\ NoEntry \in Entry /\ Nothing \in [Sessions -> Entry]
  /\ Nobody \in [Sessions -> Nat]
<1>1. NoEntry \in Entry
  BY DEF NoEntry, Entry
<1> QED
  BY <1>1, MonitorAssumption DEF MonitorAssumption, Nothing, Nobody

LEMMA TypeInit == Init => TypeOK
<1> SUFFICES ASSUME Init PROVE TypeOK
  OBVIOUS
<1>1. EnvTypes
  BY Bounds DEF Init, EnvTypes, Nobody, NoStatus, Level, Unknown, Reached
<1>2. TickTypes
  BY Bounds DEF Init, TickTypes
<1>3. LimitTypes
  BY Bounds DEF Init, LimitTypes, Nobody
<1>4. WindowTypes
  BY DEF Init, WindowTypes, WellFormed, NoMap
<1>5. HistTypes
  BY Bounds DEF Init, HistTypes
<1> QED
  BY <1>1, <1>2, <1>3, <1>4, <1>5, TypeParts

\* What the scan or a status file tells of a session is of the right type.
LEMMA StatusTyped ==
  ASSUME TypeOK, NEW s \in Sessions
  PROVE  /\ StatusOf(s).level \in Level /\ StatusOf(s).active \in BOOLEAN
         /\ Checked(s) \in {0} \cup Approaching .. Reached
<1>1. status[s].level \in Level /\ status[s].active \in BOOLEAN
  BY DEF TypeOK
<1>2. StatusOf(s).level \in Level /\ StatusOf(s).active \in BOOLEAN
  <2>1. NoStatus.level \in Level
    BY DEF NoStatus, Level, Unknown, Reached
  <2>2. NoStatus.active \in BOOLEAN
    BY DEF NoStatus
  <2> HIDE DEF NoStatus
  <2>3. CASE proc[s] = current[s]
    BY <1>1, <2>3 DEF StatusOf
  <2>4. CASE proc[s] # current[s]
    BY <2>1, <2>2, <2>4 DEF StatusOf
  <2> QED
    BY <2>3, <2>4
<1>3. notified[s] \in {0} \cup Approaching .. Reached
  BY DEF TypeOK
<1>4. Checked(s) \in {0} \cup Approaching .. Reached
  <2>1. \/ Checked(s) = notified[s] \/ Checked(s) = 0
        \/ Rises(s) /\ Checked(s) = StatusOf(s).level
    BY DEF Checked
  <2> QED
    BY <1>3, <2>1 DEF Rises
<1> QED
  BY <1>2, <1>4

LEMMA NamesSeen == TypeOK => NamesOf(tm.wins) \subseteq Names
  BY DEF TypeOK, NamesOf, Window

\* The name WindowStep renames to, if any.
LEMMA WindowStepTyped ==
  ASSUME TypeOK, NEW s \in Sessions, NEW name \in Names \cup {NoName},
         WindowStep(s, name)
  PROVE  /\ WellFormed(tm') /\ cool' \in [Sessions -> 0 .. Cooldown]
         /\ clash' \in BOOLEAN
<1>1. WellFormed(tm) /\ current[s] \in Nat
  BY DEF TypeOK, WellFormed
<1>2. ASSUME NEW t, WellFormed(t), NEW ren PROVE WellFormed(Renamed(t, s, name, ren))
  BY <1>2, RenameTyped DEF Renamed
<1>3. ASSUME NEW ren, NEW add,
             cool' = [cool EXCEPT ![s] = Cooldown],
             tm' = Renamed(AddWindow(tm, s, current[s], add), s, name, ren),
             clash' = (clash \/ SharesName(AddWindow(tm, s, current[s], add)) \/ SharesName(tm'))
      PROVE  /\ WellFormed(tm') /\ cool' \in [Sessions -> 0 .. Cooldown]
             /\ clash' \in BOOLEAN
  <2>1. WellFormed(AddWindow(tm, s, current[s], add))
    BY <1>1, AddTyped, Bounds
  <2>2. WellFormed(tm')
    BY <1>2, <1>3, <2>1
  <2>3. clash' \in BOOLEAN
    BY <1>3
  <2>4. cool' \in [Sessions -> 0 .. Cooldown]
    BY <1>3, Bounds DEF TypeOK
  <2> QED
    BY <2>2, <2>3, <2>4
<1>4. ASSUME NEW ren, Tmux(Renamed(tm, s, name, ren)), UNCHANGED cool
      PROVE  /\ WellFormed(tm') /\ cool' \in [Sessions -> 0 .. Cooldown]
             /\ clash' \in BOOLEAN
  <2>1. WellFormed(tm')
    BY <1>1, <1>2, <1>4 DEF Tmux
  <2>2. clash' \in BOOLEAN
    BY <1>4 DEF Tmux
  <2> QED
    BY <1>4, <2>1, <2>2 DEF TypeOK
<1> QED
  BY <1>3, <1>4 DEF WindowStep


\* What the alternatives of SyncKnown leave alone, and what they share.
LEMMA SyncKnownTyped ==
  ASSUME TypeOK, NEW s \in Sessions, SyncKnown(s)
  PROVE  TypeOK'
<1> USE DEF SyncKnown, At
<1>1. ShortDir(s) \in Names /\ Remark(s, "[warn]") \in Names
  BY NamesGiven
<1>2. /\ WellFormed(tm') /\ cool' \in [Sessions -> 0 .. Cooldown]
      /\ clash' \in BOOLEAN
  <2>1. \E name \in Names \cup {NoName} : WindowStep(s, name)
    BY <1>1 DEF Warned, Interrupted, Reactivated, NoEvent
  <2> QED
    BY <2>1, WindowStepTyped
<1>3. notified' \in [Sessions -> {0} \cup Approaching .. Reached]
  <2> DEFINE v == Checked(s)
  <2>1. v \in {0} \cup Approaching .. Reached /\ 0 \in {0} \cup Approaching .. Reached
    BY StatusTyped
  <2>2. notified \in [Sessions -> {0} \cup Approaching .. Reached]
    BY DEF TypeOK
  <2>3. notified' = [notified EXCEPT ![s] = v] \/ notified' = [notified EXCEPT ![s] = 0]
    BY DEF Warned, Interrupted, Reactivated, NoEvent
  <2> HIDE DEF v
  <2> QED
    BY <2>1, <2>2, <2>3
<1>4. /\ \/ UNCHANGED <<pending, disk>>
         \/ pending' = [pending EXCEPT ![s] = NoEntry] /\ disk' = pending'
      /\ \/ UNCHANGED owed
         \/ owed' = [owed EXCEPT ![s] = 0]
         \/ owed' = [owed EXCEPT ![s] = current[s]]
      /\ UNCHANGED lapsed \/ lapsed' = lapsed \ {s}
  BY DEF Warned, Interrupted, Reactivated, NoEvent, Settled, histVars
<1>5. \/ UNCHANGED <<pc, focus>>
      \/ pc' = "schedule" /\ focus' = {s}
  BY DEF Warned, Interrupted, Reactivated, NoEvent
<1>6. EnvTypes'
  BY DEF TypeOK, EnvTypes, envVars
<1>7. TickTypes'
  BY <1>5 DEF TypeOK, TickTypes
<1>8. LimitTypes'
  <2>1. pending \in [Sessions -> Entry] /\ disk \in [Sessions -> Entry]
    BY DEF TypeOK
  <2>2. pending' \in [Sessions -> Entry] /\ disk' \in [Sessions -> Entry]
    BY <1>4, <2>1, Bounds
  <2> QED
    BY <1>2, <1>3, <2>2 DEF TypeOK, LimitTypes
<1>9. WindowTypes'
  BY <1>2 DEF TypeOK, WindowTypes
<1>10. HistTypes'
  <2>1. owed \in [Sessions -> Nat] /\ current[s] \in Nat
    BY DEF TypeOK
  <2>2. owed' \in [Sessions -> Nat]
    BY <1>4, <2>1
  <2> QED
    BY <1>2, <1>4, <2>2 DEF TypeOK, HistTypes
<1> QED
  BY <1>6, <1>7, <1>8, <1>9, <1>10, TypePartsNext

\* A kill keeps what is on disk and in tmux.
LEMMA RestartTyped ==
  ASSUME TypeOK, Restart
  PROVE  TypeOK'
<1>1. EnvTypes'
  BY DEF Restart, Killed, TypeOK, EnvTypes, envVars
<1>2. TickTypes'
  BY Bounds DEF Restart, Killed, TypeOK, TickTypes
<1>3. LimitTypes'
  <2>1. disk' \in [Sessions -> Entry] /\ pending' = disk'
    BY Bounds DEF Restart, Killed, TypeOK
  <2>2. cool' \in [Sessions -> 0 .. Cooldown]
    BY Bounds DEF Restart, Killed, Nobody
  <2>3. notified' \in [Sessions -> {0} \cup Approaching .. Reached] /\ known' \subseteq Sessions
    BY DEF Restart, Killed, Nobody
  <2> QED
    BY <2>1, <2>2, <2>3 DEF LimitTypes
<1>4. WindowTypes'
  <2>1. PICK bad : tm' = [wins |-> Orphaned(bad), map |-> Adopted(tm.wins, saved, bad)]
    BY DEF Restart
  <2>2. Adopted(tm.wins, saved, bad) \in [Sessions -> Names \cup {NoName}]
    BY DEF TypeOK, Adopted
  <2>3. tm.wins \subseteq Window
    BY DEF TypeOK
  <2>4. Orphaned(bad) \subseteq Window
    BY <2>3 DEF Orphaned, Window
  <2>5. WellFormed(tm')
    BY <2>1, <2>2, <2>4 DEF WellFormed
  <2> QED
    BY <2>5 DEF Restart, Killed, TypeOK, WindowTypes
<1>5. HistTypes'
  <2>1. owed' \in [Sessions -> Nat] /\ clash' \in BOOLEAN
    BY DEF Restart, Killed, TypeOK
  <2>2. lapsed' \subseteq Sessions
    BY DEF Restart, Killed, TypeOK
  <2> QED
    BY <2>1, <2>2 DEF HistTypes
<1> QED
  BY <1>1, <1>2, <1>3, <1>4, <1>5, TypePartsNext

\* What a tick has not yet done, by its place: TypeOK alone is not inductive,
\* as a tick may only end with no session left to look at.
Places ==
  /\ pc # "resume" => resumes = {}
  /\ pc = "resume" => todo = {}

LEMMA TypeStep == TypeOK /\ Places /\ [Next]_vars => TypeOK'
<1> SUFFICES ASSUME TypeOK, Places, [Next]_vars PROVE TypeOK'
  OBVIOUS
<1> USE DEF At, Quiet
<1>1. ASSUME NEW s \in Sessions, Spawn(s) PROVE TypeOK'
  BY <1>1 DEF TypeOK, Spawn, tickVars, limitVars, histVars
<1>2. ASSUME NEW s \in Sessions, Ends(s) PROVE TypeOK'
  <2>1. NoStatus \in [level : Level, active : BOOLEAN]
    BY DEF NoStatus, Level, Unknown, Reached
  <2> HIDE DEF NoStatus
  <2> QED
    BY <1>2, <2>1 DEF TypeOK, Ends, Settled, tickVars, limitVars
<1>3. ASSUME NEW s \in Sessions, StatusWrite(s) PROVE TypeOK'
  <2>1. PICK l \in LevelsOf[s], a \in BOOLEAN :
          status' = [status EXCEPT ![s] = [level |-> l, active |-> a]]
    BY <1>3 DEF StatusWrite
  <2>2. l \in Level
    BY MonitorAssumption DEF MonitorAssumption, Level, Unknown, Reached
  <2>3. [level |-> l, active |-> a] \in [level : Level, active : BOOLEAN]
    BY <2>2
  <2>4. status' \in [Sessions -> [level : Level, active : BOOLEAN]]
    BY <2>1, <2>3 DEF TypeOK
  <2> QED
    BY <1>3, <2>4 DEF TypeOK, StatusWrite, tickVars, limitVars, histVars
<1>4. CASE ResetPasses
  BY <1>4, Bounds DEF TypeOK, ResetPasses, tickVars, limitVars, histVars
<1>5. ASSUME NEW w \in tm.wins, WindowCloses(w) PROVE TypeOK'
  BY <1>5 DEF TypeOK, WindowCloses, envVars, tickVars, limitVars, histVars
<1>6. CASE Scan
  BY <1>6, NamesSeen DEF TypeOK, Scan, envVars, limitVars, histVars
<1>7. ASSUME NEW s \in Sessions, SyncNew(s) PROVE TypeOK'
  <2>1. PICK bad : Tmux(AddWindow(tm, s, current[s], bad))
    BY <1>7 DEF SyncNew
  <2>2. WellFormed(tm) /\ current[s] \in Nat
    BY DEF TypeOK, WellFormed
  <2>3. WellFormed(tm') /\ clash' \in BOOLEAN
    BY <2>1, <2>2, AddTyped, Bounds DEF Tmux
  <2> QED
    BY <1>7, <2>3 DEF TypeOK, SyncNew, envVars, limitVars, histVars, WellFormed
<1>8. ASSUME NEW s \in Sessions, SyncKnown(s) PROVE TypeOK'
  BY <1>8, SyncKnownTyped
<1>9. ASSUME NEW s \in Sessions, Schedule(s) PROVE TypeOK'
  <2>1. WellFormed(tm') /\ clash' \in BOOLEAN
    BY <1>9, NamesGiven, RenameTyped DEF Schedule, RenameTo, Tmux, TypeOK, WellFormed
  <2>2. [at |-> clock + 1, inc |-> current[s]] \in Entry
    BY Bounds DEF TypeOK, Entry
  <2> DEFINE e == [at |-> clock + 1, inc |-> current[s]]
  <2>3. \/ UNCHANGED <<pending, disk>>
        \/ pending' = [pending EXCEPT ![s] = e] /\ disk' = pending'
    BY <1>9 DEF Schedule
  <2>4. owed' \in [Sessions -> Nat] /\ lapsed' \subseteq Sessions
    BY <1>9 DEF Schedule, GivesUp, TypeOK
  <2>5. pending \in [Sessions -> Entry] /\ disk \in [Sessions -> Entry]
    BY DEF TypeOK
  <2> HIDE DEF e
  <2>6. pending' \in [Sessions -> Entry] /\ disk' \in [Sessions -> Entry]
    BY <2>2, <2>3, <2>5 DEF e
  <2> QED
    BY <1>9, <2>1, <2>4, <2>6 DEF TypeOK, Schedule, envVars, WellFormed
<1>10. ASSUME NEW s \in Sessions, Forget(s) PROVE TypeOK'
  <2>1. WellFormed(tm') /\ clash' \in BOOLEAN
    BY <1>10, RemoveTyped DEF Forget, Tmux, TypeOK, WellFormed
  <2>2. pending' \in [Sessions -> Entry] /\ disk' \in [Sessions -> Entry]
    BY <1>10, Bounds DEF Forget, TypeOK
  <2> QED
    BY <1>10, <2>1, <2>2 DEF TypeOK, Forget, envVars, tickVars, histVars, WellFormed
<1>11. CASE TakeDue
  <2>1. pending' \in [Sessions -> Entry] /\ disk' \in [Sessions -> Entry]
    BY <1>11, Bounds DEF TakeDue, TypeOK
  <2>2. resumes' \subseteq [to : Sessions, inc : Nat]
    BY <1>11 DEF TakeDue, TypeOK, Due, Entry
  <2> QED
    BY <1>11, <2>1, <2>2 DEF TypeOK, TakeDue, envVars, histVars
<1>12. ASSUME NEW r \in resumes, Resume(r) PROVE TypeOK'
  <2>1. r.to \in Sessions
    BY DEF TypeOK
  <2>2. WellFormed(tm') /\ clash' \in BOOLEAN
    BY <1>12, <2>1, NamesGiven, RenameTyped DEF Resume, Tmux, TypeOK, WellFormed
  <2>3. owed' \in [Sessions -> Nat] /\ lapsed' \subseteq Sessions
    BY <1>12, <2>1 DEF Resume, Settled, TypeOK, histVars
  <2> QED
    BY <1>12, <2>1, <2>2, <2>3 DEF TypeOK, Resume, envVars, WellFormed
<1>13. CASE EndTick
  <2>1. cool' \in [Sessions -> 0 .. Cooldown]
    <3>1. \A s \in Sessions : cool[s] \in 0 .. Cooldown
      BY DEF TypeOK
    <3>2. \A s \in Sessions : (IF cool[s] = 0 THEN 0 ELSE cool[s] - 1) \in 0 .. Cooldown
      BY <3>1, Bounds
    <3> QED
      BY <1>13, <3>2 DEF EndTick
  <2>2. saved' \in [Sessions -> Names \cup {NoName}]
    BY <1>13 DEF EndTick, TypeOK
  <2>3. /\ seen' = {} /\ known' \subseteq Sessions /\ pc' = "idle"
        /\ resumes' = {} /\ focus' = {} /\ todo' = {}
    BY <1>13 DEF EndTick, TypeOK, Places
  <2>4. listOK' \in BOOLEAN
    BY <1>13 DEF EndTick
  <2> QED
    BY <1>13, <2>1, <2>2, <2>3, <2>4, Bounds DEF TypeOK, EndTick, envVars, histVars
<1>14. CASE Restart
  BY <1>14, RestartTyped
<1>15. CASE UNCHANGED vars
  BY <1>15 DEF TypeOK, vars, envVars, tickVars, limitVars, histVars
<1> QED
  BY <1>1, <1>2, <1>3, <1>4, <1>5, <1>6, <1>7, <1>8, <1>9, <1>10, <1>11, <1>12,
     <1>13, <1>14, <1>15 DEF Next, Tick, Environment


LEMMA PlacesStep == TypeOK /\ Places /\ [Next]_vars => Places'
<1> SUFFICES ASSUME TypeOK, Places, [Next]_vars PROVE Places'
  OBVIOUS
<1> USE DEF At, Places
<1>1. ASSUME NEW s \in Sessions, Spawn(s) \/ Ends(s) \/ StatusWrite(s) PROVE Places'
  BY <1>1 DEF Spawn, Ends, StatusWrite, tickVars
<1>2. CASE ResetPasses
  BY <1>2 DEF ResetPasses, tickVars
<1>3. ASSUME NEW w \in tm.wins, WindowCloses(w) PROVE Places'
  BY <1>3 DEF WindowCloses, tickVars
<1>4. CASE Scan
  BY <1>4 DEF Scan
<1>5. ASSUME NEW s \in Sessions, SyncNew(s) PROVE Places'
  BY <1>5 DEF SyncNew
<1>6. ASSUME NEW s \in Sessions, SyncKnown(s) PROVE Places'
  BY <1>6 DEF SyncKnown, Warned, Interrupted, Reactivated, NoEvent
<1>7. ASSUME NEW s \in Sessions, Schedule(s) PROVE Places'
  BY <1>7 DEF Schedule
<1>8. ASSUME NEW s \in Sessions, Forget(s) PROVE Places'
  BY <1>8 DEF Forget, tickVars
<1>9. CASE TakeDue
  BY <1>9 DEF TakeDue, AllSynced
<1>10. ASSUME NEW r \in resumes, Resume(r) PROVE Places'
  BY <1>10 DEF Resume
<1>11. CASE EndTick
  BY <1>11 DEF EndTick
<1>12. CASE Restart
  BY <1>12 DEF Restart, Killed
<1>13. CASE UNCHANGED vars
  BY <1>13 DEF vars, tickVars
<1> QED
  BY <1>1, <1>2, <1>3, <1>4, <1>5, <1>6, <1>7, <1>8, <1>9, <1>10, <1>11, <1>12,
     <1>13 DEF Next, Tick, Environment

Types == TypeOK /\ Places

LEMMA TypesInvariant == Spec => []Types
<1>1. Init => Types
  BY TypeInit DEF Init, Types, Places
<1>2. Types /\ [Next]_vars => Types'
  BY TypeStep, PlacesStep DEF Types
<1> QED
  BY <1>1, <1>2, PTL DEF Spec

\* The loop's variables have their types, and no work of a tick outlives it
\* (RunLoop), whatever the proxies, the user and tmux do in between.
THEOREM MonitorTypeOK == Spec => []TypeOK
<1>1. Types => TypeOK
  BY DEF Types
<1> QED
  BY <1>1, TypesInvariant, PTL


-----------------------------------------------------------------------------
(***************************************************************************)
(* Limits: what the scheduler, its file and the batch being sent know of   *)
(* the proxies that are owed a message.  OwedIsRecorded needs the daemon's *)
(* view of a tick to be that of the living proxies (Scanned), and an entry *)
(* must not survive to meet a proxy started after it (Spawned), nor twice  *)
(* (Batch); between the interrupt and Schedule the proxy is in focus.      *)
(***************************************************************************)
Recorded == disk = pending

Spawned ==
  \A s \in Sessions : /\ proc[s] <= spawned[s] /\ current[s] <= spawned[s]
                      /\ pending[s].inc <= spawned[s]

Scanned == pc # "idle" => \A s \in Sessions : proc[s] # 0 => current[s] = proc[s]

OwedLives == \A s \in Sessions : owed[s] # 0 => owed[s] = proc[s]

EntryOwed ==
  \A s \in Sessions :
    pending[s] # NoEntry /\ proc[s] = pending[s].inc => owed[s] = proc[s]

Batch ==
  \A r \in resumes :
    /\ pending[r.to] = NoEntry
    /\ proc[r.to] = r.inc => owed[r.to] = r.inc
    /\ \A q \in resumes : q.to = r.to => q = r

Focused ==
  \A s \in focus : /\ proc[s] = current[s] => owed[s] = proc[s]
                   /\ \A a \in focus : a = s

Limits == /\ Recorded /\ Spawned /\ Scanned /\ OwedLives
          /\ EntryOwed /\ Batch /\ Focused /\ OwedIsRecorded

LEMMA LimitsInit == Init => Limits
<1> SUFFICES ASSUME Init PROVE Limits
  OBVIOUS
<1>1. Recorded /\ Spawned /\ Scanned /\ OwedLives
  BY DEF Init, Recorded, Spawned, Scanned, OwedLives, Nobody, Nothing, NoEntry
<1>2. EntryOwed /\ Batch /\ Focused /\ OwedIsRecorded
  BY DEF Init, EntryOwed, Batch, Focused, OwedIsRecorded, Nobody, Nothing
<1> QED
  BY <1>1, <1>2 DEF Limits

\* What Limits speaks of.
limitsVars == <<proc, spawned, current, pending, disk, resumes, focus, owed, lapsed>>

LEMMA LimitsKept ==
  ASSUME Limits, UNCHANGED limitsVars, pc' # "idle" => pc # "idle"
  PROVE  Limits'
  BY DEF Limits, limitsVars, Recorded, Spawned, Scanned, OwedLives, EntryOwed, Batch,
         Focused, OwedIsRecorded

\* What is owed to one session is settled: its proxy is resumed, or ended, or
\* is active again.
LEMMA SpawnLimits ==
  ASSUME Types, Limits, NEW s \in Sessions, Spawn(s)
  PROVE  Limits'
<1> USE DEF Spawn, tickVars, limitVars, histVars
<1>1. /\ resumes = {} /\ focus = {} /\ pc = "idle" /\ spawned[s] \in Nat /\ proc[s] = 0
      /\ UNCHANGED <<pc, current, pending, disk, resumes, focus, owed, lapsed>>
      /\ proc' = [proc EXCEPT ![s] = spawned[s] + 1]
      /\ spawned' = [spawned EXCEPT ![s] = spawned[s] + 1]
  BY DEF Types, TypeOK
<1>2. owed[s] = 0
  BY <1>1 DEF Limits, OwedLives
<1>3. /\ \A a \in Sessions : a # s => proc'[a] = proc[a] /\ spawned'[a] = spawned[a]
      /\ proc'[s] = spawned[s] + 1 /\ spawned'[s] = spawned[s] + 1
  BY <1>1 DEF Types, TypeOK
<1>4. \A a \in Sessions : /\ proc[a] \in Nat /\ current[a] \in Nat /\ spawned[a] \in Nat
                          /\ pending[a].inc \in Nat
  BY DEF Types, TypeOK, Entry
<1>5. Recorded' /\ Scanned' /\ Batch' /\ Focused' /\ OwedIsRecorded'
  BY <1>1 DEF Limits, Recorded, Scanned, Batch, Focused, OwedIsRecorded
<1>6. Spawned'
  BY <1>1, <1>3, <1>4 DEF Limits, Spawned
<1>7. OwedLives'
  BY <1>1, <1>2, <1>3 DEF Limits, OwedLives
<1>8. EntryOwed'
  BY <1>1, <1>3, <1>4 DEF Limits, EntryOwed, Spawned
<1> QED
  BY <1>5, <1>6, <1>7, <1>8 DEF Limits

LEMMA EndsLimits ==
  ASSUME Types, Limits, NEW s \in Sessions, Ends(s)
  PROVE  Limits'
<1> USE DEF Ends, Settled, tickVars, limitVars
<1>1. /\ UNCHANGED <<pc, current, pending, disk, resumes, focus, spawned>>
      /\ proc' = [proc EXCEPT ![s] = 0] /\ owed' = [owed EXCEPT ![s] = 0]
      /\ lapsed' = lapsed \ {s}
  OBVIOUS
<1>2. /\ \A a \in Sessions : a # s => proc'[a] = proc[a] /\ owed'[a] = owed[a]
      /\ proc'[s] = 0 /\ owed'[s] = 0
  BY <1>1 DEF Types, TypeOK
<1>3. \A a \in Sessions : spawned[a] \in Nat
  BY DEF Types, TypeOK
<1>4. Recorded' /\ Scanned' /\ OwedLives' /\ EntryOwed' /\ OwedIsRecorded'
  BY <1>1, <1>2 DEF Limits, Recorded, Scanned, OwedLives, EntryOwed, OwedIsRecorded
<1>5. Spawned'
  BY <1>1, <1>2, <1>3 DEF Limits, Spawned
<1>6. Batch' /\ Focused'
  BY <1>1, <1>2 DEF Limits, Batch, Focused, Types, TypeOK
<1> QED
  BY <1>4, <1>5, <1>6 DEF Limits

LEMMA ScanLimits ==
  ASSUME Types, Limits, Scan
  PROVE  Limits'
<1>1. /\ UNCHANGED <<proc, spawned, pending, disk, resumes, focus, owed, lapsed>>
      /\ current' = proc /\ focus = {}
  BY DEF Scan, At, envVars, limitVars, histVars, Types, TypeOK
<1> QED
  BY <1>1 DEF Limits, Recorded, Spawned, Scanned, OwedLives, EntryOwed, Batch,
              Focused, OwedIsRecorded

\* SyncKnown only touches what is owed when it takes the entry out, and when it
\* interrupts a proxy.
LEMMA InterruptedLimits ==
  ASSUME Types, Limits, NEW s \in Sessions, SyncKnown(s), Interrupted(s)
  PROVE  Limits'
<1>1. /\ UNCHANGED <<proc, spawned, current, resumes, pending, disk>> /\ pc = "sync"
      /\ resumes = {} /\ focus = {} /\ focus' = {s} /\ pc' = "schedule"
      /\ owed' = [owed EXCEPT ![s] = current[s]] /\ lapsed' = lapsed \ {s}
  BY DEF SyncKnown, Interrupted, At, envVars, Types, Places, TypeOK
<1>2. proc[s] = current[s]
  BY DEF Interrupted, StatusOf, NoStatus
<1>3. /\ \A a \in Sessions : a # s => owed'[a] = owed[a]
      /\ owed'[s] = proc[s]
  BY <1>1, <1>2 DEF Types, TypeOK
<1>4. Recorded' /\ Spawned' /\ Scanned'
  BY <1>1 DEF Limits, Recorded, Spawned, Scanned
<1>5. OwedLives' /\ EntryOwed' /\ Batch' /\ Focused'
  BY <1>1, <1>3 DEF Limits, OwedLives, EntryOwed, Batch, Focused
<1>6. OwedIsRecorded'
  BY <1>1, <1>3 DEF Limits, OwedIsRecorded
<1> QED
  BY <1>4, <1>5, <1>6 DEF Limits

LEMMA SyncKnownLimits ==
  ASSUME Types, Limits, NEW s \in Sessions, SyncKnown(s)
  PROVE  Limits'
<1> USE DEF SyncKnown, At, envVars
<1>1. CASE Warned(s) \/ NoEvent(s)
  <2>1. UNCHANGED limitsVars /\ pc' = pc
    BY <1>1 DEF Warned, NoEvent, limitsVars, histVars
  <2> QED
    BY <2>1, LimitsKept
<1>2. CASE Reactivated(s)
  <2>1. /\ UNCHANGED <<proc, spawned, current, resumes, focus, pc>> /\ pc = "sync"
        /\ resumes = {} /\ focus = {} /\ disk' = pending'
        /\ pending' = [pending EXCEPT ![s] = NoEntry]
        /\ owed' = [owed EXCEPT ![s] = 0] /\ lapsed' = lapsed \ {s}
    BY <1>2 DEF Reactivated, Settled, Types, Places, TypeOK
  <2>2. /\ \A a \in Sessions : a # s => pending'[a] = pending[a] /\ owed'[a] = owed[a]
        /\ pending'[s] = NoEntry /\ owed'[s] = 0
    BY <2>1 DEF Types, TypeOK
  <2>3. NoEntry.inc = 0 /\ \A a \in Sessions : spawned[a] \in Nat
    BY DEF Types, TypeOK, NoEntry
  <2>4. Recorded' /\ Scanned' /\ OwedLives' /\ EntryOwed' /\ Batch' /\ Focused'
    BY <2>1, <2>2 DEF Limits, Recorded, Scanned, OwedLives, EntryOwed, Batch, Focused
  <2>5. Spawned'
    BY <2>1, <2>2, <2>3 DEF Limits, Spawned
  <2>6. OwedIsRecorded'
    BY <2>1, <2>2 DEF Limits, Recorded, OwedIsRecorded
  <2> QED
    BY <2>4, <2>5, <2>6 DEF Limits
<1> QED
  BY <1>1, <1>2, InterruptedLimits

LEMMA ScheduleLimits ==
  ASSUME Types, Limits, NEW s \in Sessions, Schedule(s)
  PROVE  Limits'
<1> DEFINE e == [at |-> clock + 1, inc |-> current[s]]
<1>1. /\ UNCHANGED <<proc, spawned, current, resumes, owed>> /\ resumes = {}
      /\ pc = "schedule" /\ pc' = "sync" /\ focus' = {} /\ s \in focus
  BY DEF Schedule, At, envVars, Types, Places
<1>2. \A a \in focus : a = s
  BY <1>1 DEF Limits, Focused
<1>3. CASE GivesUp(s) /\ UNCHANGED <<pending, disk>>
  <2>1. /\ Recorded' /\ Spawned' /\ Scanned' /\ OwedLives' /\ EntryOwed'
        /\ Batch' /\ Focused'
    BY <1>1, <1>3 DEF Limits, Recorded, Spawned, Scanned, OwedLives, EntryOwed, Batch,
                      Focused
  <2>2. OwedIsRecorded'
    BY <1>1, <1>2, <1>3 DEF Limits, Recorded, GivesUp, OwedIsRecorded
  <2> QED
    BY <2>1, <2>2 DEF Limits
<1>4. CASE pending' = [pending EXCEPT ![s] = e] /\ disk' = pending' /\ UNCHANGED lapsed
  <2>1. e # NoEntry /\ e.inc = current[s]
    BY Bounds DEF NoEntry, Types, TypeOK
  <2>2. /\ \A a \in Sessions : a # s => pending'[a] = pending[a]
        /\ pending'[s] = e
    BY <1>4 DEF Types, TypeOK
  <2> HIDE DEF e
  <2>3. Recorded' /\ Scanned' /\ Batch' /\ OwedLives' /\ Focused'
    BY <1>1, <1>4 DEF Limits, Recorded, Scanned, Batch, OwedLives, Focused
  <2>4. Spawned'
    BY <1>1, <2>1, <2>2 DEF Limits, Spawned
  <2>5. EntryOwed'
    BY <1>1, <2>1, <2>2 DEF Limits, EntryOwed, Focused
  <2>6. OwedIsRecorded'
    <3>1. owed[s] # 0 => owed[s] = current[s]
      BY <1>1 DEF Limits, OwedLives, Scanned
    <3> QED
      BY <1>1, <1>2, <1>4, <2>1, <2>2, <3>1 DEF Limits, Recorded, OwedIsRecorded
  <2> QED
    BY <2>3, <2>4, <2>5, <2>6 DEF Limits
<1> QED
  BY <1>3, <1>4 DEF Schedule

\* A session that is gone has no proxy that could be owed anything.
LEMMA ForgetLimits ==
  ASSUME Types, Limits, NEW s \in Sessions, Forget(s)
  PROVE  Limits'
<1>1. /\ UNCHANGED <<proc, spawned, current, resumes, focus, owed, lapsed, pc>>
      /\ resumes = {} /\ focus = {} /\ current[s] = 0 /\ pc = "sync"
      /\ pending' = [pending EXCEPT ![s] = NoEntry]
      /\ disk' = IF pending[s] = NoEntry THEN disk ELSE pending'
  BY DEF Forget, At, envVars, tickVars, histVars, Types, Places, TypeOK
<1>2. proc[s] = 0 /\ owed[s] = 0
  BY <1>1 DEF Limits, Scanned, OwedLives
<1>3. /\ \A a \in Sessions : a # s => pending'[a] = pending[a]
      /\ pending'[s] = NoEntry
  BY <1>1 DEF Types, TypeOK
<1>4. NoEntry.inc = 0 /\ \A a \in Sessions : spawned[a] \in Nat
  BY DEF Types, TypeOK, NoEntry
<1>5. Recorded'
  BY <1>1 DEF Limits, Recorded, Types, TypeOK
<1>6. Scanned' /\ OwedLives' /\ EntryOwed' /\ Batch' /\ Focused'
  BY <1>1, <1>3 DEF Limits, Scanned, OwedLives, EntryOwed, Batch, Focused
<1>7. Spawned'
  BY <1>1, <1>3, <1>4 DEF Limits, Spawned
<1>8. OwedIsRecorded'
  BY <1>1, <1>2, <1>3, <1>5 DEF Limits, Recorded, OwedIsRecorded
<1> QED
  BY <1>5, <1>6, <1>7, <1>8 DEF Limits

\* Due moves what is due from the scheduler to the batch, and saves.
LEMMA TakeDueLimits ==
  ASSUME Types, Limits, TakeDue
  PROVE  Limits'
<1>1. /\ UNCHANGED <<proc, spawned, current, focus, owed, lapsed>> /\ pc = "sync"
      /\ resumes' = {[to |-> s, inc |-> pending[s].inc] : s \in Due}
      /\ pending' = [s \in Sessions |-> IF s \in Due THEN NoEntry ELSE pending[s]]
      /\ disk' = IF Due = {} THEN disk ELSE pending'
      /\ resumes = {} /\ focus = {}
  BY DEF TakeDue, At, envVars, histVars, Types, Places, TypeOK
<1>2. \A s \in Sessions : pending'[s] = IF s \in Due THEN NoEntry ELSE pending[s]
  BY <1>1
<1>3. \A s \in Sessions : s \in Due => pending[s] # NoEntry
  BY DEF Due, IsDue
<1>4. NoEntry.inc = 0 /\ \A a \in Sessions : spawned[a] \in Nat
  BY DEF Types, TypeOK, NoEntry
<1>5. Due \subseteq Sessions
  BY DEF Due
<1> HIDE DEF Due
<1>6. Recorded'
  BY <1>1 DEF Limits, Recorded, Types, TypeOK
<1>7. Spawned' /\ Scanned' /\ OwedLives' /\ EntryOwed' /\ Focused'
  BY <1>1, <1>2, <1>4 DEF Limits, Spawned, Scanned, OwedLives, EntryOwed, Focused
<1>8. Batch'
  <2> SUFFICES ASSUME NEW r \in resumes'
               PROVE  /\ pending'[r.to] = NoEntry
                      /\ proc'[r.to] = r.inc => owed'[r.to] = r.inc
                      /\ \A q \in resumes' : q.to = r.to => q = r
    BY DEF Batch
  <2>1. PICK s \in Due : r = [to |-> s, inc |-> pending[s].inc]
    BY <1>1
  <2>2. pending'[r.to] = NoEntry
    BY <1>2, <1>5, <2>1
  <2>3. proc'[r.to] = r.inc => owed'[r.to] = r.inc
    BY <1>1, <1>3, <1>5, <2>1 DEF Limits, EntryOwed
  <2>4. \A q \in resumes' : q.to = r.to => q = r
    BY <1>1, <2>1
  <2> QED
    BY <2>2, <2>3, <2>4
<1>9. OwedIsRecorded'
  <2> SUFFICES ASSUME NEW s \in Sessions, owed'[s] # 0, s \notin lapsed'
               PROVE  \/ pending'[s].inc = owed'[s] /\ disk'[s] = pending'[s]
                      \/ [to |-> s, inc |-> owed'[s]] \in resumes'
    BY DEF OwedIsRecorded
  <2>1. pending[s].inc = owed[s]
    BY <1>1 DEF Limits, OwedIsRecorded
  <2>2. CASE s \in Due
    BY <1>1, <2>1, <2>2
  <2>3. CASE s \notin Due
    BY <1>1, <1>2, <1>6, <2>1, <2>3 DEF Recorded
  <2> QED
    BY <2>2, <2>3
<1> QED
  BY <1>6, <1>7, <1>8, <1>9 DEF Limits

LEMMA ResumeLimits ==
  ASSUME Types, Limits, NEW r \in resumes, Resume(r)
  PROVE  Limits'
<1>1. /\ UNCHANGED <<proc, spawned, current, pending, disk, focus, pc>> /\ focus = {}
      /\ resumes' = resumes \ {r} /\ r.to \in Sessions
      /\ \/ /\ proc[r.to] = r.inc /\ owed' = [owed EXCEPT ![r.to] = 0]
            /\ lapsed' = lapsed \ {r.to}
         \/ proc[r.to] = r.inc /\ owed' = owed /\ lapsed' = lapsed \cup {r.to}
         \/ proc[r.to] # r.inc /\ owed' = owed /\ lapsed' = lapsed
  BY DEF Resume, Settled, At, envVars, histVars, Types, TypeOK
<1>2. pending[r.to] = NoEntry /\ \A q \in resumes' : q.to # r.to
  BY <1>1 DEF Limits, Batch
<1> DEFINE at == r.to
<1>3. /\ \A a \in Sessions \ {at} : owed'[a] = owed[a] /\ (a \in lapsed' <=> a \in lapsed)
      /\ \/ owed'[at] = 0
         \/ owed'[at] = owed[at] /\ at \in lapsed'
         \/ owed'[at] = owed[at] /\ proc[at] # r.inc /\ lapsed' = lapsed
  <2>1. owed \in [Sessions -> Nat] /\ at \in Sessions
    BY <1>1 DEF Types, TypeOK
  <2> HIDE DEF at
  <2>2. \/ /\ proc[at] = r.inc /\ owed' = [owed EXCEPT ![at] = 0]
           /\ lapsed' = lapsed \ {at}
        \/ proc[at] = r.inc /\ owed' = owed /\ lapsed' = lapsed \cup {at}
        \/ proc[at] # r.inc /\ owed' = owed /\ lapsed' = lapsed
    BY <1>1 DEF at
  <2> QED
    BY <2>1, <2>2
<1>4. \A q \in resumes' : q \in resumes /\ q.to \in Sessions
  BY <1>1 DEF Types, TypeOK
<1>5. Recorded' /\ Spawned' /\ Scanned' /\ OwedLives' /\ EntryOwed' /\ Focused'
  BY <1>1, <1>2, <1>3 DEF Limits, Recorded, Spawned, Scanned, OwedLives, EntryOwed, Focused
<1>6. Batch'
  BY <1>1, <1>2, <1>3, <1>4 DEF Limits, Batch
<1>7. OwedIsRecorded'
  <2> SUFFICES ASSUME NEW s \in Sessions, owed'[s] # 0, s \notin lapsed'
               PROVE  \/ pending'[s].inc = owed'[s] /\ disk'[s] = pending'[s]
                      \/ [to |-> s, inc |-> owed'[s]] \in resumes'
    BY DEF OwedIsRecorded
  <2>1. owed'[s] = owed[s] /\ s \notin lapsed
    BY <1>3
  <2>2. [to |-> s, inc |-> owed[s]] # r
    BY <1>3, <2>1 DEF Limits, OwedLives
  <2> QED
    BY <1>1, <2>1, <2>2 DEF Limits, OwedIsRecorded
<1> QED
  BY <1>5, <1>6, <1>7 DEF Limits

\* A kill leaves the entries that reached the file; what it destroyed in it,
\* was about to schedule or had taken for sending is given up.
LEMMA RestartLimits ==
  ASSUME Types, Limits, Restart
  PROVE  Limits'
<1>1. /\ UNCHANGED <<proc, spawned, owed>> /\ pending' = disk' /\ current' = Nobody
      /\ resumes' = {} /\ focus' = {} /\ pc' = "idle"
  BY DEF Restart, Killed, envVars
<1>2. Nobody \in [Sessions -> Nat] /\ \A s \in Sessions : Nobody[s] = 0
  BY DEF Nobody
<1>3. \A s \in Sessions : proc[s] \in Nat /\ spawned[s] \in Nat
  BY DEF Types, TypeOK
<1> HIDE DEF Nobody
<1>4. Recorded' /\ Scanned' /\ Batch' /\ Focused'
  BY <1>1 DEF Recorded, Scanned, Batch, Focused
<1>5. CASE disk' = Nothing /\ lapsed' = {s \in Sessions : owed[s] # 0}
  <2>1. \A s \in Sessions : /\ pending'[s] = NoEntry /\ pending'[s].inc = 0
                            /\ current'[s] = 0
    BY <1>1, <1>2, <1>5 DEF Nothing, NoEntry
  <2>2. Spawned' /\ OwedLives' /\ EntryOwed' /\ OwedIsRecorded'
    BY <1>1, <1>3, <1>5, <2>1 DEF Limits, Spawned, OwedLives, EntryOwed, OwedIsRecorded
  <2> QED
    BY <1>4, <2>2 DEF Limits
<1>6. CASE /\ UNCHANGED disk
           /\ lapsed' = lapsed \cup {s \in focus : disk[s].inc # owed[s]}
                               \cup {r.to : r \in resumes}
  <2>1. pending' = pending /\ disk' = pending
    BY <1>1, <1>6 DEF Limits, Recorded
  <2>2. Spawned'
    BY <1>1, <1>2, <1>3, <2>1 DEF Limits, Spawned
  <2>3. OwedLives' /\ EntryOwed'
    BY <1>1, <2>1 DEF Limits, OwedLives, EntryOwed
  <2>4. OwedIsRecorded'
    <3> SUFFICES ASSUME NEW s \in Sessions, owed[s] # 0, s \notin lapsed'
                 PROVE  pending'[s].inc = owed[s] /\ disk'[s] = pending'[s]
      BY <1>1 DEF OwedIsRecorded
    <3>1. CASE s \in focus
      BY <1>6, <2>1, <3>1 DEF Limits, Recorded
    <3>2. CASE [to |-> s, inc |-> owed[s]] \in resumes
      <4>1. [to |-> s, inc |-> owed[s]].to = s
        OBVIOUS
      <4> QED
        BY <1>6, <3>2, <4>1
    <3> QED
      BY <1>6, <2>1, <3>1, <3>2 DEF Limits, OwedIsRecorded
  <2> QED
    BY <1>4, <2>2, <2>3, <2>4 DEF Limits
<1> QED
  BY <1>5, <1>6 DEF Restart, Killed


LEMMA LimitsStep == Types /\ Limits /\ [Next]_vars => Limits'
<1> SUFFICES ASSUME Types, Limits, [Next]_vars PROVE Limits'
  OBVIOUS
<1>1. ASSUME NEW s \in Sessions, Spawn(s) PROVE Limits'
  BY <1>1, SpawnLimits
<1>2. ASSUME NEW s \in Sessions, Ends(s) PROVE Limits'
  BY <1>2, EndsLimits
<1>3. ASSUME NEW s \in Sessions, StatusWrite(s) PROVE Limits'
  BY <1>3, LimitsKept DEF StatusWrite, limitsVars, tickVars, limitVars, histVars
<1>4. CASE ResetPasses
  BY <1>4, LimitsKept DEF ResetPasses, limitsVars, tickVars, limitVars, histVars
<1>5. ASSUME NEW w \in tm.wins, WindowCloses(w) PROVE Limits'
  BY <1>5, LimitsKept DEF WindowCloses, limitsVars, envVars, tickVars, limitVars, histVars
<1>6. CASE Scan
  BY <1>6, ScanLimits
<1>7. ASSUME NEW s \in Sessions, SyncNew(s) PROVE Limits'
  BY <1>7, LimitsKept DEF SyncNew, limitsVars, envVars, limitVars, histVars
<1>8. ASSUME NEW s \in Sessions, SyncKnown(s) PROVE Limits'
  BY <1>8, SyncKnownLimits
<1>9. ASSUME NEW s \in Sessions, Schedule(s) PROVE Limits'
  BY <1>9, ScheduleLimits
<1>10. ASSUME NEW s \in Sessions, Forget(s) PROVE Limits'
  BY <1>10, ForgetLimits
<1>11. CASE TakeDue
  BY <1>11, TakeDueLimits
<1>12. ASSUME NEW r \in resumes, Resume(r) PROVE Limits'
  BY <1>12, ResumeLimits
<1>13. CASE EndTick
  <2>1. /\ UNCHANGED <<proc, spawned, pending, disk, resumes, focus, owed, lapsed>>
        /\ current' = Nobody /\ pc' = "idle" /\ focus = {}
    BY <1>13 DEF EndTick, At, envVars, histVars, Types, TypeOK
  <2>2. \A s \in Sessions : Nobody[s] = 0 /\ spawned[s] \in Nat
    BY DEF Nobody, Types, TypeOK
  <2> HIDE DEF Nobody
  <2>3. Spawned' /\ Scanned'
    BY <2>1, <2>2 DEF Limits, Spawned, Scanned
  <2> QED
    BY <2>1, <2>3 DEF Limits, Recorded, OwedLives, EntryOwed, Batch, Focused, OwedIsRecorded
<1>14. CASE Restart
  BY <1>14, RestartLimits
<1>15. CASE UNCHANGED vars
  BY <1>15, LimitsKept DEF vars, limitsVars, envVars, tickVars, limitVars, histVars
<1> QED
  BY <1>1, <1>2, <1>3, <1>4, <1>5, <1>6, <1>7, <1>8, <1>9, <1>10, <1>11, <1>12,
     <1>13, <1>14, <1>15 DEF Next, Tick, Environment

LEMMA LimitsInvariant == Spec => [](Types /\ Limits)
<1>1. Init => Types /\ Limits
  BY TypeInit, LimitsInit DEF Init, Types, Places
<1>2. Types /\ Limits /\ [Next]_vars => (Types /\ Limits)'
  BY TypeStep, PlacesStep, LimitsStep DEF Types
<1> QED
  BY <1>1, <1>2, PTL DEF Spec

\* A proxy that was told to pause and that nobody has resumed is being scheduled,
\* in the scheduler and in its file, or in the batch being sent (handleLimitEvent,
\* resume.go), whatever the order of scans, resets and restarts, unless it is
\* one the code gives up: no reset time, a resume message that failed, or a kill
\* before its entry was saved, inside a save, or before its message was sent.
THEOREM OwedStaysRecorded == Spec => []OwedIsRecorded
<1>1. Types /\ Limits => OwedIsRecorded
  BY DEF Limits
<1> QED
  BY <1>1, LimitsInvariant, PTL

\* resumeSessions sends its message once for each time a proxy was paused, and
\* never to a proxy that came after it.
THEOREM ResumeOnlyOwed == Spec => ResumeIsOwed
<1> DEFINE A == msg'.kind = "resume" => owed[msg'.to] = msg'.inc
<1>1. Types /\ Limits /\ [Next]_vars => [A]_vars
  <2> SUFFICES ASSUME Types, Limits, Next PROVE A
    OBVIOUS
  <2>1. CASE \E r \in resumes : Resume(r)
    <3>1. PICK r \in resumes : Resume(r)
      BY <2>1
    <3>2. \/ proc[r.to] = r.inc /\ msg' = [kind |-> "resume", to |-> r.to, inc |-> r.inc]
          \/ msg' = [kind |-> "none"]
      BY <3>1 DEF Resume, Quiet
    <3> QED
      BY <3>2 DEF Limits, Batch
  <2>2. CASE \E s \in Sessions : SyncKnown(s)
    <3>1. PICK s \in Sessions : SyncKnown(s)
      BY <2>2
    <3>2. \/ msg' = [kind |-> "none"]
          \/ msg' = [kind |-> "interrupt", to |-> s, inc |-> current[s], level |-> Checked(s)]
      BY <3>1 DEF SyncKnown, Warned, Interrupted, Reactivated, NoEvent, Quiet
    <3> QED
      BY <3>2
  <2>3. CASE ~(\E r \in resumes : Resume(r)) /\ ~(\E s \in Sessions : SyncKnown(s))
    <3>1. msg' = [kind |-> "none"]
      BY <2>3 DEF Next, Tick, Environment, Scan, TakeDue, EndTick, SyncNew, Schedule,
                  Forget, Spawn, Ends, StatusWrite, WindowCloses, ResetPasses, Restart,
                  Killed, Quiet
    <3> QED
      BY <3>1
  <2> QED
    BY <2>1, <2>2, <2>3
<1> QED
  BY <1>1, LimitsInvariant, PTL DEF Spec, ResumeIsOwed

-----------------------------------------------------------------------------
(***************************************************************************)
(* Windows.                                                                *)
(***************************************************************************)
Windows == ~clash => Tidy(tm) /\ SavedApart(saved)

\* A call of the manager that shares no name leaves its windows tidy.
LEMMA TmuxTidy ==
  ASSUME NEW t, Tmux(t), UNCHANGED saved, Windows,
         Tidy(tm) => OwnName(t)
  PROVE  Windows'
  BY DEF Tmux, Windows, Tidy

LEMMA RenamedOwn ==
  ASSUME NEW t, WellFormed(t), Tidy(t), NEW s \in Sessions,
         NEW name \in Names \cup {NoName}, NEW ren
  PROVE  OwnName(Renamed(t, s, name, ren))
<1>1. CASE name = NoName
  BY <1>1 DEF Tidy, Renamed
<1>2. CASE name # NoName
  BY <1>2, RenameOwn DEF Renamed
<1> QED
  BY <1>1, <1>2

LEMMA WindowStepTidy ==
  ASSUME Types, Windows, NEW s \in Sessions, NEW name \in Names \cup {NoName},
         WindowStep(s, name), UNCHANGED saved
  PROVE  Windows'
<1>1. WellFormed(tm) /\ current[s] \in Nat
  BY DEF Types, TypeOK, WellFormed
<1>2. ASSUME NEW ren, NEW add,
             tm' = Renamed(AddWindow(tm, s, current[s], add), s, name, ren),
             clash' = (clash \/ SharesName(AddWindow(tm, s, current[s], add)) \/ SharesName(tm'))
      PROVE  Windows'
  <2> DEFINE added == AddWindow(tm, s, current[s], add)
  <2>1. WellFormed(added)
    BY <1>1, AddTyped, Bounds
  <2>2. ~clash => OwnName(added)
    BY <1>1, AddOwn, Bounds DEF Windows, Tidy
  <2>3. ~clash' => ~clash /\ ~SharesName(added) /\ ~SharesName(tm') /\ SavedApart(saved)
    BY <1>2 DEF Windows
  <2>4. tm' = Renamed(added, s, name, ren)
    BY <1>2
  <2> HIDE DEF added
  <2>5. ~clash' => OwnName(tm')
    BY <2>1, <2>2, <2>3, <2>4, RenamedOwn DEF Tidy
  <2> QED
    BY <2>3, <2>5 DEF Windows, Tidy
<1>3. ASSUME NEW ren, Tmux(Renamed(tm, s, name, ren))
      PROVE  Windows'
  <2>1. Tidy(tm) => OwnName(Renamed(tm, s, name, ren))
    BY <1>1, RenamedOwn
  <2> QED
    BY <1>3, <2>1, TmuxTidy
<1> QED
  BY <1>2, <1>3 DEF WindowStep

LEMMA WindowsStep == Types /\ Windows /\ [Next]_vars => Windows'
<1> SUFFICES ASSUME Types, Windows, [Next]_vars PROVE Windows'
  OBVIOUS
<1>1. WellFormed(tm)
  BY DEF Types, TypeOK, WellFormed
<1>2. CASE UNCHANGED <<tm, clash, saved>>
  BY <1>2 DEF Windows, Tidy, OwnName, SharesName
<1>3. ASSUME NEW w \in tm.wins, WindowCloses(w) PROVE Windows'
  BY <1>1, <1>3, CloseTidy DEF WindowCloses, Windows
<1>4. ASSUME NEW s \in Sessions, SyncNew(s) PROVE Windows'
  <2>1. PICK bad : Tmux(AddWindow(tm, s, current[s], bad)) /\ UNCHANGED saved
    BY <1>4 DEF SyncNew
  <2>2. current[s] \in Nat
    BY DEF Types, TypeOK
  <2>3. Tidy(tm) => OwnName(AddWindow(tm, s, current[s], bad))
    BY <1>1, <2>2, AddOwn, Bounds DEF Tidy
  <2> QED
    BY <2>1, <2>3, TmuxTidy
<1>5. ASSUME NEW s \in Sessions, SyncKnown(s) PROVE Windows'
  <2>1. ShortDir(s) \in Names /\ Remark(s, "[warn]") \in Names
    BY NamesGiven
  <2>2. \E name \in Names \cup {NoName} : WindowStep(s, name) /\ UNCHANGED saved
    BY <1>5, <2>1 DEF SyncKnown, Warned, Interrupted, Reactivated, NoEvent
  <2> QED
    BY <2>2, WindowStepTidy
<1>6. ASSUME NEW s \in Sessions, Schedule(s) PROVE Windows'
  <2>1. PICK bad : Tmux(RenameWindow(tm, s, Remark(s, "[PAUSED]"), bad)) /\ UNCHANGED saved
    BY <1>6 DEF Schedule, RenameTo
  <2> QED
    BY <1>1, <2>1, NamesGiven, RenameOwn, TmuxTidy
<1>7. ASSUME NEW s \in Sessions, Forget(s) PROVE Windows'
  <2>1. PICK bad : Tmux(RemoveWindow(tm, s, bad)) /\ UNCHANGED saved
    BY <1>7 DEF Forget
  <2> QED
    BY <1>1, <2>1, RemoveOwn, TmuxTidy
<1>8. ASSUME NEW r \in resumes, Resume(r) PROVE Windows'
  <2>1. r.to \in Sessions
    BY DEF Types, TypeOK
  <2>2. PICK ren : /\ UNCHANGED saved
                   /\ Tmux(IF current[r.to] # 0
                           THEN RenameWindow(tm, r.to, ShortDir(r.to), ren) ELSE tm)
    BY <1>8 DEF Resume
  <2> DEFINE t == IF current[r.to] # 0 THEN RenameWindow(tm, r.to, ShortDir(r.to), ren) ELSE tm
  <2>3. Tidy(tm) => OwnName(t)
    BY <1>1, <2>1, NamesGiven, RenameOwn DEF Tidy
  <2>4. Tmux(t)
    BY <2>2
  <2> HIDE DEF t
  <2> QED
    BY <2>2, <2>3, <2>4, TmuxTidy
<1>9. CASE Restart
  <2>1. PICK bad : tm' = [wins |-> Orphaned(bad), map |-> Adopted(tm.wins, saved, bad)]
    BY <1>9 DEF Restart
  <2>2. UNCHANGED <<clash, saved>>
    BY <1>9 DEF Restart, Killed
  <2> QED
    BY <1>1, <2>1, <2>2, AdoptTidy DEF Windows
<1>10. CASE \E s \in Sessions : Spawn(s) \/ Ends(s) \/ StatusWrite(s)
  BY <1>2, <1>10 DEF Spawn, Ends, StatusWrite
<1>11. CASE ResetPasses \/ Scan \/ TakeDue
  BY <1>2, <1>11 DEF ResetPasses, Scan, TakeDue
<1>12. CASE EndTick
  <2>1. /\ UNCHANGED <<tm, clash>>
        /\ saved' = [s \in Sessions |-> IF current[s] # 0 THEN tm.map[s] ELSE NoName]
    BY <1>12 DEF EndTick
  <2>2. Tidy(tm) => SavedApart(saved')
    BY <2>1 DEF Tidy, SharesName, SavedApart
  <2> QED
    BY <2>1, <2>2 DEF Windows, Tidy, OwnName, SharesName
<1>13. CASE UNCHANGED vars
  BY <1>2, <1>13 DEF vars
<1> QED
  BY <1>3, <1>4, <1>5, <1>6, <1>7, <1>8, <1>9, <1>10, <1>11, <1>12, <1>13
     DEF Next, Tick, Environment

LEMMA WindowsInvariant == Spec => [](Types /\ Windows)
<1>1. Init => Types /\ Windows
  BY TypeInit DEF Init, Types, Places, Windows, Tidy, OwnName, SharesName, SavedApart, NoMap
<1>2. Types /\ Windows /\ [Next]_vars => (Types /\ Windows)'
  BY TypeStep, PlacesStep, WindowsStep DEF Types
<1> QED
  BY <1>1, <1>2, PTL DEF Spec

\* While names have stayed unique, every window is the one its session has in the
\* manager's map: it is found, renamed and removed with its session (tmux.go),
\* unless tmux failed to rename, list or kill it, or a kill of the daemon came
\* before its name was saved.
THEOREM WindowsAreKnown ==
  Spec => [](~clash => \A w \in tm.wins : ~w.lost => tm.map[w.owner] = w.name)
<1>1. Types /\ Windows =>
        (~clash => \A w \in tm.wins : ~w.lost => tm.map[w.owner] = w.name)
  BY DEF Windows, Tidy, OwnName
<1> QED
  BY <1>1, WindowsInvariant, PTL

\* The daemon never makes a second window for a session, restarts included
\* (restoreWindows), beside those that the failures named at NoDuplicateWindows
\* made it lose sight of, one by one, unless names clashed.
THEOREM OneWindowEach == Spec => []NoDuplicateWindows
<1>1. Types /\ Windows => NoDuplicateWindows
  BY DEF Windows, Tidy, OwnName, SharesName, NoDuplicateWindows
<1> QED
  BY <1>1, WindowsInvariant, PTL

-----------------------------------------------------------------------------
(***************************************************************************)
(* How names come to clash.                                                *)
(***************************************************************************)
\* AddWindow has to name a window of s, and every name of the directory is taken,
\* or the one that is free belongs to a session whose window has closed.
NoNameLeft(t, s) ==
  ~Has(t, s) /\ \A i \in DOMAIN Numbers : <<DirOf[s], Numbers[i]>> \in NamesOf(t.wins)

GivenAway(t, s) ==
  /\ ~Has(t, s)
  /\ \E a \in Sessions \ {s} :
       UniqueName(t.wins, s) = t.map[a] /\ t.map[a] \notin NamesOf(t.wins)

Unsafe(t, s) == NoNameLeft(t, s) \/ GivenAway(t, s)

\* The steps that make a window for s, and those that rename it.
Adds(s)    == SyncNew(s) \/ (SyncKnown(s) /\ Heals(s))
Renames(s) == \/ Warned(s) \/ Reactivated(s) \/ Schedule(s)
              \/ \E r \in resumes : r.to = s /\ Resume(r)

\* The new name is that of another session, or of a window.
Onto(s) == \/ \E a \in Sessions \ {s} : tm.map[a] # NoName /\ tm'.map[s] = tm.map[a]
           \/ tm'.map[s] \in NamesOf(tm.wins)

\* A tmux command failed in this step.
TmuxFailed == faults' = faults + 1

LEMMA AddShares ==
  ASSUME NEW t, WellFormed(t), ~SharesName(t), NEW s \in Sessions, NEW i \in Nat,
         NEW bad, "list" \notin bad, "names" \notin bad, MaxWins \in Nat,
         SharesName(AddWindow(t, s, i, bad))
  PROVE  NoNameLeft(t, s) \/ GivenAway(t, s)
<1> DEFINE free == {k \in DOMAIN Numbers : <<DirOf[s], Numbers[k]>> \notin NamesOf(t.wins)}
           name == UniqueName(t.wins, s)
           new  == AddWindow(t, s, i, bad)
<1>1. ~Has(t, s)
  BY DEF AddWindow
<1> SUFFICES ASSUME ~NoNameLeft(t, s) PROVE GivenAway(t, s)
  OBVIOUS
<1>2. free # {}
  BY <1>1 DEF NoNameLeft
<1>3. name \notin NamesOf(t.wins)
  <2>1. Min(free) \in free
    <3>1. free \subseteq DOMAIN Numbers
      OBVIOUS
    <3> HIDE DEF free
    <3> QED BY <1>2, <3>1, NumbersCounted, MinIsLeast
  <2>2. name = <<DirOf[s], Numbers[Min(free)]>>
    BY <1>2 DEF UniqueName
  <2> QED BY <2>1, <2>2
<1>4. NamesApart(t.wins) /\ \A a, b \in Sessions : t.map[a] # NoName /\ t.map[a] = t.map[b] => a = b
  BY DEF SharesName, NamesApart
<1>5. NamesApart(new.wins)
  BY <1>2, <1>4, AddWindowKeepsNamesApart
<1>6. new.map = [t.map EXCEPT ![s] = name] /\ DOMAIN t.map = Sessions
  BY <1>1 DEF AddWindow, WellFormed
<1>7. SharesName(new)
  OBVIOUS
<1> HIDE DEF free, name, new
<1>8. PICK a, b \in Sessions : a # b /\ new.map[a] # NoName /\ new.map[a] = new.map[b]
  BY <1>5, <1>7 DEF SharesName, NamesApart
<1>9. \E c \in Sessions \ {s} : t.map[c] = name
  BY <1>4, <1>6, <1>8
<1> QED BY <1>1, <1>3, <1>9 DEF GivenAway, name

LEMMA RenameShares ==
  ASSUME NEW t, WellFormed(t), ~SharesName(t), NEW s \in Sessions, NEW name \in Names,
         NEW bad, SharesName(RenameWindow(t, s, name, bad))
  PROVE  /\ RenameWindow(t, s, name, bad).map[s] = name
         /\ \/ \E a \in Sessions \ {s} : t.map[a] = name
            \/ \E w \in t.wins : w.name = name /\ w.name # t.map[s]
<1> DEFINE old == Named(t.wins, t.map[s])
           ren == {[w EXCEPT !.name = name] : w \in old}
           new == RenameWindow(t, s, name, bad)
           Taken == \/ \E a \in Sessions \ {s} : t.map[a] = name
                    \/ \E w \in t.wins : w.name = name /\ w.name # t.map[s]
<1>1. Has(t, s) /\ "list" \notin bad
  BY DEF RenameWindow
<1>2. new = [wins |-> IF "rename" \in bad THEN LoseSight(t, s) ELSE (t.wins \ old) \cup ren,
             map |-> [t.map EXCEPT ![s] = name]]
  BY <1>1, TargetIsNamed DEF RenameWindow
<1>3. /\ \A w \in t.wins : w \in Window
      /\ DOMAIN t.map = Sessions
  BY DEF WellFormed
<1>4. /\ \A v, w \in t.wins : v.name = w.name => v = w
      /\ \A a, b \in Sessions : t.map[a] # NoName /\ t.map[a] = t.map[b] => a = b
  BY DEF SharesName
<1>5. \A v, w \in ren : v = w
  BY <1>4 DEF Named
<1>6. \A w \in ren : w.name = name
  BY <1>3 DEF Window, Named
<1>7. \A w \in t.wins \ old : w.name # t.map[s]
  BY DEF Named
<1>8. new.map[s] = name /\ \A a \in Sessions \ {s} : new.map[a] = t.map[a]
  BY <1>2, <1>3
<1>9. new.wins = LoseSight(t, s) \/ new.wins = (t.wins \ old) \cup ren
  BY <1>2
<1>10. SharesName(new)
  OBVIOUS
<1> HIDE DEF ren, new, old
<1>11. ASSUME NEW v \in new.wins, NEW w \in new.wins, v # w, v.name = w.name
       PROVE  Taken
  <2>1. ~(v \in LoseSight(t, s) /\ w \in LoseSight(t, s))
    BY <1>4, <1>11, LoseSightApart
  <2>2. CASE v \in ren /\ w \in t.wins \ old
    BY <1>6, <1>7, <1>11, <2>2
  <2>3. CASE v \in t.wins \ old /\ w \in ren
    BY <1>6, <1>7, <1>11, <2>3
  <2>4. CASE v \in t.wins \ old /\ w \in t.wins \ old
    BY <1>4, <1>11, <2>4
  <2> QED BY <1>5, <1>9, <1>11, <2>1, <2>2, <2>3, <2>4
<1>12. ASSUME NEW a \in Sessions, NEW b \in Sessions, a # b, new.map[a] # NoName,
              new.map[a] = new.map[b]
       PROVE  Taken
  BY <1>4, <1>8, <1>12
<1>13. Taken
  BY <1>10, <1>11, <1>12 DEF SharesName
<1> QED BY <1>8, <1>13 DEF new

LEMMA RemoveShares ==
  ASSUME NEW t, WellFormed(t), ~SharesName(t), NEW s \in Sessions, NEW bad
  PROVE  ~SharesName(RemoveWindow(t, s, bad))
<1>1. CASE t.map[s] = NoName
  BY <1>1 DEF RemoveWindow
<1>2. CASE t.map[s] # NoName
  <2> DEFINE new == RemoveWindow(t, s, bad)
  <2>1. /\ new.wins \subseteq t.wins \/ new.wins = LoseSight(t, s)
        /\ new.map = [t.map EXCEPT ![s] = NoName]
    BY <1>2 DEF RemoveWindow
  <2>2. \A a \in Sessions : new.map[a] = t.map[a] \/ new.map[a] = NoName
    BY <2>1 DEF WellFormed
  <2> HIDE DEF new
  <2>3. \A v, w \in t.wins : v.name = w.name => v = w
    BY DEF SharesName
  <2>4. \A v, w \in new.wins : v.name = w.name => v = w
    BY <2>1, <2>3, LoseSightApart
  <2>5. ~SharesName(new)
    BY <2>2, <2>4 DEF SharesName
  <2> QED BY <2>5 DEF new
<1> QED BY <1>1, <1>2

\* Renamed, where the windows are those of tm but perhaps for one added for s.
LEMMA RenamedOnto ==
  ASSUME NEW t, WellFormed(t), ~SharesName(t), NEW s \in Sessions,
         NEW name \in Names \cup {NoName}, NEW ren, tm' = Renamed(t, s, name, ren), SharesName(tm'),
         \A a \in Sessions \ {s} : t.map[a] = tm.map[a],
         \A w \in t.wins : w.name \in NamesOf(tm.wins) \/ w.name = t.map[s]
  PROVE  name # NoName /\ Onto(s)
<1>1. name # NoName
  BY DEF Renamed
<1>2. tm' = RenameWindow(t, s, name, ren)
  BY <1>1 DEF Renamed
<1>3. /\ tm'.map[s] = name
      /\ \/ \E a \in Sessions \ {s} : t.map[a] = name
         \/ \E w \in t.wins : w.name = name /\ w.name # t.map[s]
  BY <1>1, <1>2, RenameShares
<1> QED BY <1>1, <1>3 DEF Onto

\* What AddWindow leaves of the other sessions, and of the windows' names.
LEMMA AddedIs ==
  ASSUME NEW t, WellFormed(t), NEW s \in Sessions, NEW i \in Nat, NEW bad, MaxWins \in Nat
  PROVE  LET added == AddWindow(t, s, i, bad) IN
         /\ \A a \in Sessions \ {s} : added.map[a] = t.map[a]
         /\ \A w \in added.wins : w.name \in NamesOf(t.wins) \/ w.name = added.map[s]
<1> DEFINE name  == UniqueName(IF "names" \in bad THEN {} ELSE t.wins, s)
           wins  == NewWindow(LoseSight(t, s), s, i, name, bad)
           added == AddWindow(t, s, i, bad)
<1>1. name \in Names
  BY UniqueNameIs
<1> HIDE DEF name
<1>2. \A w \in wins : w.name \in NamesOf(t.wins) \/ w.name = name
  <2>1. \A w \in wins : w \in LoseSight(t, s) \/ w.name = name
    BY <1>1, LoseSightIs, NewWindowIs
  <2>2. \A w \in LoseSight(t, s) : w.name \in NamesOf(t.wins)
    <3>1. \A w \in LoseSight(t, s) : w.name \in NamesOf(LoseSight(t, s))
      BY DEF NamesOf
    <3> QED BY <3>1, LoseSightIs
  <2> QED BY <2>1, <2>2
<1> HIDE DEF wins
<1>3. CASE Has(t, s) /\ "list" \notin bad
  BY <1>3 DEF AddWindow, NamesOf
<1>4. CASE ~(Has(t, s) /\ "list" \notin bad)
  <2>1. added = [wins |-> wins, map |-> [t.map EXCEPT ![s] = name]]
    BY <1>4 DEF AddWindow, name, wins
  <2> QED BY <1>2, <2>1 DEF WellFormed
<1> QED BY <1>3, <1>4

\* AddWindow, with the commands of bad failing, comes to share a name.
LEMMA AddClash ==
  ASSUME Types, ~SharesName(tm), NEW s \in Sessions, NEW bad, NEW more,
         Failing(bad \cup more), SharesName(AddWindow(tm, s, current[s], bad))
  PROVE  Unsafe(tm, s) \/ TmuxFailed
<1>1. WellFormed(tm) /\ current[s] \in Nat
  BY DEF Types, TypeOK, WellFormed
<1>2. CASE "list" \in bad \/ "names" \in bad
  BY <1>2 DEF Failing, Fault, TmuxFailed
<1>3. CASE ~("list" \in bad \/ "names" \in bad)
  BY <1>1, <1>3, AddShares, Bounds DEF Unsafe
<1> QED BY <1>2, <1>3

LEMMA WindowStepClash ==
  ASSUME Types, Windows, ~clash, clash', NEW s \in Sessions,
         NEW name \in Names \cup {NoName}, WindowStep(s, name)
  PROVE  (Heals(s) /\ (Unsafe(tm, s) \/ TmuxFailed)) \/ (name # NoName /\ Onto(s))
<1>1. WellFormed(tm) /\ current[s] \in Nat /\ ~SharesName(tm)
  BY DEF Types, TypeOK, WellFormed, Windows, Tidy
<1>2. ASSUME NEW ren, NEW add, Failing(add \cup ren),
             tm' = Renamed(AddWindow(tm, s, current[s], add), s, name, ren),
             clash' = (clash \/ SharesName(AddWindow(tm, s, current[s], add)) \/ SharesName(tm'))
      PROVE  Unsafe(tm, s) \/ TmuxFailed \/ (name # NoName /\ Onto(s))
  <2> DEFINE added == AddWindow(tm, s, current[s], add)
  <2>1. CASE SharesName(added)
    BY <1>1, <1>2, <2>1, AddClash
  <2>2. CASE ~SharesName(added)
    <3>1. /\ WellFormed(added)
          /\ \A a \in Sessions \ {s} : added.map[a] = tm.map[a]
          /\ \A w \in added.wins : w.name \in NamesOf(tm.wins) \/ w.name = added.map[s]
      BY <1>1, AddTyped, AddedIs, Bounds
    <3>2. SharesName(tm') /\ tm' = Renamed(added, s, name, ren)
      BY <1>2, <2>2
    <3> HIDE DEF added
    <3> QED BY <2>2, <3>1, <3>2, RenamedOnto
  <2> QED BY <2>1, <2>2
<1>3. ASSUME NEW ren, Tmux(Renamed(tm, s, name, ren))
      PROVE  name # NoName /\ Onto(s)
  <2>1. tm' = Renamed(tm, s, name, ren) /\ SharesName(tm')
    BY <1>3 DEF Tmux
  <2>2. \A w \in tm.wins : w.name \in NamesOf(tm.wins)
    BY DEF NamesOf
  <2> QED BY <1>1, <2>1, <2>2, RenamedOnto
<1> QED
  BY <1>2, <1>3 DEF WindowStep

LEMMA RenameClash ==
  ASSUME Types, Windows, ~clash, clash', NEW s \in Sessions, NEW name \in Names,
         NEW bad, Tmux(RenameWindow(tm, s, name, bad))
  PROVE  Onto(s)
<1>1. WellFormed(tm) /\ ~SharesName(tm)
  BY DEF Types, TypeOK, WellFormed, Windows, Tidy
<1>2. tm' = Renamed(tm, s, name, bad) /\ SharesName(tm')
  BY NamesGiven DEF Tmux, Renamed
<1>3. \A w \in tm.wins : w.name \in NamesOf(tm.wins)
  BY DEF NamesOf
<1> QED BY <1>1, <1>2, <1>3, RenamedOnto

LEMMA ClashStep ==
  ASSUME Types, Windows, [Next]_vars, ~clash, clash'
  PROVE  \E s \in Sessions : \/ Adds(s) /\ (Unsafe(tm, s) \/ TmuxFailed)
                             \/ Renames(s) /\ Onto(s)
<1>1. WellFormed(tm) /\ ~SharesName(tm)
  BY DEF Types, TypeOK, WellFormed, Windows, Tidy
<1>2. ASSUME NEW s \in Sessions, SyncNew(s)
      PROVE  Adds(s) /\ (Unsafe(tm, s) \/ TmuxFailed)
  <2>1. PICK bad : Failing(bad) /\ Tmux(AddWindow(tm, s, current[s], bad))
    BY <1>2 DEF SyncNew
  <2>2. Failing(bad \cup {}) /\ SharesName(AddWindow(tm, s, current[s], bad))
    BY <2>1 DEF Tmux
  <2>3. Unsafe(tm, s) \/ TmuxFailed
    BY <1>1, <2>2, AddClash
  <2> QED BY <1>2, <2>3 DEF Adds
<1>3. ASSUME NEW s \in Sessions, SyncKnown(s)
      PROVE  \/ Adds(s) /\ (Unsafe(tm, s) \/ TmuxFailed)
             \/ Renames(s) /\ Onto(s)
  <2>1. ShortDir(s) \in Names /\ Remark(s, "[warn]") \in Names
    BY NamesGiven
  <2>2. CASE Warned(s) \/ Reactivated(s)
    <3>1. Renames(s)
      BY <2>2 DEF Renames
    <3>2. \E name \in Names : WindowStep(s, name)
      BY <2>1, <2>2 DEF Warned, Reactivated
    <3> QED BY <1>3, <3>1, <3>2, WindowStepClash DEF Adds
  <2>3. CASE Interrupted(s) \/ NoEvent(s)
    <3>1. WindowStep(s, NoName)
      BY <2>3 DEF Interrupted, NoEvent
    <3> QED BY <1>3, <3>1, WindowStepClash DEF Adds
  <2> QED BY <1>3, <2>2, <2>3 DEF SyncKnown
<1>4. ASSUME NEW s \in Sessions, Schedule(s) PROVE Renames(s) /\ Onto(s)
  <2>1. PICK bad : Tmux(RenameWindow(tm, s, Remark(s, "[PAUSED]"), bad))
    BY <1>4 DEF Schedule, RenameTo
  <2> QED BY <1>4, <2>1, NamesGiven, RenameClash DEF Renames
<1>5. ASSUME NEW r \in resumes, Resume(r) PROVE r.to \in Sessions /\ Renames(r.to) /\ Onto(r.to)
  <2>1. r.to \in Sessions
    BY DEF Types, TypeOK
  <2>2. Renames(r.to) /\ ShortDir(r.to) \in Names
    BY <1>5, <2>1, NamesGiven DEF Renames
  <2>3. PICK ren : Tmux(IF current[r.to] # 0
                        THEN RenameWindow(tm, r.to, ShortDir(r.to), ren) ELSE tm)
    BY <1>5 DEF Resume
  <2>4. Tmux(RenameWindow(tm, r.to, ShortDir(r.to), ren))
    BY <1>1, <2>3 DEF Tmux
  <2> QED BY <2>1, <2>2, <2>4, RenameClash
<1>6. ASSUME NEW s \in Sessions, Forget(s) PROVE FALSE
  <2>1. PICK bad : Tmux(RemoveWindow(tm, s, bad))
    BY <1>6 DEF Forget
  <2> QED BY <1>1, <2>1, RemoveShares DEF Tmux
<1>7. ~(UNCHANGED clash)
  OBVIOUS
<1>8. /\ ~Restart /\ ~Scan /\ ~TakeDue /\ ~EndTick /\ ~Environment /\ ~UNCHANGED vars
  BY <1>7 DEF Restart, Killed, Scan, TakeDue, EndTick, Environment, Spawn, Ends, StatusWrite,
              WindowCloses, ResetPasses, vars
<1> DEFINE Caused(s) == \/ Adds(s) /\ (Unsafe(tm, s) \/ TmuxFailed)
                        \/ Renames(s) /\ Onto(s)
<1>9. \A s \in Sessions : SyncNew(s) \/ SyncKnown(s) \/ Schedule(s) => Caused(s)
  BY <1>2, <1>3, <1>4
<1>10. \A r \in resumes : Resume(r) => \E s \in Sessions : Caused(s)
  BY <1>5
<1> HIDE DEF Caused
<1>11. \E s \in Sessions : Caused(s)
  BY <1>6, <1>8, <1>9, <1>10 DEF Next, Tick
<1> QED BY <1>11 DEF Caused

\* Two windows or sessions come to share a name only in one of four ways: every
\* numbered name of a directory is taken, a free name is that of a session whose
\* window has closed and is not healed yet, the windows could not be listed when a
\* name was chosen, or a rename, which asks nobody, takes the name of another
\* session or of a window (uniqueName, RenameWindow).
THEOREM HowNamesClash ==
  Spec => [][ ~clash /\ clash' =>
              \E s \in Sessions : \/ Adds(s) /\ (Unsafe(tm, s) \/ TmuxFailed)
                                  \/ Renames(s) /\ Onto(s) ]_vars
<1> DEFINE Caused == ~clash /\ clash' =>
              \E s \in Sessions : \/ Adds(s) /\ (Unsafe(tm, s) \/ TmuxFailed)
                                  \/ Renames(s) /\ Onto(s)
<1>1. Types /\ Windows /\ [Next]_vars => [Caused]_vars
  BY ClashStep
<1> QED
  BY <1>1, WindowsInvariant, PTL DEF Spec

=============================================================================
