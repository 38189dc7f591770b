-------------------------- MODULE CloudSyncProofs --------------------------
(***************************************************************************)
(* Proofs about CloudSync, for any number of sessions, windows, changes,   *)
(* faults and acts of the owner.                                           *)
(*                                                                         *)
(* The argument: a reconcile works from a list of windows that gets old    *)
(* while it runs, but what is in it can only have been closed meanwhile,   *)
(* and what a session that is still to be dealt with has is in it.  The    *)
(* producer writes for a revoked PC only if it looked before.              *)
(***************************************************************************)
EXTENDS CloudSync, TLAPS

\* What the list of windows says: no id of it has been used again, ...
ListedOnce == \A w \in Window, k \in Keys : <<w, k>> \in rc.cur => wins[w] \in {k, Free}

\* ... a session of it that has been there all the while has those windows
\* still and is to be dealt with, ...
ListedThere ==
  \A w \in Window, k \in there : <<w, k>> \in rc.cur =>
    wins[w] = k /\ (rc.pc # "sessions" => k \in rc.want)

\* ... and the windows of a session that is to be dealt with are in it.
ListedAll ==
  \A w \in Window, k \in Keys :
    wins[w] = k /\ (rc.pc = "sessions" \/ k \in rc.want) => <<w, k>> \in rc.cur

\* The window that waits for its mark is not in the list, nor any other window
\* of its session.
OneToMark ==
  rc.pc = "mark" => /\ rc.key \in Keys \ rc.want
                    /\ \A w \in Window : wins[w] # rc.key
                    /\ \A k \in Keys : <<rc.new, k>> \notin rc.cur

Listing == ListedOnce /\ ListedThere /\ ListedAll /\ OneToMark

ThereIsKeyed == there \subseteq Keyed(doc)

Blinded == revoked /\ prod.pc \in {"register", "push", "delete"} => prod.blind

IInv == TypeOK /\ Listing /\ ThereIsKeyed /\ Blinded

-----------------------------------------------------------------------------
(* The steps, by who takes them. *)

ProducerStep == \/ Start \/ Register \/ Seed \/ Tick \/ PushParent \/ ProdCrash
                \/ \E k \in Keys : Push(k) \/ Delete(k)

OwnerStep == SetRevoked \/ ClearRevoked \/ DeleteSessions \/ DeleteParent

ReconcileStep == \/ Look \/ ReadSessions \/ Mark \/ KillGone
                 \/ \E k \in Keys : Keep(k) \/ New(k)

SyncStep == \/ StreamEnds \/ Subscribe \/ SyncCrash \/ ReconcileStep
            \/ \E w \in Window : CloseWindow(w)

LEMMA StepCases ==
  ASSUME [Next]_vars
  PROVE  StatusChanges \/ ProducerStep \/ OwnerStep \/ SyncStep \/ UNCHANGED vars
  BY DEF Next, Producer, Reconcile, ProducerStep, OwnerStep, ReconcileStep, SyncStep

LEMMA Marks ==
  /\ Free \notin Keys /\ Unmarked \notin Keys /\ Free # Unmarked
  /\ 0 \notin Window
  BY CloudSyncAssumption DEF Free, Unmarked, Window

\* TypeOK, by the two agents.
Docs == [Keys -> Contents \cup {Gone}]

Prods == [pc : {"off", "register", "seed", "tick", "push", "delete"},
          prev : SUBSET Keys, ss : [Keys -> Contents \cup {Gone}],
          todo : SUBSET Keys, changed : BOOLEAN, blind : BOOLEAN]

Recs == [pc : {"rest", "sessions", "each", "mark"},
         cur : SUBSET (Window \X Keys), want : SUBSET Keys,
         new : Window \cup {0}, key : Keys \cup {Free}]

OkProd(p) == p \in Prods /\ p.todo \subseteq Keyed(p.ss)

OkRec(r) == r \in Recs /\ (r.pc = "rest" => r = Rest) /\ (r.pc = "mark" <=> r.new # 0)

PcTypes ==
  /\ status \in Docs /\ doc \in Docs
  /\ pcDoc \in BOOLEAN /\ revoked \in BOOLEAN /\ unlisted \in BOOLEAN
  /\ admin \in {"none", "delete", "parent"} /\ OkProd(prod) /\ orphans \subseteq Keys

SyncTypes ==
  /\ OkRec(rc) /\ wins \in [Window -> Keys \cup {Free, Unmarked}]
  /\ there \subseteq Keys
  /\ sub \in BOOLEAN /\ trigger \in BOOLEAN /\ missed \in BOOLEAN

Bounds == changes \in 0 .. MaxChanges /\ faults \in 0 .. MaxFaults /\ acts \in 0 .. MaxAdmin

Types == PcTypes /\ SyncTypes /\ Bounds

LEMMA TypesAre == Types <=> TypeOK
  BY DEF Types, PcTypes, SyncTypes, Bounds, TypeOK, Docs, Prods, Recs, OkProd, OkRec

-----------------------------------------------------------------------------
(* Types. *)

LEMMA BoundsKept ==
  ASSUME Bounds,
         UNCHANGED changes \/ (changes < MaxChanges /\ changes' = changes + 1),
         Fine \/ Fault, UNCHANGED acts \/ Act
  PROVE  Bounds'
  BY CloudSyncAssumption DEF Bounds, Fine, Fault, Act

LEMMA OffFits == OkProd(Off) /\ None \in Docs
  BY DEF OkProd, Prods, Off, None, Docs

LEMMA RestFits == OkRec(Rest)
  BY Marks DEF OkRec, Recs, Rest

\* Whatever is killed, it is among what was to be.
LEMMA Kills ==
  ASSUME NEW ws, KillWindowIDs(ws)
  PROVE  /\ \E vs \in SUBSET ws : Kill(vs)
         /\ Fine \/ Fault
         /\ UNCHANGED missed \/ missed' = TRUE
  BY DEF KillWindowIDs

LEMMA UnlistedType ==
  ASSUME PcTypes, UNCHANGED unlisted \/ \E e : Unlist(e)
  PROVE  unlisted' \in BOOLEAN
<1>1. CASE UNCHANGED unlisted
  BY <1>1 DEF PcTypes
<1>2. CASE \E e : Unlist(e)
  BY <1>2 DEF Unlist
<1> QED BY <1>1, <1>2

\* The rest of a tick.
LEMMA OnwardFits ==
  ASSUME NEW p, OkProd(p), p.pc \in {"push", "delete"}
  PROVE  /\ OkProd(Onward(p))
         /\ \/ Onward(p).pc = "tick"
            \/ Onward(p).pc \in {"push", "delete"} /\ Onward(p).blind = p.blind
<1>1. Keyed(p.ss) \subseteq Keys
  BY DEF Keyed
<1>2. OkProd([Off EXCEPT !.pc = "tick", !.prev = Keyed(p.ss)])
      /\ [Off EXCEPT !.pc = "tick", !.prev = Keyed(p.ss)].pc = "tick"
  BY <1>1, OffFits DEF OkProd, Prods, Off
<1>3. OkProd([p EXCEPT !.pc = "delete"]) /\ [p EXCEPT !.pc = "delete"].pc = "delete"
      /\ [p EXCEPT !.pc = "delete"].blind = p.blind
  BY DEF OkProd, Prods
<1> QED BY <1>2, <1>3 DEF Onward

LEMMA BeginFits ==
  ASSUME OkProd(prod), NEW ss \in Docs, NEW b \in BOOLEAN, Begin(ss, b)
  PROVE  OkProd(prod') /\ (prod'.pc = "tick" \/ prod'.blind = b)
<1> DEFINE p == [prod EXCEPT !.pc = "push", !.ss = ss, !.todo = Keyed(ss),
                             !.changed = FALSE, !.blind = b]
<1>1. OkProd(p) /\ p.pc = "push" /\ p.blind = b
  <2>1. Keyed(ss) \subseteq Keys
    BY DEF Keyed
  <2> QED BY <2>1 DEF OkProd, Prods, Docs
<1>2. prod' = Onward(p)
  BY DEF Begin
<1> HIDE DEF p
<1> QED BY <1>1, <1>2, OnwardFits

\* What the producing agent may do to the state of the other one.
LEMMA ProducerTells ==
  ASSUME PcTypes, SyncTypes, ProducerStep
  PROVE  /\ UNCHANGED <<status, revoked, admin, sub, rc, wins, changes, acts>>
         /\ there' \subseteq there /\ SyncTypes' /\ (Fine \/ Fault)
<1>1. UNCHANGED <<status, revoked, admin, sub, rc, wins, changes, acts>>
  BY DEF ProducerStep, ProdFrame, Start, Register, Seed, Tick, PushParent, ProdCrash, Push,
         Delete
<1>2. there' \subseteq there /\ (Fine \/ Fault)
  BY DEF ProducerStep, Start, Register, Seed, Tick, PushParent, ProdCrash, Push, Delete
<1>3. UNCHANGED trigger \/ Tell
  BY DEF ProducerStep, Start, Register, Seed, Tick, PushParent, ProdCrash, Push, Delete
<1>4. UNCHANGED missed \/ Untold
  BY DEF ProducerStep, Start, Register, Seed, Tick, PushParent, ProdCrash, Push, Delete
<1>5. trigger' \in BOOLEAN
  BY <1>3 DEF Tell, SyncTypes
<1>6. missed' \in BOOLEAN
  BY <1>4 DEF Untold, SyncTypes
<1> QED BY <1>1, <1>2, <1>5, <1>6 DEF SyncTypes

LEMMA ProducerTypes ==
  ASSUME PcTypes, ProducerStep
  PROVE  /\ OkProd(prod') /\ doc' \in Docs /\ pcDoc' \in BOOLEAN /\ orphans' \subseteq Keys
         /\ unlisted' \in BOOLEAN
<1>9. unlisted' \in BOOLEAN
  <2>1. UNCHANGED unlisted \/ \E e : Unlist(e)
    BY DEF ProducerStep, Start, Register, Seed, Tick, PushParent, ProdCrash, Push, Delete
  <2> QED BY <2>1, UnlistedType
<1> USE DEF PcTypes
<1>0. Keyed(doc) \subseteq Keys
  BY DEF Keyed
<1>1. CASE Start
  <2>1. \/ prod' = [prod EXCEPT !.pc = "register"] \/ prod' = [prod EXCEPT !.pc = "seed"]
        \/ prod' = [prod EXCEPT !.pc = "register", !.blind = TRUE]
    BY <1>1 DEF Start
  <2>2. OkProd(prod')
    BY <2>1 DEF OkProd, Prods
  <2> QED BY <1>1, <2>2 DEF Start
<1>2. CASE Register
  <2>1. OkProd(prod')
    BY <1>2 DEF Register, OkProd, Prods
  <2> QED BY <1>2, <1>9, <2>1 DEF Register
<1>3. CASE Seed
  <2>1. OkProd(prod')
    BY <1>0, <1>3 DEF Seed, OkProd, Prods
  <2> QED BY <1>0, <1>3, <2>1 DEF Seed
<1>4. CASE Tick
  <2>1. OkProd(prod')
    BY <1>4, BeginFits, OffFits DEF Tick
  <2> QED BY <1>4, <2>1 DEF Tick
<1>5. CASE PushParent
  <2> DEFINE p == [prod EXCEPT !.pc = "delete"]
  <2>1. OkProd(p) /\ p.pc = "delete"
    BY DEF OkProd, Prods
  <2>2. prod' = Onward(p)
    BY <1>5 DEF PushParent
  <2> HIDE DEF p
  <2>3. OkProd(prod')
    BY <2>1, <2>2, OnwardFits
  <2> QED BY <1>5, <1>9, <2>3 DEF PushParent
<1>6. CASE ProdCrash
  BY <1>6, <1>9, OffFits DEF ProdCrash
<1>7. ASSUME NEW k \in Keys, Push(k)
      PROVE  OkProd(prod') /\ doc' \in Docs /\ pcDoc' \in BOOLEAN /\ orphans' \subseteq Keys
  <2> DEFINE p == [prod EXCEPT !.todo = @ \ {k}]
             q == [prod EXCEPT !.todo = @ \ {k}, !.changed = TRUE]
             r == [prod EXCEPT !.pc = "delete", !.todo = {}]
  <2>1. prod.pc = "push" /\ (prod' = Onward(p) \/ prod' = q \/ prod' = Onward(r))
    BY <1>7 DEF Push
  <2>2. OkProd(p) /\ p.pc = "push" /\ OkProd(q) /\ OkProd(r) /\ r.pc = "delete"
    BY <2>1 DEF OkProd, Prods
  <2> HIDE DEF p, q, r
  <2>3. OkProd(prod')
    BY <2>1, <2>2, OnwardFits
  <2>4. UNCHANGED doc \/ doc' = [doc EXCEPT ![k] = prod.ss[k]]
    BY <1>7 DEF Push
  <2>5. doc' \in Docs
    BY <2>4 DEF OkProd, Prods, Docs
  <2> QED BY <1>7, <2>3, <2>5 DEF Push
<1>8. ASSUME NEW k \in Keys, Delete(k)
      PROVE  OkProd(prod') /\ doc' \in Docs /\ pcDoc' \in BOOLEAN /\ orphans' \subseteq Keys
  <2> DEFINE p == [prod EXCEPT !.prev = @ \ {k}]
  <2>1. OkProd(p) /\ p.pc = "delete" /\ prod' = Onward(p)
    BY <1>8 DEF Delete, OkProd, Prods
  <2> HIDE DEF p
  <2>2. OkProd(prod')
    BY <2>1, OnwardFits
  <2>3. doc' \in Docs
    BY <1>8 DEF Delete, Docs
  <2> QED BY <1>8, <2>2, <2>3 DEF Delete
<1> QED BY <1>1, <1>2, <1>3, <1>4, <1>5, <1>6, <1>7, <1>8, <1>9 DEF ProducerStep

LEMMA OwnerTypes ==
  ASSUME PcTypes, SyncTypes, OwnerStep
  PROVE  /\ PcTypes' /\ SyncTypes' /\ there' \subseteq there
         /\ UNCHANGED <<status, sub, rc, wins, changes, faults>> /\ (UNCHANGED acts \/ Act)
<1>1. /\ UNCHANGED <<status, sub, rc, wins, changes, faults>> /\ (UNCHANGED acts \/ Act)
      /\ there' \subseteq there
  BY DEF OwnerStep, OwnerFrame, SetRevoked, ClearRevoked, DeleteSessions, DeleteParent
<1>2. UNCHANGED trigger \/ Tell
  BY DEF OwnerStep, SetRevoked, ClearRevoked, DeleteSessions, DeleteParent
<1>3. UNCHANGED missed \/ Untold
  BY DEF OwnerStep, SetRevoked, ClearRevoked, DeleteSessions, DeleteParent
<1>4. SyncTypes'
  <2>1. trigger' \in BOOLEAN
    BY <1>2 DEF Tell, SyncTypes
  <2>2. missed' \in BOOLEAN
    BY <1>3 DEF Untold, SyncTypes
  <2> QED BY <1>1, <2>1, <2>2 DEF SyncTypes
<1>5. OkProd(prod')
  <2> DEFINE b == prod.pc \in {"register", "push", "delete"}
  <2>1. UNCHANGED prod \/ prod' = [prod EXCEPT !.blind = b]
    BY DEF OwnerStep, SetRevoked, ClearRevoked, DeleteSessions, DeleteParent
  <2>2. b \in BOOLEAN
    OBVIOUS
  <2> HIDE DEF b
  <2> QED BY <2>1, <2>2 DEF PcTypes, OkProd, Prods
<1>6. doc' \in Docs
  BY DEF OwnerStep, SetRevoked, ClearRevoked, DeleteSessions, DeleteParent, PcTypes, Docs
<1>7. /\ pcDoc' \in BOOLEAN /\ revoked' \in BOOLEAN
      /\ admin' \in {"none", "delete", "parent"}
  BY DEF OwnerStep, SetRevoked, ClearRevoked, DeleteSessions, DeleteParent, PcTypes
<1>8. orphans' \subseteq Keys
  BY DEF OwnerStep, SetRevoked, ClearRevoked, DeleteSessions, DeleteParent, PcTypes, Keyed
<1>9. unlisted' \in BOOLEAN
  <2>1. UNCHANGED unlisted \/ \E e : Unlist(e)
    BY DEF OwnerStep, SetRevoked, ClearRevoked, DeleteSessions, DeleteParent
  <2> QED BY <2>1, UnlistedType
<1> QED BY <1>1, <1>4, <1>5, <1>6, <1>7, <1>8, <1>9 DEF PcTypes

LEMMA RestTypes ==
  ASSUME SyncTypes, Abort
  PROVE  rc' = Rest /\ OkRec(rc') /\ there' = {} /\ there' \subseteq Keys
         /\ missed' \in BOOLEAN
  BY RestFits DEF Abort

\* The actions of ReconcileRemote, each of which writes rc.
LEMMA ReconcileTypes ==
  ASSUME PcTypes, SyncTypes, ReconcileStep
  PROVE  SyncTypes'
<1> USE DEF SyncTypes
<1>0. /\ Keyed(doc) \subseteq Keys /\ Visible \subseteq Keys
      /\ Marked \subseteq Window \X Keys
  BY DEF Keyed, Visible, Marked
<1>1. CASE Look
  <2> DEFINE r == [Rest EXCEPT !.pc = IF pcDoc THEN "sessions" ELSE "each", !.cur = Marked]
  <2>1. OkRec(r)
    BY <1>0, Marks DEF OkRec, Recs, Rest
  <2> HIDE DEF r
  <2>2. OkRec(rc') /\ there' \subseteq Keys /\ missed' \in BOOLEAN
    <3>1. Abort \/ (rc' = r /\ there' = Visible /\ missed' = FALSE)
      BY <1>1 DEF Look, r
    <3> QED BY <1>0, <2>1, <3>1, RestTypes
  <2> QED BY <1>1, <2>2 DEF Look
<1>2. CASE ReadSessions
  <2> DEFINE r == [rc EXCEPT !.pc = "each", !.want = Keyed(doc)]
  <2>1. rc.pc = "sessions" => OkRec(r)
    BY <1>0 DEF OkRec, Recs
  <2> HIDE DEF r
  <2>2. OkRec(rc') /\ there' \subseteq Keys /\ missed' \in BOOLEAN
    <3>1. rc.pc = "sessions" /\ (Abort \/ (rc' = r /\ UNCHANGED <<there, missed>>))
      BY <1>2 DEF ReadSessions, r
    <3> QED BY <2>1, <3>1, RestTypes
  <2> QED BY <1>2, <2>2 DEF ReadSessions
<1>3. CASE Mark
  <2>1. OkRec(rc')
    BY <1>3, Marks DEF Mark, OkRec, Recs
  <2>2. rc.pc = "mark" => rc.key \in Keys \cup {Free}
    BY DEF OkRec, Recs
  <2>3. wins' \in [Window -> Keys \cup {Free, Unmarked}]
    BY <1>3, <2>2 DEF Mark
  <2>4. missed' \in BOOLEAN
    BY <1>3 DEF Mark
  <2> QED BY <1>3, <2>1, <2>3, <2>4 DEF Mark
<1>4. CASE KillGone
  <2>1. PICK ws : KillWindowIDs(ws)
    BY <1>4 DEF KillGone
  <2>2. wins' \in [Window -> Keys \cup {Free, Unmarked}] /\ missed' \in BOOLEAN
    BY <2>1, Kills DEF Kill
  <2> QED BY <1>4, <2>2, RestFits DEF KillGone
<1>5. ASSUME NEW k \in Keys, Keep(k) PROVE SyncTypes'
  <2>1. OkRec(rc')
    BY <1>5 DEF Keep, OkRec, Recs
  <2>2. PICK ws : KillWindowIDs(ws)
    BY <1>5 DEF Keep
  <2>3. wins' \in [Window -> Keys \cup {Free, Unmarked}] /\ missed' \in BOOLEAN
    BY <2>2, Kills DEF Kill
  <2> QED BY <1>5, <2>1, <2>3 DEF Keep
<1>6. ASSUME NEW k \in Keys, New(k) PROVE SyncTypes'
  <2>1. CASE /\ Fault /\ rc' = [rc EXCEPT !.want = @ \ {k}] /\ missed' = TRUE
             /\ UNCHANGED wins
    <3>1. OkRec(rc')
      BY <1>6, <2>1 DEF New, OkRec, Recs
    <3> QED BY <1>6, <2>1, <3>1 DEF New
  <2>2. ASSUME NEW w \in Fresh, wins' = [wins EXCEPT ![w] = Unmarked], UNCHANGED missed,
               rc' = [rc EXCEPT !.pc = "mark", !.want = @ \ {k}, !.new = w, !.key = k]
        PROVE  SyncTypes'
    <3>1. w \in Window
      BY DEF Fresh
    <3>2. OkRec(rc')
      BY <2>2, <3>1, Marks DEF OkRec, Recs
    <3> QED BY <1>6, <2>2, <3>1, <3>2 DEF New
  <2> QED BY <1>6, <2>1, <2>2 DEF New
<1> QED BY <1>1, <1>2, <1>3, <1>4, <1>5, <1>6 DEF ReconcileStep

LEMMA SyncStepTypes ==
  ASSUME PcTypes, SyncTypes, SyncStep
  PROVE  /\ SyncTypes' /\ UNCHANGED <<cloudVars, prodVars, admin, changes, acts>>
         /\ (Fine \/ Fault)
<1>1. UNCHANGED <<cloudVars, prodVars, admin, changes, acts>>
  BY DEF SyncStep, ReconcileStep, SyncFrame, StreamEnds, Subscribe, SyncCrash, CloseWindow,
         Look, ReadSessions, Mark, KillGone, Keep, New
<1>2. Fine \/ Fault
  BY Kills DEF SyncStep, ReconcileStep, Abort, StreamEnds, Subscribe, SyncCrash, CloseWindow,
               Look, ReadSessions, Mark, KillGone, Keep, New
<1>3. ASSUME StreamEnds \/ Subscribe \/ SyncCrash PROVE SyncTypes'
  BY <1>3, RestFits DEF StreamEnds, Subscribe, SyncCrash, SyncTypes
<1>4. ASSUME NEW w \in Window, CloseWindow(w) PROVE SyncTypes'
  <2>1. wins' \in [Window -> Keys \cup {Free, Unmarked}]
    BY <1>4 DEF CloseWindow, Kill, SyncTypes
  <2> QED BY <1>4, <2>1 DEF CloseWindow, SyncTypes
<1> QED BY <1>1, <1>2, <1>3, <1>4, ReconcileTypes DEF SyncStep

LEMMA TypesKept == Types /\ [Next]_vars => Types'
<1> SUFFICES ASSUME Types, [Next]_vars PROVE Types'
  OBVIOUS
<1>1. CASE StatusChanges
  <2>1. status' \in Docs /\ UNCHANGED <<cloudVars, prod, orphans, admin, sub, trigger, rc,
                                        wins, there, missed, faults, acts>>
    BY <1>1 DEF StatusChanges, Types, PcTypes, Docs
  <2>2. Bounds'
    BY <1>1, <2>1, BoundsKept DEF StatusChanges, Types, Fine
  <2> QED BY <2>1, <2>2 DEF Types, PcTypes, SyncTypes, cloudVars
<1>2. CASE ProducerStep
  <2>1. PcTypes'
    BY <1>2, ProducerTells, ProducerTypes DEF Types, PcTypes
  <2>2. Bounds'
    BY <1>2, ProducerTells, BoundsKept DEF Types
  <2> QED BY <1>2, <2>1, <2>2, ProducerTells DEF Types
<1>3. CASE OwnerStep
  BY <1>3, OwnerTypes, BoundsKept DEF Types, Fine
<1>4. CASE SyncStep
  <2>1. SyncTypes' /\ UNCHANGED <<cloudVars, prodVars, admin, changes, acts>> /\ (Fine \/ Fault)
    BY <1>4, SyncStepTypes DEF Types
  <2> QED BY <2>1, BoundsKept DEF Types, PcTypes, cloudVars, prodVars
<1>5. CASE UNCHANGED vars
  BY <1>5 DEF vars, Types, PcTypes, SyncTypes, Bounds, cloudVars, prodVars
<1> QED BY <1>1, <1>2, <1>3, <1>4, <1>5, StepCases

-----------------------------------------------------------------------------
(* The list of windows a reconcile works from. *)

\* Whoever takes no part in it may only make sessions disappear.
LEMMA ListingKept ==
  ASSUME Listing, UNCHANGED <<rc, wins>>, there' \subseteq there
  PROVE  Listing'
  BY DEF Listing, ListedOnce, ListedThere, ListedAll, OneToMark

LEMMA RestListing ==
  ASSUME SyncTypes', rc' = Rest, there' = {}
  PROVE  Listing'
  BY DEF Listing, ListedOnce, ListedThere, ListedAll, OneToMark, Rest

\* A window is closed, by somebody else.
LEMMA CloseListing ==
  ASSUME SyncTypes, Listing, NEW w \in Window, CloseWindow(w)
  PROVE  Listing'
<1>1. /\ UNCHANGED rc /\ there' = there \ {wins[w]}
      /\ wins'[w] = Free /\ \A v \in Window \ {w} : wins'[v] = wins[v]
  BY DEF CloseWindow, Kill, SyncTypes
<1>2. ListedOnce'
  BY <1>1 DEF Listing, ListedOnce
<1>3. ListedThere'
  BY <1>1 DEF Listing, ListedThere, SyncTypes
<1>4. ListedAll'
  BY <1>1, Marks DEF Listing, ListedAll
<1>5. OneToMark'
  BY <1>1, Marks DEF Listing, OneToMark
<1> QED BY <1>2, <1>3, <1>4, <1>5 DEF Listing

LEMMA LookListing ==
  ASSUME SyncTypes, ThereIsKeyed, Listing, Look, SyncTypes'
  PROVE  Listing'
<1>1. CASE Abort
  BY <1>1, RestListing, RestTypes
<1>2. CASE /\ there' = Visible
           /\ rc' = [Rest EXCEPT !.pc = IF pcDoc THEN "sessions" ELSE "each", !.cur = Marked]
  <2>1. rc'.cur = Marked /\ rc'.want = {} /\ rc'.pc = IF pcDoc THEN "sessions" ELSE "each"
    BY <1>2 DEF Rest
  <2>2. \A w \in Window, k \in Keys : <<w, k>> \in Marked <=> wins[w] = k
    BY DEF Marked
  <2>3. UNCHANGED wins /\ there' \subseteq Keys /\ (~pcDoc => there' = {})
    BY <1>2 DEF Look, Visible, Keyed
  <2>4. ListedOnce' /\ ListedAll'
    BY <2>1, <2>2, <2>3 DEF ListedOnce, ListedAll
  <2>5. ListedThere'
    BY <2>1, <2>2, <2>3 DEF ListedThere
  <2> QED BY <2>1, <2>4, <2>5 DEF Listing, OneToMark
<1> QED BY <1>1, <1>2 DEF Look

LEMMA ReadListing ==
  ASSUME SyncTypes, ThereIsKeyed, Listing, ReadSessions, SyncTypes'
  PROVE  Listing'
<1>1. CASE Abort
  BY <1>1, RestListing, RestTypes
<1>2. CASE rc' = [rc EXCEPT !.pc = "each", !.want = Keyed(doc)] /\ UNCHANGED <<there, missed>>
  <2>1. /\ rc.pc = "sessions" /\ rc'.pc = "each" /\ rc'.cur = rc.cur /\ rc'.want = Keyed(doc)
        /\ UNCHANGED <<wins, there>>
    BY <1>2 DEF ReadSessions, SyncTypes, OkRec, Recs
  <2>2. ListedThere'
    BY <2>1 DEF Listing, ListedThere, ThereIsKeyed
  <2> QED BY <2>1, <2>2 DEF Listing, ListedOnce, ListedAll, OneToMark
<1> QED BY <1>1, <1>2 DEF ReadSessions

\* A session keeps one of its windows, and is not to be dealt with any more.
LEMMA KeepListing ==
  ASSUME SyncTypes, Listing, NEW k \in Keys, Keep(k)
  PROVE  /\ Listing'
         /\ \A j \in there \ {k}, w \in Window : wins[w] = j => wins'[w] = j
         /\ k \in there => \E w \in Window : wins'[w] = k
<1>0. PICK e \in Listed(k) : KillWindowIDs({f[1] : f \in Listed(k) \ {e}})
  BY DEF Keep
<1>1. PICK ws : Kill(ws) /\ ws \subseteq {f[1] : f \in Listed(k) \ {e}}
  BY <1>0, Kills
<1>2. /\ rc.pc = "each" /\ k \in rc.want /\ UNCHANGED there
      /\ rc'.pc = "each" /\ rc'.cur = rc.cur \ Listed(k) /\ rc'.want = rc.want \ {k}
  BY DEF Keep, SyncTypes, OkRec, Recs
<1>3. rc.cur \subseteq Window \X Keys
  BY DEF SyncTypes, OkRec, Recs
<1>4. PICK v \in Window : e = <<v, k>> /\ <<v, k>> \in rc.cur
  BY <1>1, <1>3 DEF Listed
<1>5. \A w \in Window, j \in Keys : <<w, j>> \in rc'.cur <=> <<w, j>> \in rc.cur /\ j # k
  BY <1>2 DEF Listed
<1>6. \A w \in Window : \/ wins'[w] = wins[w]
                        \/ w # v /\ <<w, k>> \in rc.cur /\ wins'[w] = Free
  BY <1>1, <1>3, <1>4 DEF Kill, Listed
<1>7. wins'[v] = wins[v]
  BY <1>6
<1>8. ListedOnce'
  BY <1>5, <1>6 DEF Listing, ListedOnce
<1>9. ASSUME NEW w \in Window, NEW j \in there', <<w, j>> \in rc'.cur
      PROVE  wins'[w] = j /\ j \in rc'.want
  <2>1. j \in there /\ j \in Keys /\ j # k /\ <<w, j>> \in rc.cur
    BY <1>2, <1>5, <1>9 DEF SyncTypes
  <2>2. wins[w] = j /\ j \in rc.want
    BY <1>2, <2>1 DEF Listing, ListedThere
  <2>3. ~(<<w, k>> \in rc.cur)
    BY <2>1, <2>2, Marks DEF Listing, ListedOnce
  <2> QED BY <1>2, <1>6, <2>1, <2>2, <2>3
<1>10. ListedAll'
  BY <1>2, <1>5, <1>6, Marks DEF Listing, ListedAll
<1>11. OneToMark'
  BY <1>2 DEF OneToMark
<1>12. ASSUME NEW j \in there \ {k}, NEW w \in Window, wins[w] = j PROVE wins'[w] = j
  BY <1>6, <1>12, Marks DEF Listing, ListedOnce, SyncTypes
<1>13. k \in there => wins'[v] = k
  BY <1>4, <1>7 DEF Listing, ListedThere
<1> QED BY <1>8, <1>9, <1>10, <1>11, <1>12, <1>13 DEF Listing, ListedThere

LEMMA NewListing ==
  ASSUME SyncTypes, Listing, NEW k \in Keys, New(k)
  PROVE  Listing'
<1>1. \A w \in Window : <<w, k>> \notin rc.cur
  <2>1. \A w \in Window : <<w, k>> \in rc.cur => <<w, k>> \in Listed(k)
    BY DEF Listed
  <2> QED BY <2>1 DEF New
<1>2. k \in rc.want /\ rc.pc = "each" /\ UNCHANGED there
  BY DEF New
<1>3. \A w \in Window : wins[w] # k
  BY <1>1, <1>2 DEF Listing, ListedAll
<1>4. CASE rc' = [rc EXCEPT !.want = @ \ {k}] /\ UNCHANGED wins
  <2>1. rc'.pc = "each" /\ rc'.cur = rc.cur /\ rc'.want = rc.want \ {k}
    BY <1>2, <1>4 DEF SyncTypes, OkRec, Recs
  <2>2. ListedThere'
    BY <1>1, <1>2, <1>4, <2>1 DEF Listing, ListedThere
  <2> QED BY <1>4, <2>1, <2>2, <1>2 DEF Listing, ListedOnce, ListedAll, OneToMark
<1>5. ASSUME NEW w \in Fresh, wins' = [wins EXCEPT ![w] = Unmarked],
             rc' = [rc EXCEPT !.pc = "mark", !.want = @ \ {k}, !.new = w, !.key = k]
      PROVE  Listing'
  <2>1. w \in Window /\ wins[w] = Free /\ \A j \in Keys : <<w, j>> \notin rc.cur
    BY DEF Fresh
  <2>2. /\ rc'.pc = "mark" /\ rc'.cur = rc.cur /\ rc'.want = rc.want \ {k}
        /\ rc'.new = w /\ rc'.key = k
    BY <1>5 DEF SyncTypes, OkRec, Recs
  <2>3. wins'[w] = Unmarked /\ \A v \in Window \ {w} : wins'[v] = wins[v]
    BY <1>5, <2>1 DEF SyncTypes
  <2>4. ListedOnce'
    BY <2>1, <2>2, <2>3 DEF Listing, ListedOnce
  <2>5. ListedThere'
    BY <1>1, <1>2, <2>1, <2>2, <2>3 DEF Listing, ListedThere, SyncTypes
  <2>6. ListedAll'
    BY <1>2, <2>2, <2>3, Marks DEF Listing, ListedAll
  <2>7. OneToMark'
    BY <1>3, <2>1, <2>2, <2>3, Marks DEF OneToMark
  <2> QED BY <2>4, <2>5, <2>6, <2>7 DEF Listing
<1> QED BY <1>4, <1>5 DEF New

\* The window gets its mark, the only one for its session, or does not.
LEMMA MarkListing ==
  ASSUME SyncTypes, Listing, Mark
  PROVE  /\ Listing'
         /\ \A w \in Window : \/ wins'[w] = wins[w]
                              \/ /\ wins[w] = Unmarked /\ wins'[w] = rc.key
                                 /\ \A v \in Window : wins[v] # rc.key
<1>1. /\ rc.pc = "mark" /\ rc.new \in Window /\ rc.key \in Keys \ rc.want
      /\ \A w \in Window : wins[w] # rc.key
      /\ \A k \in Keys : <<rc.new, k>> \notin rc.cur
  BY Marks DEF Mark, SyncTypes, OkRec, Recs, Listing, OneToMark
<1>2. rc'.pc = "each" /\ rc'.cur = rc.cur /\ rc'.want = rc.want /\ UNCHANGED there
  BY DEF Mark, SyncTypes, OkRec, Recs
<1>3. \/ UNCHANGED wins
      \/ /\ wins[rc.new] = Unmarked /\ wins'[rc.new] = rc.key
         /\ \A v \in Window \ {rc.new} : wins'[v] = wins[v]
  BY <1>1 DEF Mark, SyncTypes
<1>4. ListedOnce'
  BY <1>1, <1>2, <1>3 DEF Listing, ListedOnce
<1>5. ListedThere'
  BY <1>1, <1>2, <1>3 DEF Listing, ListedThere, SyncTypes
<1>6. ListedAll'
  BY <1>1, <1>2, <1>3 DEF Listing, ListedAll
<1> QED BY <1>1, <1>2, <1>3, <1>4, <1>5, <1>6 DEF Listing, OneToMark

\* The end of a reconcile closes no window of a session that was there.
LEMMA KillGoneSpares ==
  ASSUME SyncTypes, Listing, KillGone
  PROVE  \A k \in there, w \in Window : wins[w] = k => wins'[w] = k
<1>1. rc.want = {} /\ rc.pc = "each" /\ there \subseteq Keys /\ rc.cur \subseteq Window \X Keys
  BY DEF KillGone, SyncTypes, OkRec, Recs
<1> SUFFICES ASSUME NEW k \in there, NEW w \in Window, wins[w] = k
             PROVE  wins'[w] = k
  OBVIOUS
<1>2. \A j \in Keys : <<w, j>> \notin rc.cur
  BY <1>1, Marks DEF Listing, ListedOnce, ListedThere
<1>3. w \notin {e[1] : e \in rc.cur}
  BY <1>1, <1>2
<1>4. wins[w] # Unmarked
  BY <1>1, Marks
<1>5. PICK ws : /\ ws \subseteq {e[1] : e \in rc.cur} \cup {v \in Window : wins[v] = Unmarked}
                /\ Kill(ws)
  BY Kills DEF KillGone
<1> QED BY <1>3, <1>4, <1>5 DEF Kill

LEMMA SyncListing ==
  ASSUME SyncTypes, ThereIsKeyed, Listing, SyncStep, SyncTypes'
  PROVE  Listing'
<1>1. CASE StreamEnds \/ Subscribe
  BY <1>1, ListingKept DEF StreamEnds, Subscribe
<1>2. CASE SyncCrash
  BY <1>2, RestListing DEF SyncCrash
<1>3. CASE KillGone
  BY <1>3, RestListing DEF KillGone
<1> QED BY <1>1, <1>2, <1>3, CloseListing, LookListing, ReadListing, KeepListing, NewListing,
           MarkListing DEF SyncStep, ReconcileStep

-----------------------------------------------------------------------------
(* What is there, and what a revoked PC may still write. *)

\* Documents disappear together with their sessions in there.
LEMMA ThereKept ==
  ASSUME Types, ThereIsKeyed, [Next]_vars
  PROVE  ThereIsKeyed'
<1>1. CASE ProducerStep
  <2>1. ASSUME NEW k \in Keys, Push(k) PROVE ThereIsKeyed'
    <3>1. prod.ss[k] # Gone
      BY <2>1 DEF Push, Types, PcTypes, OkProd, Keyed
    <3>2. UNCHANGED there /\ (UNCHANGED doc \/ doc' = [doc EXCEPT ![k] = prod.ss[k]])
      BY <2>1 DEF Push
    <3> QED BY <3>1, <3>2 DEF ThereIsKeyed, Keyed, Types, PcTypes, Docs
  <2>2. ASSUME NEW k \in Keys, Delete(k) PROVE ThereIsKeyed'
    BY <2>2 DEF Delete, ThereIsKeyed, Keyed, Types, PcTypes, Docs
  <2>3. CASE Start \/ Register \/ Seed \/ Tick \/ PushParent \/ ProdCrash
    BY <2>3 DEF Start, Register, Seed, Tick, PushParent, ProdCrash, ThereIsKeyed, Keyed
  <2> QED BY <1>1, <2>1, <2>2, <2>3 DEF ProducerStep
<1>2. CASE OwnerStep
  <2>1. CASE DeleteSessions
    BY <2>1 DEF DeleteSessions, ThereIsKeyed, Keyed, Types, PcTypes, Docs
  <2>2. CASE SetRevoked \/ ClearRevoked \/ DeleteParent
    BY <2>2 DEF SetRevoked, ClearRevoked, DeleteParent, ThereIsKeyed, Keyed
  <2> QED BY <1>2, <2>1, <2>2 DEF OwnerStep
<1>3. CASE SyncStep
  <2>1. UNCHANGED doc
    BY <1>3, SyncStepTypes DEF Types, cloudVars
  <2>2. there' \subseteq there \/ there' = Visible
    BY <1>3 DEF SyncStep, ReconcileStep, Abort, StreamEnds, Subscribe, SyncCrash, CloseWindow,
                Look, ReadSessions, Mark, KillGone, Keep, New
  <2> QED BY <2>1, <2>2 DEF ThereIsKeyed, Visible, Keyed
<1>4. CASE StatusChanges \/ UNCHANGED vars
  BY <1>4 DEF StatusChanges, vars, cloudVars, ThereIsKeyed, Keyed
<1> QED BY <1>1, <1>2, <1>3, <1>4, StepCases

LEMMA BlindedKept ==
  ASSUME Types, Blinded, [Next]_vars
  PROVE  Blinded'
<1> USE DEF Types, PcTypes
<1>1. CASE ProducerStep
  <2>1. UNCHANGED revoked
    BY <1>1, ProducerTells
  <2>2. prod.pc \in {"push", "delete"} =>
          \A p : OkProd(p) /\ p.pc \in {"push", "delete"} /\ p.blind = prod.blind
                   /\ prod' = Onward(p) => Blinded'
    BY <2>1, OnwardFits DEF Blinded
  <2>3. CASE Start
    BY <2>1, <2>3 DEF Start, Blinded, OkProd, Prods
  <2>4. CASE Register \/ Seed
    BY <2>4 DEF Register, Seed, Blinded, OkProd, Prods
  <2>5. CASE Tick
    <3>1. PICK ss \in Docs, b \in BOOLEAN : Begin(ss, b) /\ (b = TRUE \/ ~revoked)
      BY <2>5, OffFits DEF Tick
    <3>2. prod'.pc = "tick" \/ prod'.blind = b
      BY <3>1, BeginFits
    <3> QED BY <2>1, <3>1, <3>2 DEF Blinded
  <2>6. CASE PushParent
    <3> DEFINE p == [prod EXCEPT !.pc = "delete"]
    <3>1. OkProd(p) /\ p.pc = "delete" /\ p.blind = prod.blind /\ prod.pc = "push"
          /\ prod' = Onward(p)
      BY <2>6 DEF PushParent, OkProd, Prods
    <3> HIDE DEF p
    <3> QED BY <2>2, <3>1
  <2>7. CASE ProdCrash
    BY <2>7 DEF ProdCrash, Off, Blinded
  <2>8. ASSUME NEW k \in Keys, Push(k) PROVE Blinded'
    <3> DEFINE p == [prod EXCEPT !.todo = @ \ {k}]
               q == [prod EXCEPT !.todo = @ \ {k}, !.changed = TRUE]
               r == [prod EXCEPT !.pc = "delete", !.todo = {}]
    <3>1. prod.pc = "push" /\ (prod' = Onward(p) \/ prod' = q \/ prod' = Onward(r))
      BY <2>8 DEF Push
    <3>2. /\ OkProd(p) /\ p.pc = "push" /\ p.blind = prod.blind
          /\ OkProd(r) /\ r.pc = "delete" /\ r.blind = prod.blind
          /\ q.pc = "push" /\ q.blind = prod.blind
      BY <3>1 DEF OkProd, Prods
    <3> HIDE DEF p, q, r
    <3> QED BY <2>1, <2>2, <3>1, <3>2 DEF Blinded
  <2>9. ASSUME NEW k \in Keys, Delete(k) PROVE Blinded'
    <3> DEFINE p == [prod EXCEPT !.prev = @ \ {k}]
    <3>1. OkProd(p) /\ p.pc = "delete" /\ p.blind = prod.blind /\ prod.pc = "delete"
          /\ prod' = Onward(p)
      BY <2>9 DEF Delete, OkProd, Prods
    <3> HIDE DEF p
    <3> QED BY <2>2, <3>1
  <2> QED BY <1>1, <2>3, <2>4, <2>5, <2>6, <2>7, <2>8, <2>9 DEF ProducerStep
<1>2. CASE OwnerStep
  <2>1. CASE SetRevoked
    BY <2>1 DEF SetRevoked, Blinded, OkProd, Prods
  <2>2. CASE ClearRevoked
    BY <2>2 DEF ClearRevoked, Blinded
  <2>3. CASE DeleteSessions \/ DeleteParent
    BY <2>3 DEF DeleteSessions, DeleteParent, Blinded
  <2> QED BY <1>2, <2>1, <2>2, <2>3 DEF OwnerStep
<1>3. CASE SyncStep
  BY <1>3, SyncStepTypes DEF cloudVars, prodVars, Blinded
<1>4. CASE StatusChanges \/ UNCHANGED vars
  BY <1>4 DEF StatusChanges, vars, cloudVars, prodVars, Blinded
<1> QED BY <1>1, <1>2, <1>3, <1>4, StepCases

-----------------------------------------------------------------------------
(* The invariant, and what follows from it. *)

LEMMA Initial == Init => IInv
<1> SUFFICES ASSUME Init PROVE IInv
  OBVIOUS
<1>1. PcTypes
  <2>1. status \in Docs
    BY DEF Init, Docs
  <2>2. doc \in Docs /\ OkProd(prod) /\ orphans \subseteq Keys
    BY OffFits DEF Init
  <2>3. /\ pcDoc \in BOOLEAN /\ revoked \in BOOLEAN /\ unlisted \in BOOLEAN
        /\ admin \in {"none", "delete", "parent"}
    BY DEF Init
  <2> QED BY <2>1, <2>2, <2>3 DEF PcTypes
<1>2. SyncTypes
  <2>1. wins \in [Window -> Keys \cup {Free, Unmarked}]
    BY DEF Init
  <2>2. sub \in BOOLEAN /\ trigger \in BOOLEAN /\ missed \in BOOLEAN
    BY DEF Init
  <2> QED BY <2>1, <2>2, RestFits DEF Init, SyncTypes
<1>3. Bounds
  <2>1. 0 \in 0 .. MaxChanges /\ 0 \in 0 .. MaxFaults /\ 0 \in 0 .. MaxAdmin
    BY CloudSyncAssumption
  <2> QED BY <2>1 DEF Init, Bounds
<1>4. Listing
  BY DEF Init, Rest, Listing, ListedOnce, ListedThere, ListedAll, OneToMark
<1>5. ThereIsKeyed /\ Blinded
  BY DEF Init, Off, ThereIsKeyed, Blinded
<1> QED BY <1>1, <1>2, <1>3, <1>4, <1>5, TypesAre DEF Types, IInv

LEMMA Step == IInv /\ [Next]_vars => IInv'
<1> SUFFICES ASSUME IInv, [Next]_vars PROVE IInv'
  OBVIOUS
<1>1. Types
  BY TypesAre DEF IInv
<1>2. Types'
  BY <1>1, TypesKept
<1>3. ThereIsKeyed' /\ Blinded'
  BY <1>1, ThereKept, BlindedKept DEF IInv
<1>4. Listing'
  <2>1. CASE StatusChanges \/ UNCHANGED vars
    BY <2>1, ListingKept DEF StatusChanges, vars, IInv
  <2>2. CASE ProducerStep
    BY <1>1, <2>2, ProducerTells, ListingKept DEF Types, IInv
  <2>3. CASE OwnerStep
    BY <1>1, <2>3, OwnerTypes, ListingKept DEF Types, IInv
  <2>4. CASE SyncStep
    BY <1>1, <1>2, <2>4, SyncListing DEF Types, IInv
  <2> QED BY <2>1, <2>2, <2>3, <2>4, StepCases
<1>5. TypeOK'
  BY <1>2 DEF Types, PcTypes, SyncTypes, Bounds, TypeOK, Docs, Prods, Recs, OkProd, OkRec
<1> QED BY <1>3, <1>4, <1>5 DEF IInv

LEMMA Inductive == Spec => []IInv
  BY Initial, Step, PTL DEF Spec

\* The types hold: a window waits for its mark exactly while it has just been
\* created, and no reconcile carries anything over to the next (remotesync.go).
THEOREM CloudSyncTypeOK == Spec => []TypeOK
<1>1. IInv => TypeOK
  BY DEF IInv
<1> QED BY <1>1, Inductive, PTL

\* What a reconcile knows of the windows stays good enough while it runs: what
\* it listed can only have been closed, and a session it has still to deal with
\* has no other windows (ReconcileRemote).
THEOREM ListStaysGood == Spec => [](ListedOnce /\ ListedThere /\ ListedAll /\ OneToMark)
<1>1. IInv => ListedOnce /\ ListedThere /\ ListedAll /\ OneToMark
  BY DEF IInv, Listing
<1> QED BY <1>1, Inductive, PTL

\* No step marks a second window for a session, whatever fails and whoever is
\* killed in between (ReconcileRemote, NewMarkedWindow).
THEOREM NoRunaway == Spec => NoSecondWindow
<1> DEFINE First == \A k \in Keys, w \in Window : wins[w] # k /\ wins'[w] = k => Of(k) = {}
<1>1. IInv /\ [Next]_vars => [First]_vars
  <2> SUFFICES ASSUME IInv, [Next]_vars, NEW k \in Keys, NEW w \in Window,
                      wins[w] # k, wins'[w] = k
               PROVE  Of(k) = {}
    OBVIOUS
  <2>1. PcTypes /\ SyncTypes /\ Listing
    BY TypesAre DEF IInv, Types
  <2>2. wins' # wins
    OBVIOUS
  <2>3. SyncStep
    BY <2>1, <2>2, StepCases, ProducerTells, OwnerTypes DEF StatusChanges, vars
  <2>4. CASE Mark
    BY <2>1, <2>4, MarkListing DEF Of
  <2>5. ASSUME NEW ws, Kill(ws) PROVE FALSE
    BY <2>5, Marks DEF Kill
  <2>6. ASSUME NEW j \in Keys, New(j) PROVE FALSE
    BY <2>1, <2>6, Marks DEF New, SyncTypes
  <2>7. ASSUME NEW j \in Keys, Keep(j) PROVE FALSE
    BY <2>5, <2>7, Kills DEF Keep
  <2>8. CASE KillGone
    BY <2>5, <2>8, Kills DEF KillGone
  <2>9. ASSUME NEW v \in Window, CloseWindow(v) PROVE FALSE
    BY <2>5, <2>9 DEF CloseWindow
  <2>10. ASSUME StreamEnds \/ Subscribe \/ SyncCrash \/ Look \/ ReadSessions PROVE FALSE
    BY <2>2, <2>10 DEF StreamEnds, Subscribe, SyncCrash, Look, ReadSessions
  <2> QED BY <2>3, <2>4, <2>6, <2>7, <2>8, <2>9, <2>10 DEF SyncStep, ReconcileStep
<1> QED BY <1>1, Inductive, PTL DEF Spec, NoSecondWindow

\* A reconcile does not close the only window of a session whose document was
\* there all the while it ran, whatever calls of it failed (ReconcileRemote).
THEOREM ReconcileSpares == Spec => KillsOnlyGone
<1> DEFINE Spares == \A k \in there : rc # rc' /\ Of(k) # {} => \E w \in Window : wins'[w] = k
<1>1. IInv /\ [Next]_vars => [Spares]_vars
  <2> SUFFICES ASSUME IInv, [Next]_vars, NEW k \in there, rc # rc', Of(k) # {}
               PROVE  \E w \in Window : wins'[w] = k
    OBVIOUS
  <2>1. PcTypes /\ SyncTypes /\ Listing /\ k \in Keys
    BY TypesAre DEF IInv, Types, SyncTypes
  <2>2. PICK w \in Window : wins[w] = k
    BY DEF Of
  <2>3. SyncStep
    BY <2>1, StepCases, ProducerTells, OwnerTypes DEF StatusChanges, vars
  <2>4. CASE Mark
    BY <2>1, <2>2, <2>4, Marks, MarkListing
  <2>5. CASE KillGone
    BY <2>1, <2>2, <2>5, KillGoneSpares
  <2>6. ASSUME NEW j \in Keys, Keep(j) PROVE wins'[w] = k \/ \E v \in Window : wins'[v] = k
    BY <2>1, <2>2, <2>6, KeepListing
  <2>7. ASSUME NEW j \in Keys, New(j) PROVE wins'[w] = k
    <3>1. UNCHANGED wins \/ \E v \in Fresh : wins' = [wins EXCEPT ![v] = Unmarked]
      BY <2>7 DEF New
    <3> QED BY <2>1, <2>2, <3>1, Marks DEF Fresh, SyncTypes
  <2>8. ASSUME StreamEnds \/ Subscribe \/ SyncCrash \/ Look \/ ReadSessions
        PROVE  wins'[w] = k
    BY <2>2, <2>8 DEF StreamEnds, Subscribe, SyncCrash, Look, ReadSessions
  <2>9. ASSUME NEW v \in Window, CloseWindow(v) PROVE FALSE
    BY <2>9 DEF CloseWindow
  <2> QED BY <2>2, <2>3, <2>4, <2>5, <2>6, <2>7, <2>8, <2>9 DEF SyncStep, ReconcileStep
<1> QED BY <1>1, Inductive, PTL DEF Spec, KillsOnlyGone

\* What an owner deleted of a revoked PC stays deleted, unless the PC was in
\* the middle of a tick or could not read that it is revoked (runOneCloud).
THEOREM RevokedWritesNothing == Spec => RevokedStaysOut
<1> DEFINE Out == revoked /\ ~prod.blind => Keyed(doc') \subseteq Keyed(doc) /\ (pcDoc' => pcDoc)
<1>1. IInv /\ [Next]_vars => [Out]_vars
  <2> SUFFICES ASSUME IInv, [Next]_vars, revoked, ~prod.blind
               PROVE  Keyed(doc') \subseteq Keyed(doc) /\ (pcDoc' => pcDoc)
    OBVIOUS
  <2>1. prod.pc \notin {"register", "push", "delete"}
    BY DEF IInv, Blinded
  <2>2. PcTypes /\ SyncTypes
    BY TypesAre DEF IInv, Types
  <2>3. ASSUME ProducerStep PROVE UNCHANGED <<doc, pcDoc>>
    BY <2>1, <2>3 DEF ProducerStep, Start, Register, Seed, Tick, PushParent, ProdCrash, Push,
                      Delete
  <2>4. CASE OwnerStep
    <3>1. \/ UNCHANGED doc
          \/ \E ks \in SUBSET Keyed(doc) : doc' = [k \in Keys |-> IF k \in ks THEN Gone ELSE doc[k]]
      BY <2>4 DEF OwnerStep, SetRevoked, ClearRevoked, DeleteSessions, DeleteParent
    <3>2. UNCHANGED pcDoc \/ pcDoc' = FALSE
      BY <2>4 DEF OwnerStep, SetRevoked, ClearRevoked, DeleteSessions, DeleteParent
    <3>3. Keyed(doc') \subseteq Keyed(doc)
      BY <3>1 DEF Keyed
    <3> QED BY <3>2, <3>3
  <2>5. ASSUME SyncStep \/ StatusChanges \/ UNCHANGED vars PROVE UNCHANGED <<doc, pcDoc>>
    BY <2>2, <2>5, SyncStepTypes DEF StatusChanges, vars, cloudVars
  <2>6. CASE UNCHANGED <<doc, pcDoc>>
    BY <2>6 DEF Keyed
  <2> QED BY <2>3, <2>4, <2>5, <2>6, StepCases
<1> QED BY <1>1, Inductive, PTL DEF Spec, RevokedStaysOut

=============================================================================
