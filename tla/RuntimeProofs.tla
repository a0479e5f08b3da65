---------------------------- MODULE RuntimeProofs ----------------------------
(***************************************************************************)
(* What holds of Runtime for every value of its constants.                 *)
(***************************************************************************)
EXTENDS Runtime, SequenceTheorems, TLAPS

Kinds == {"sidecar", "drop", "sweep", "kill"}
Catalog == [datasets : [Dataset -> Def \cup {None}],
            endpoints : [Endpoint -> Ep \cup {None}], auth : {"none", "required"}]

(* A worker's fields fit its state.                                        *)
ShapedWorker ==
  {w \in Worker : /\ w.st # "none" => w.def # None
                  /\ w.st = "resolving" => w.how # None
                  /\ w.st = "building" <=> w.snap # None}

(* TypeOK is not inductive as it stands: a step reads the fields of what   *)
(* its guard implies is there.                                             *)
TypeInv ==
  /\ TypeOK
  /\ worker \in [Dataset -> ShapedWorker]
  /\ todo \subseteq Configured(catalog)
  /\ phase # "boot" => todo = {}

------------------------------------------------------------------------------
(* Values                                                                  *)

LEMMA NoWorkerShaped == NoWorker \in ShapedWorker
  BY DEF NoWorker, ShapedWorker, Worker

LEMMA IdleShaped ==
  ASSUME NEW def \in Def
  PROVE  \A kicks \in Nat : Idle(def, kicks) \in ShapedWorker
<1>1. def # None
  BY NoneAssumption DEF Def
<1>. QED
  BY <1>1 DEF Idle, NoWorker, ShapedWorker, Worker

LEMMA ReadShaped ==
  ASSUME NEW w \in ShapedWorker, w.st = "idle", NEW how \in Path, NEW force \in BOOLEAN,
         NEW kicks \in Nat, NEW seen \in Seen
  PROVE  [w EXCEPT !.st = "resolving", !.how = how, !.force = force, !.kicks = kicks,
                   !.seen = seen] \in ShapedWorker
  BY NoneAssumption DEF ShapedWorker, Worker

(* A kick changes nothing about the worker but what is in its mailbox.     *)
LEMMA KickKeeps ==
  ASSUME NEW w \in ShapedWorker
  PROVE  /\ Kick(w) \in ShapedWorker
         /\ Kick(w).st = w.st /\ Kick(w).def = w.def /\ Kick(w).snap = w.snap
         /\ Kick(w).force = w.force /\ Kick(w).seen = w.seen /\ Kick(w).kicks \in Nat
         /\ w.st = "none" => Kick(w) = w
  BY DEF Kick, ShapedWorker, Worker

LEMMA BuildShaped ==
  ASSUME NEW w \in ShapedWorker, w.st = "resolving", NEW snap \in Snap
  PROVE  [w EXCEPT !.st = "building", !.snap = snap] \in ShapedWorker
<1>1. snap # None
  BY NoneAssumption DEF Snap
<1>. QED
  BY <1>1 DEF ShapedWorker, Worker

LEMMA CallShaped ==
  ASSUME NEW w \in ShapedWorker, w.st \in {"resolving", "building"}
  PROVE  [w EXCEPT !.st = "calling", !.snap = None] \in ShapedWorker
  BY DEF ShapedWorker, Worker

LEMMA WorkerFields ==
  ASSUME NEW w \in ShapedWorker, w.st # "none"
  PROVE  /\ w.def \in Def
         /\ w.st = "resolving" => w.how \in Path
         /\ w.st = "building" => w.snap \in Snap
  BY DEF ShapedWorker, Worker

LEMMA BuiltType ==
  ASSUME NEW id \in SnapshotId, NEW t \in Table, NEW def \in Def, NEW how \in Path
  PROVE  Built(id, t, def, how) \in Snap
  BY DEF Built, Snap, Def

LEMMA SeenInType ==
  ASSUME NEW entry \in Entry
  PROVE  SeenIn(entry) \in Seen
  BY DEF SeenIn, Entry, Snap, Seen

LEMMA EntryType ==
  ASSUME NEW active \in Snap \cup {None}, NEW previous \in Snap \cup {None},
         NEW quarantined \in SnapshotId \cup {None}
  PROVE  [active |-> active, previous |-> previous, quarantined |-> quarantined] \in Entry
  BY DEF Entry

LEMMA NoEntryType == NoEntry \in Entry
  BY DEF NoEntry, Entry

LEMMA TablesType ==
  ASSUME NEW S, S \subseteq Snap \cup {None}
  PROVE  Tables(S) \subseteq Table
  BY DEF Tables, Snap

LEMMA RetireType ==
  ASSUME NEW snap \in Snap \cup {None}, NEW keep
  PROVE  Retire(snap, keep) \subseteq Table
  BY TablesType DEF Retire

LEMMA WriteSidecarType ==
  ASSUME NEW S \in [Dataset -> Entry], NEW left \in SUBSET Kinds,
         sidecar \in [Dataset -> Entry], WriteSidecar(S, left)
  PROVE  sidecar' \in [Dataset -> Entry] /\ failed' \subseteq Kinds
  BY NoEntryType DEF WriteSidecar, Kinds

LEMMA DropType ==
  ASSUME NEW t, db \subseteq Table, failed \subseteq Kinds, Drop(t)
  PROVE  db' \subseteq Table /\ failed' \subseteq Kinds
  BY DEF Drop, Kinds

LEMMA SpendType ==
  ASSUME spent \in [Bounded -> Nat],
         NEW what \in Bounded, Spend(what)
  PROVE  spent' \in [Bounded -> Nat]
  BY DEF Spend

LEMMA MessageType ==
  /\ \A snap \in Snap \cup {None} : [kind |-> "apply", snap |-> snap] \in Message
  /\ \A snap \in Snap \cup {None}, gen \in Nat :
       [kind |-> "staged", gen |-> gen, snap |-> snap] \in Message
  /\ \A m \in Message : /\ m.snap \in Snap \cup {None}
                        /\ m.kind = "staged" => m.gen \in Nat
  BY DEF Message
------------------------------------------------------------------------------
(* Type correctness, action by action                                      *)

LEMMA InitType == Init => TypeInv
  BY NoWorkerShaped, NoEntryType
  DEF Init, TypeInv, TypeOK, NoCatalog, Configured, ShapedWorker

(* What every step below reads of the invariant.                           *)
LEMMA TypeFacts ==
  ASSUME TypeInv
  PROVE  /\ worker \in [Dataset -> ShapedWorker]
         /\ inbox \in [Dataset -> Seq(Message)]
         /\ snapshots \in [Dataset -> Entry]
         /\ sidecar \in [Dataset -> Entry]
         /\ pending \in [Dataset -> Pending \cup {None}]
         /\ catalog \in Catalog
         /\ wanted \in Catalog
         /\ builds \subseteq Build
         /\ db \subseteq Table
         /\ retiring \subseteq Table
         /\ failed \subseteq Kinds
         /\ spent \in [Bounded -> Nat]
  BY DEF TypeInv, TypeOK, Kinds, Catalog

(* A manual refresh, a poll and a kick all begin alike.                    *)
LEMMA RefreshBegins ==
  ASSUME TypeInv, NEW d \in Dataset, Manual(d) \/ Poll(d) \/ RefreshNow(d)
  PROVE  \E how \in Path, force \in BOOLEAN, kicks \in Nat : WorkerRead(d, how, force, kicks)
<1>1. worker[d].kicks \in Nat
  BY TypeFacts DEF ShapedWorker, Worker
<1>2. CASE Manual(d)
  BY <1>1, <1>2 DEF Manual
<1>3. CASE Poll(d) \/ RefreshNow(d)
  <2>1. worker[d].def.path \in Path
    BY <1>3, TypeFacts, WorkerFields DEF Poll, RefreshNow, Def
  <2>2. worker[d].kicks > 0 => worker[d].kicks - 1 \in Nat
    BY <1>1
  <2>. QED
    BY <1>1, <1>3, <2>1, <2>2 DEF Poll, RefreshNow
<1>. QED
  BY <1>2, <1>3

LEMMA ReadEffect ==
  ASSUME TypeInv, NEW d \in Dataset, NEW how \in Path, NEW force \in BOOLEAN,
         NEW kicks \in Nat, WorkerRead(d, how, force, kicks)
  PROVE  /\ worker' \in [Dataset -> ShapedWorker]
         /\ worker'[d].st = "resolving" /\ worker'[d].def = worker[d].def
         /\ worker'[d].snap = worker[d].snap
         /\ \A e \in Dataset \ {d} : worker'[e] = worker[e]
<1>. DEFINE new == [worker[d] EXCEPT !.st = "resolving", !.how = how, !.force = force,
                                     !.kicks = kicks, !.seen = SeenIn(snapshots[d])]
<1>1. worker' = [worker EXCEPT ![d] = new]
  BY DEF WorkerRead
<1>2. new \in ShapedWorker
  BY TypeFacts, SeenInType, ReadShaped DEF WorkerRead
<1>3. worker[d] \in Worker
  BY TypeFacts DEF ShapedWorker
<1>4. new.st = "resolving" /\ new.def = worker[d].def /\ new.snap = worker[d].snap
  BY <1>3 DEF Worker
<1>. HIDE DEF new
<1>. QED
  BY <1>1, <1>2, <1>4, TypeFacts

LEMMA WorkerReadType ==
  ASSUME TypeInv, NEW d \in Dataset, NEW how \in Path, NEW force \in BOOLEAN,
         NEW kicks \in Nat, WorkerRead(d, how, force, kicks)
  PROVE  TypeInv'
<1>1. worker' \in [Dataset -> ShapedWorker]
  BY ReadEffect
<1>. QED
  BY <1>1 DEF TypeInv, TypeOK, WorkerRead, Configured, ShapedWorker

LEMMA CallType ==
  ASSUME TypeInv, NEW d \in Dataset, NEW snap \in Snap \cup {None}, Call(d, snap),
         worker[d].st \in {"resolving", "building"}
  PROVE  /\ worker' \in [Dataset -> ShapedWorker]
         /\ inbox' \in [Dataset -> Seq(Message)]
<1>1. [worker[d] EXCEPT !.st = "calling", !.snap = None] \in ShapedWorker
  BY TypeFacts, CallShaped
<1>2. Append(inbox[d], [kind |-> "apply", snap |-> snap]) \in Seq(Message)
  BY TypeFacts, MessageType
<1>. QED
  BY <1>1, <1>2, TypeFacts DEF Call

LEMMA WorkerSkipType ==
  ASSUME TypeInv, NEW d \in Dataset, WorkerSkip(d)
  PROVE  TypeInv'
<1>1. worker' \in [Dataset -> ShapedWorker] /\ inbox' \in [Dataset -> Seq(Message)]
  BY CallType DEF WorkerSkip
<1>. QED
  BY <1>1 DEF TypeInv, TypeOK, WorkerSkip, Configured, ShapedWorker

LEMMA WorkerBuildType ==
  ASSUME TypeInv, NEW d \in Dataset, WorkerBuild(d)
  PROVE  TypeInv'
<1>1. PICK id \in SnapshotId, t \in Table :
        /\ worker' = [worker EXCEPT ![d] =
             [@ EXCEPT !.st = "building",
                       !.snap = Built(id, t, worker[d].def, worker[d].how)]]
        /\ db' = db \cup {t}
  BY DEF WorkerBuild, Fresh
<1>2. Built(id, t, worker[d].def, worker[d].how) \in Snap
  BY TypeFacts, WorkerFields, BuiltType DEF WorkerBuild
<1>3. [worker[d] EXCEPT !.st = "building",
                        !.snap = Built(id, t, worker[d].def, worker[d].how)]
        \in ShapedWorker
  BY <1>2, TypeFacts, BuildShaped DEF WorkerBuild
<1>4. worker' \in [Dataset -> ShapedWorker] /\ db' \subseteq Table
  BY <1>1, <1>3, TypeFacts
<1>. QED
  BY <1>4 DEF TypeInv, TypeOK, WorkerBuild, Configured, ShapedWorker

LEMMA WorkerBuiltType ==
  ASSUME TypeInv, NEW d \in Dataset, WorkerBuilt(d)
  PROVE  TypeInv'
<1>1. worker[d].snap \in Snap
  BY TypeFacts, WorkerFields DEF WorkerBuilt
<1>2. worker' \in [Dataset -> ShapedWorker] /\ inbox' \in [Dataset -> Seq(Message)]
  BY <1>1, CallType DEF WorkerBuilt
<1>. QED
  BY <1>2 DEF TypeInv, TypeOK, WorkerBuilt, Configured, ShapedWorker

LEMMA WorkerRejectsType ==
  ASSUME TypeInv, NEW d \in Dataset, WorkerRejects(d)
  PROVE  TypeInv'
<1>1. worker' \in [Dataset -> ShapedWorker] /\ inbox' \in [Dataset -> Seq(Message)]
  BY CallType DEF WorkerRejects
<1>2. db' \subseteq Table /\ failed' \subseteq Kinds
  BY TypeFacts, DropType DEF WorkerRejects
<1>. QED
  BY <1>1, <1>2 DEF TypeInv, TypeOK, WorkerRejects, Configured, ShapedWorker, Kinds

LEMMA WorkerDiesType ==
  ASSUME TypeInv, NEW d \in Dataset, WorkerDies(d)
  PROVE  TypeInv'
<1>1. Idle(worker[d].def, 0) \in ShapedWorker
  BY TypeFacts, WorkerFields, IdleShaped DEF WorkerDies
<1>2. worker' \in [Dataset -> ShapedWorker]
  BY <1>1, TypeFacts DEF WorkerDies
<1>3. failed' \subseteq Kinds /\ spent' \in [Bounded -> Nat]
  BY TypeFacts, SpendType DEF WorkerDies, Abandoned, Kinds, Bounded
<1>. QED
  BY <1>2, <1>3 DEF TypeInv, TypeOK, WorkerDies, Configured, ShapedWorker, Kinds

(* The worker whose call is answered is idle then, or as it was but for a  *)
(* kick; nobody else notices.                                              *)
LEMMA AnswerEffect ==
  ASSUME TypeInv, NEW d \in Dataset, NEW w \in {worker[d], Kick(worker[d])}, Applying(d, w)
  PROVE  /\ worker' \in [Dataset -> ShapedWorker]
         /\ worker'[d].def = worker[d].def
         /\ \/ worker'[d] \in {worker[d], Kick(worker[d])}
            \/ worker[d].st = "calling" /\ worker'[d].st = "idle"
         /\ \A e \in Dataset \ {d} : worker'[e] = worker[e]
<1>1. w \in ShapedWorker /\ w.st = worker[d].st /\ w.def = worker[d].def /\ w.kicks \in Nat
  BY TypeFacts, KickKeeps DEF ShapedWorker, Worker
<1>2. w.st = "calling" => /\ Idle(w.def, w.kicks) \in ShapedWorker
                          /\ Idle(w.def, w.kicks).st = "idle"
                          /\ Idle(w.def, w.kicks).def = w.def
  BY <1>1, WorkerFields, IdleShaped DEF Idle, NoWorker
<1>3. PICK new \in {w, Idle(w.def, w.kicks)} :
        /\ worker' = [worker EXCEPT ![d] = new]
        /\ new # w => w.st = "calling"
  BY DEF Applying, Answer
<1>4. worker'[d] = new /\ \A e \in Dataset \ {d} : worker'[e] = worker[e]
  BY <1>3, TypeFacts
<1>. QED
  BY <1>1, <1>2, <1>3, <1>4, TypeFacts

LEMMA ApplyingType ==
  ASSUME TypeInv, NEW d \in Dataset, NEW w \in {worker[d], Kick(worker[d])}, Applying(d, w)
  PROVE  /\ worker' \in [Dataset -> ShapedWorker]
         /\ inbox' \in [Dataset -> Seq(Message)]
         /\ Head(inbox[d]).snap \in Snap \cup {None}
<1>1. Tail(inbox[d]) \in Seq(Message) /\ Head(inbox[d]) \in Message
  BY TypeFacts DEF Applying
<1>. QED
  BY <1>1, AnswerEffect, TypeFacts, MessageType DEF Applying, Answer

LEMMA ApplyUnchangedType ==
  ASSUME TypeInv, NEW d \in Dataset, ApplyUnchanged(d)
  PROVE  TypeInv'
<1>1. worker' \in [Dataset -> ShapedWorker] /\ inbox' \in [Dataset -> Seq(Message)]
  BY ApplyingType DEF ApplyUnchanged
<1>. QED
  BY <1>1 DEF TypeInv, TypeOK, ApplyUnchanged, Applying, Configured, ShapedWorker

LEMMA SwapInType ==
  ASSUME TypeInv, NEW d \in Dataset, NEW snap \in Snap, SwapIn(d, snap)
  PROVE  /\ snapshots' \in [Dataset -> Entry]
         /\ sidecar' \in [Dataset -> Entry]
         /\ failed' \subseteq Kinds
         /\ retiring' \subseteq Table
<1>. DEFINE new == [snapshots EXCEPT ![d] =
                      [active |-> snap, previous |-> snapshots[d].active,
                       quarantined |-> None]]
<1>1. snapshots[d].active \in Snap \cup {None} /\ snapshots[d].previous \in Snap \cup {None}
  BY TypeFacts DEF Entry
<1>2. new \in [Dataset -> Entry]
  BY <1>1, TypeFacts, EntryType
<1>3. snapshots' = new /\ WriteSidecar(new, failed)
  BY DEF SwapIn
<1>. HIDE DEF new
<1>4. retiring' \subseteq Table
  BY <1>1, TypeFacts, RetireType DEF SwapIn
<1>. QED
  BY <1>2, <1>3, <1>4, TypeFacts, WriteSidecarType

LEMMA ApplySwapType ==
  ASSUME TypeInv, NEW d \in Dataset, ApplySwap(d)
  PROVE  TypeInv'
<1>1. worker' \in [Dataset -> ShapedWorker] /\ inbox' \in [Dataset -> Seq(Message)]
  BY ApplyingType DEF ApplySwap
<1>2. Head(inbox[d]).snap \in Snap
  BY ApplyingType DEF ApplySwap
<1>3. /\ snapshots' \in [Dataset -> Entry] /\ sidecar' \in [Dataset -> Entry]
      /\ failed' \subseteq Kinds /\ retiring' \subseteq Table
  BY <1>2, SwapInType DEF ApplySwap
<1>. QED
  BY <1>1, <1>3 DEF TypeInv, TypeOK, ApplySwap, Applying, Configured, ShapedWorker, Kinds

LEMMA ApplyLostType ==
  ASSUME TypeInv, NEW d \in Dataset, ApplyLost(d)
  PROVE  TypeInv'
<1>1. worker' \in [Dataset -> ShapedWorker] /\ inbox' \in [Dataset -> Seq(Message)]
  BY ApplyingType DEF ApplyLost
<1>2. retiring' \subseteq Table
  BY ApplyingType, TypeFacts, RetireType DEF ApplyLost
<1>3. spent' \in [Bounded -> Nat]
  BY TypeFacts, SpendType DEF ApplyLost, Bounded
<1>. QED
  BY <1>1, <1>2, <1>3 DEF TypeInv, TypeOK, ApplyLost, Applying, Configured, ShapedWorker

LEMMA RollbackType ==
  ASSUME TypeInv, NEW d \in Dataset, Rollback(d)
  PROVE  TypeInv'
<1>. DEFINE old == snapshots[d]
            new == [snapshots EXCEPT ![d] =
                      [active |-> old.previous, previous |-> old.active,
                       quarantined |-> IF old.active = None THEN None ELSE old.active.id]]
<1>1. /\ old.active \in Snap \cup {None} /\ old.previous \in Snap \cup {None}
      /\ (IF old.active = None THEN None ELSE old.active.id) \in SnapshotId \cup {None}
  BY TypeFacts DEF Entry, Snap
<1>2. new \in [Dataset -> Entry]
  BY <1>1, TypeFacts, EntryType
<1>3. snapshots' = new /\ WriteSidecar(new, failed)
  BY DEF Rollback
<1>. HIDE DEF new
<1>4. sidecar' \in [Dataset -> Entry] /\ failed' \subseteq Kinds
  BY <1>2, <1>3, TypeFacts, WriteSidecarType
<1>. QED
  BY <1>2, <1>3, <1>4 DEF TypeInv, TypeOK, Rollback, Configured, ShapedWorker, Kinds

LEMMA ConfigType ==
  ASSUME NEW c \in Configs
  PROVE  c \in Catalog
  BY ConstantsAssumption DEF IsConfig, Catalog, Def, Ep

LEMMA ServedAuthType ==
  ASSUME NEW auth \in {"none", "required"}, NEW endpoints
  PROVE  ServedAuth(auth, endpoints) \in {"none", "required"}
  BY DEF ServedAuth

LEMMA OverlayType ==
  ASSUME NEW c \in Catalog, NEW pend, catalog \in Catalog
  PROVE  Overlay(c, pend) \in Catalog
<1>. DEFINE waits(ep) == ep # None /\ pend[ep.dataset] # None
            eps == [e \in Endpoint |->
                      IF waits(catalog.endpoints[e]) THEN catalog.endpoints[e]
                      ELSE IF waits(c.endpoints[e]) THEN None ELSE c.endpoints[e]]
            datasets == [d \in Dataset |-> IF pend[d] # None THEN catalog.datasets[d]
                                           ELSE c.datasets[d]]
<1>1. eps \in [Endpoint -> Ep \cup {None}]
  BY DEF Catalog
<1>2. datasets \in [Dataset -> Def \cup {None}]
  BY DEF Catalog
<1>3. ServedAuth(c.auth, eps) \in {"none", "required"}
  BY ServedAuthType DEF Catalog
<1>4. Overlay(c, pend) = [datasets |-> datasets, endpoints |-> eps,
                          auth |-> ServedAuth(c.auth, eps)]
  BY DEF Overlay
<1>. QED
  BY <1>1, <1>2, <1>3, <1>4 DEF Catalog

LEMMA RestagedPending ==
  ASSUME TypeInv, NEW c \in Catalog, NEW d \in Restaged(c)
  PROVE  /\ d \in Dataset
         /\ PendingAfter(c)[d] \in Pending
<1>1. /\ d \in Dataset /\ c.datasets[d] \in Def
      /\ d \notin Removed(c) \cup InPlace(c)
  BY DEF Restaged, Staged, Touched, Configured, Catalog, Removed, InPlace
<1>2. PendingAfter(c)[d] = [gen |-> stageGen[d] + 1, def |-> c.datasets[d],
                            endpoints |-> EndpointsOf(c, d)]
  BY <1>1 DEF PendingAfter
<1>3. EndpointsOf(c, d) \in [Endpoint -> Ep \cup {None}]
  BY DEF EndpointsOf, Catalog
<1>4. stageGen[d] + 1 \in Nat
  BY <1>1 DEF TypeInv, TypeOK
<1>. QED
  BY <1>1, <1>2, <1>3, <1>4 DEF Pending

LEMMA PendingAfterType ==
  ASSUME TypeInv, NEW c \in Catalog
  PROVE  PendingAfter(c) \in [Dataset -> Pending \cup {None}]
<1>1. ASSUME NEW d \in Dataset
      PROVE  PendingAfter(c)[d] \in Pending \cup {None}
  <2>1. CASE d \in Restaged(c)
    BY <2>1, RestagedPending
  <2>2. CASE d \notin Restaged(c)
    BY <2>2, TypeFacts DEF PendingAfter
  <2>. QED
    BY <2>1, <2>2
<1>2. PendingAfter(c) = [d \in Dataset |-> PendingAfter(c)[d]]
  BY DEF PendingAfter
<1>. QED
  BY <1>1, <1>2

LEMMA ReloadType ==
  ASSUME TypeInv, NEW c \in Configs, Reload(c)
  PROVE  TypeInv'
<1>. DEFINE pend == PendingAfter(c)
            left == Abandoned(Removed(c) \cup Restaged(c) \cup InPlace(c))
<1>1. c \in Catalog
  BY ConfigType
<1>2. pending' \in [Dataset -> Pending \cup {None}]
  BY <1>1, PendingAfterType DEF Reload
<1>3. stageGen' \in [Dataset -> Nat]
  BY DEF Reload, TypeInv, TypeOK
<1>4. builds' \subseteq Build /\ db' \subseteq Table
  <2>1. PICK table \in [Restaged(c) -> Fresh] :
          /\ builds' = builds \cup
               {[dataset |-> d, gen |-> pend[d].gen, def |-> pend[d].def,
                 table |-> table[d]] : d \in Restaged(c)}
          /\ db' = db \cup {table[d] : d \in Restaged(c)}
    BY DEF Reload
  <2>2. ASSUME NEW d \in Restaged(c)
        PROVE  /\ [dataset |-> d, gen |-> pend[d].gen, def |-> pend[d].def,
                   table |-> table[d]] \in Build
               /\ table[d] \in Table
    <3>1. d \in Dataset /\ pend[d] \in Pending
      BY <1>1, RestagedPending
    <3>2. table[d] \in Table
      BY DEF Fresh
    <3>. QED
      BY <3>1, <3>2 DEF Build, Pending
  <2>. QED
    BY <2>1, <2>2, TypeFacts
<1>5. worker' \in [Dataset -> ShapedWorker]
  <2>1. ASSUME NEW d \in InPlace(c) \cup Added(c)
        PROVE  Idle(c.datasets[d], 1) \in ShapedWorker
    <3>1. c.datasets[d] \in Def
      BY <1>1 DEF InPlace, Added, Touched, Configured, Catalog
    <3>. QED
      BY <3>1, IdleShaped
  <2>. QED
    BY <2>1, TypeFacts, NoWorkerShaped DEF Reload, WorkersAfter
<1>6. snapshots' \in [Dataset -> Entry]
  BY TypeFacts, NoEntryType DEF Reload, Remaining
<1>7. sidecar' \in [Dataset -> Entry] /\ failed' \subseteq Kinds
  <2>1. left \in SUBSET Kinds
    BY TypeFacts DEF Abandoned, Kinds
  <2>2. Remaining(c) \in [Dataset -> Entry]
    BY TypeFacts, NoEntryType DEF Remaining
  <2>. QED
    BY <2>1, <2>2, TypeFacts, WriteSidecarType DEF Reload
<1>8. retiring' \subseteq Table
  <2>1. ASSUME NEW d \in Removed(c)
        PROVE  Kept(d) \subseteq Table
    <3>1. snapshots[d] \in Entry
      BY TypeFacts DEF Removed, Configured
    <3>2. {snapshots[d].active, snapshots[d].previous} \subseteq Snap \cup {None}
      BY <3>1 DEF Entry
    <3>. QED
      BY <3>2, TablesType DEF Kept
  <2>. QED
    BY <2>1, TypeFacts DEF Reload
<1>9. catalog' \in Catalog /\ wanted' \in Catalog
  BY <1>1, TypeFacts, OverlayType DEF Reload
<1>10. spent' \in [Bounded -> Nat]
  BY TypeFacts, SpendType DEF Reload, Bounded
<1>. QED
  BY <1>2, <1>3, <1>4, <1>5, <1>6, <1>7, <1>8, <1>9, <1>10
  DEF TypeInv, TypeOK, Reload, Configured, ShapedWorker, Kinds, Catalog

LEMMA StagedType ==
  ASSUME TypeInv, NEW b \in builds, NEW snap \in Snap \cup {None}
  PROVE  /\ b.dataset \in Dataset /\ b.gen \in Nat
         /\ [inbox EXCEPT ![b.dataset] =
               Append(@, [kind |-> "staged", gen |-> b.gen, snap |-> snap])]
              \in [Dataset -> Seq(Message)]
<1>1. b.dataset \in Dataset /\ b.gen \in Nat
  BY TypeFacts DEF Build
<1>2. [kind |-> "staged", gen |-> b.gen, snap |-> snap] \in Message
  BY <1>1, MessageType
<1>. QED
  BY <1>1, <1>2, TypeFacts

LEMMA StageOkType ==
  ASSUME TypeInv, NEW b \in builds, StageOk(b)
  PROVE  TypeInv'
<1>1. PICK id \in SnapshotId :
        inbox' = [inbox EXCEPT ![b.dataset] =
          Append(@, [kind |-> "staged", gen |-> b.gen,
                     snap |-> Built(id, b.table, b.def, b.def.path)])]
  BY DEF StageOk
<1>2. Built(id, b.table, b.def, b.def.path) \in Snap
  BY TypeFacts, BuiltType DEF Build, Def
<1>3. inbox' \in [Dataset -> Seq(Message)]
  BY <1>1, <1>2, StagedType
<1>. QED
  BY <1>3 DEF TypeInv, TypeOK, StageOk, Configured, ShapedWorker

LEMMA StageRejectsType ==
  ASSUME TypeInv, NEW b \in builds, StageRejects(b)
  PROVE  TypeInv'
<1>1. inbox' \in [Dataset -> Seq(Message)]
  BY StagedType DEF StageRejects, StageNothing
<1>2. db' \subseteq Table /\ failed' \subseteq Kinds
  BY TypeFacts, DropType DEF StageRejects
<1>. QED
  BY <1>1, <1>2
  DEF TypeInv, TypeOK, StageRejects, StageNothing, Configured, ShapedWorker, Kinds

LEMMA StageDiesType ==
  ASSUME TypeInv, NEW b \in builds, StageDies(b)
  PROVE  TypeInv'
<1>1. inbox' \in [Dataset -> Seq(Message)]
  BY StagedType DEF StageDies, StageNothing
<1>2. spent' \in [Bounded -> Nat]
  BY TypeFacts, SpendType DEF StageDies, Bounded
<1>. QED
  BY <1>1, <1>2 DEF TypeInv, TypeOK, StageDies, StageNothing, Configured, ShapedWorker

LEMMA DeliveringType ==
  ASSUME TypeInv, NEW d \in Dataset, Delivering(d)
  PROVE  /\ inbox' \in [Dataset -> Seq(Message)]
         /\ Head(inbox[d]).snap \in Snap \cup {None}
         /\ Head(inbox[d]).gen \in Nat
<1>1. Tail(inbox[d]) \in Seq(Message) /\ Head(inbox[d]) \in Message
  BY TypeFacts DEF Delivering
<1>. QED
  BY <1>1, TypeFacts, MessageType DEF Delivering

LEMMA CutoverType ==
  ASSUME TypeInv, NEW d \in Dataset, Cutover(d)
  PROVE  TypeInv'
<1>. DEFINE snap == Head(inbox[d]).snap
            new == [snapshots EXCEPT ![d] = Promoted(d, snap)]
<1>1. inbox' \in [Dataset -> Seq(Message)] /\ snap \in Snap
  BY DeliveringType DEF Cutover, Lands
<1>2. pending[d] \in Pending
  BY TypeFacts DEF Cutover, Lands, Current
<1>3. pending' \in [Dataset -> Pending \cup {None}]
  BY TypeFacts DEF Cutover
<1>4. catalog' \in Catalog
  <2>1. EndpointsAfter(d) \in [Endpoint -> Ep \cup {None}]
    BY <1>2, TypeFacts DEF EndpointsAfter, Pending, Catalog
  <2>2. [catalog.datasets EXCEPT ![d] = pending[d].def] \in [Dataset -> Def \cup {None}]
    BY <1>2, TypeFacts DEF Pending, Catalog
  <2>3. ServedAuth(wanted.auth, EndpointsAfter(d)) \in {"none", "required"}
    BY TypeFacts, ServedAuthType DEF Catalog
  <2>. QED
    BY <2>1, <2>2, <2>3 DEF Cutover, Catalog
<1>5. new \in [Dataset -> Entry]
  BY <1>1, TypeFacts, EntryType DEF Promoted
<1>6. snapshots' = new /\ WriteSidecar(new, failed)
  BY DEF Cutover
<1>. HIDE DEF new
<1>7. sidecar' \in [Dataset -> Entry] /\ failed' \subseteq Kinds
  BY <1>5, <1>6, TypeFacts, WriteSidecarType
<1>8. retiring' \subseteq Table
  BY TypeFacts, RetireType DEF Cutover, Entry
<1>9. worker' \in [Dataset -> ShapedWorker]
  BY <1>2, TypeFacts, IdleShaped DEF Cutover, Pending
<1>. QED
  BY <1>1, <1>3, <1>4, <1>5, <1>6, <1>7, <1>8, <1>9
  DEF TypeInv, TypeOK, Cutover, Delivering, Configured, ShapedWorker, Kinds, Catalog

LEMMA StageNotReadyType ==
  ASSUME TypeInv, NEW d \in Dataset, StageNotReady(d)
  PROVE  TypeInv'
<1>1. inbox' \in [Dataset -> Seq(Message)] /\ Head(inbox[d]).gen \in Nat
  BY DeliveringType DEF StageNotReady
<1>2. retiring' \subseteq Table
  BY DeliveringType, TypeFacts, RetireType DEF StageNotReady
<1>3. retries' \subseteq [dataset : Dataset, gen : Nat]
  BY <1>1 DEF StageNotReady, TypeInv, TypeOK
<1>. QED
  BY <1>1, <1>2, <1>3
  DEF TypeInv, TypeOK, StageNotReady, Delivering, Configured, ShapedWorker

LEMMA StageSupersededType ==
  ASSUME TypeInv, NEW d \in Dataset, StageSuperseded(d)
  PROVE  TypeInv'
<1>1. inbox' \in [Dataset -> Seq(Message)]
  BY DeliveringType DEF StageSuperseded
<1>2. retiring' \subseteq Table
  BY DeliveringType, TypeFacts, RetireType DEF StageSuperseded
<1>. QED
  BY <1>1, <1>2
  DEF TypeInv, TypeOK, StageSuperseded, Delivering, Configured, ShapedWorker

LEMMA RetryStageType ==
  ASSUME TypeInv, NEW r \in retries, RetryStage(r)
  PROVE  TypeInv'
<1>1. r.dataset \in Dataset /\ r.gen \in Nat
  BY DEF TypeInv, TypeOK
<1>2. builds' \subseteq Build /\ db' \subseteq Table
  <2>1. CASE Current(r.dataset, r.gen)
    <3>1. PICK t \in Table :
            /\ builds' = builds \cup {[dataset |-> r.dataset, gen |-> r.gen,
                                       def |-> pending[r.dataset].def, table |-> t]}
            /\ db' = db \cup {t}
      BY <2>1 DEF RetryStage, Fresh
    <3>2. pending[r.dataset] \in Pending
      BY <1>1, <2>1, TypeFacts DEF Current
    <3>3. [dataset |-> r.dataset, gen |-> r.gen, def |-> pending[r.dataset].def,
           table |-> t] \in Build
      BY <1>1, <3>2 DEF Build, Pending
    <3>. QED
      BY <3>1, <3>3, TypeFacts
  <2>2. CASE ~Current(r.dataset, r.gen)
    BY <2>2, TypeFacts DEF RetryStage
  <2>. QED
    BY <2>1, <2>2
<1>. QED
  BY <1>2 DEF TypeInv, TypeOK, RetryStage, Configured, ShapedWorker

LEMMA EngineDropType ==
  ASSUME TypeInv, NEW t \in retiring, EngineDrop(t)
  PROVE  TypeInv'
<1>1. db' \subseteq Table /\ failed' \subseteq Kinds
  BY TypeFacts, DropType DEF EngineDrop
<1>. QED
  BY <1>1 DEF TypeInv, TypeOK, EngineDrop, Configured, ShapedWorker, Kinds

LEMMA CrashType ==
  ASSUME TypeInv, Crash
  PROVE  TypeInv'
<1>1. spent' \in [Bounded -> Nat]
  BY TypeFacts, SpendType DEF Crash, Bounded
<1>. QED
  BY <1>1, NoWorkerShaped, NoEntryType
  DEF TypeInv, TypeOK, Crash, NoCatalog, Configured, ShapedWorker

LEMMA SeededType ==
  ASSUME TypeInv, NEW c, NEW d \in Dataset
  PROVE  Seeded(c, d) \in Entry
<1>1. sidecar[d] \in Entry
  BY TypeFacts
<1>2. [sidecar[d] EXCEPT !.previous = None] \in Entry
  BY <1>1 DEF Entry
<1>. QED
  BY <1>1, <1>2, NoEntryType DEF Seeded

LEMMA BootType ==
  ASSUME TypeInv, NEW c \in Configs, Boot(c)
  PROVE  TypeInv'
<1>1. catalog' \in Catalog /\ wanted' \in Catalog
  BY ConfigType DEF Boot
<1>2. snapshots' \in [Dataset -> Entry]
  BY SeededType DEF Boot
<1>. QED
  BY <1>1, <1>2 DEF TypeInv, TypeOK, Boot, Configured, ShapedWorker, Catalog

LEMMA BootRefreshType ==
  ASSUME TypeInv, NEW d \in Dataset, BootRefresh(d)
  PROVE  TypeInv'
<1>1. catalog.datasets[d] \in Def
  BY DEF BootRefresh, TypeInv, TypeOK, Configured
<1>2. PICK id \in SnapshotId, t \in Table :
        /\ SwapIn(d, Built(id, t, catalog.datasets[d], catalog.datasets[d].path))
        /\ db' = db \cup {t}
  BY DEF BootRefresh, Fresh
<1>3. Built(id, t, catalog.datasets[d], catalog.datasets[d].path) \in Snap
  BY <1>1, BuiltType DEF Def
<1>4. /\ snapshots' \in [Dataset -> Entry] /\ sidecar' \in [Dataset -> Entry]
      /\ failed' \subseteq Kinds /\ retiring' \subseteq Table
  BY <1>2, <1>3, SwapInType
<1>5. db' \subseteq Table
  BY <1>2, TypeFacts
<1>. QED
  BY <1>4, <1>5 DEF TypeInv, TypeOK, BootRefresh, Configured, ShapedWorker, Kinds

LEMMA BootSkipType ==
  ASSUME TypeInv, NEW d \in Dataset, BootSkip(d)
  PROVE  TypeInv'
  BY DEF TypeInv, TypeOK, BootSkip, Configured, ShapedWorker

LEMMA BootFinishType ==
  ASSUME TypeInv, BootFinish
  PROVE  TypeInv'
<1>1. worker' \in [Dataset -> ShapedWorker]
  <2>1. \A d \in Dataset : catalog.datasets[d] # None =>
                             Idle(catalog.datasets[d], 0) \in ShapedWorker
    BY TypeFacts, IdleShaped DEF Catalog
  <2>. QED
    BY <2>1, NoWorkerShaped DEF BootFinish, Started
<1>2. db' \subseteq Table /\ failed' \subseteq Kinds
  BY TypeFacts DEF BootFinish, Kinds
<1>. QED
  BY <1>1, <1>2 DEF TypeInv, TypeOK, BootFinish, Configured, ShapedWorker, Kinds

LEMMA NextType == TypeInv /\ [Next]_vars => TypeInv'
<1>. SUFFICES ASSUME TypeInv, [Next]_vars PROVE TypeInv'
  OBVIOUS
<1>1. ASSUME NEW d \in Dataset, WorkerStep(d) PROVE TypeInv'
  BY <1>1, RefreshBegins, WorkerReadType, WorkerSkipType, WorkerBuildType, WorkerBuiltType,
     WorkerRejectsType, WorkerDiesType DEF WorkerStep
<1>2. ASSUME NEW d \in Dataset, Handle(d) PROVE TypeInv'
  BY <1>2, ApplyUnchangedType, ApplySwapType, ApplyLostType, CutoverType,
     StageNotReadyType, StageSupersededType DEF Handle
<1>3. ASSUME NEW d \in Dataset, Rollback(d) \/ BootRefresh(d) \/ BootSkip(d) PROVE TypeInv'
  BY <1>3, RollbackType, BootRefreshType, BootSkipType
<1>4. ASSUME NEW c \in Configs, Reload(c) \/ Boot(c) PROVE TypeInv'
  BY <1>4, ReloadType, BootType
<1>5. ASSUME NEW b \in builds, Stage(b) PROVE TypeInv'
  BY <1>5, StageOkType, StageRejectsType, StageDiesType DEF Stage
<1>6. ASSUME NEW r \in retries, RetryStage(r) PROVE TypeInv'
  BY <1>6, RetryStageType
<1>7. ASSUME NEW t \in retiring, EngineDrop(t) PROVE TypeInv'
  BY <1>7, EngineDropType
<1>8. ASSUME Crash \/ BootFinish PROVE TypeInv'
  BY <1>8, CrashType, BootFinishType
<1>9. CASE UNCHANGED vars
  BY <1>9 DEF TypeInv, TypeOK, vars, Configured, ShapedWorker
<1>. QED
  BY <1>1, <1>2, <1>3, <1>4, <1>5, <1>6, <1>7, <1>8, <1>9 DEF Next

(* Every variable always holds a value of its kind, and what a handler     *)
(* reads without looking is there: a worker's definition, the source it    *)
(* resolves, the table it builds.                                          *)
THEOREM TypeInvariant == Spec => []TypeInv
  BY InitType, NextType, PTL DEF Spec

(* In particular the type invariant that the runs check.                   *)
THEOREM TypeCorrect == Spec => []TypeOK
<1>1. TypeInv => TypeOK
  BY DEF TypeInv
<1>. QED
  BY <1>1, TypeInvariant, PTL

------------------------------------------------------------------------------
(* Fail closed                                                             *)

LEMMA ServedAuthCloses ==
  ASSUME NEW auth, NEW endpoints, ServedAuth(auth, endpoints) = "none"
  PROVE  \A e \in Endpoint : endpoints[e] # None => endpoints[e].contract \notin Tenanted
  BY DEF ServedAuth

LEMMA FailClosedStep == FailClosed /\ [Next]_vars => FailClosed'
<1>. SUFFICES ASSUME FailClosed, [Next]_vars PROVE FailClosed'
  OBVIOUS
<1>1. ASSUME UNCHANGED catalog PROVE FailClosed'
  BY <1>1 DEF FailClosed
<1>2. ASSUME NEW c \in Configs, Reload(c) PROVE FailClosed'
  <2>1. /\ catalog' = Overlay(c, PendingAfter(c))
        /\ catalog'.auth = ServedAuth(c.auth, catalog'.endpoints)
    BY <1>2 DEF Reload, Overlay
  <2>. QED
    BY <2>1, ServedAuthCloses DEF FailClosed
<1>3. ASSUME NEW d \in Dataset, Cutover(d) PROVE FailClosed'
  <2>1. catalog'.auth = ServedAuth(wanted.auth, catalog'.endpoints)
    BY <1>3 DEF Cutover
  <2>. QED
    BY <2>1, ServedAuthCloses DEF FailClosed
<1>4. ASSUME NEW c \in Configs, Boot(c) PROVE FailClosed'
  <2>1. IsConfig(c) /\ catalog' = c
    BY <1>4, ConstantsAssumption DEF Boot
  <2>. QED
    BY <2>1 DEF IsConfig, FailClosed
<1>5. CASE Crash
  BY <1>5 DEF Crash, NoCatalog, FailClosed
<1>6. ASSUME NEW d \in Dataset, WorkerStep(d) PROVE UNCHANGED catalog
  BY <1>6 DEF WorkerStep, Manual, Poll, RefreshNow, WorkerRead, WorkerSkip, WorkerBuild, WorkerBuilt, WorkerRejects,
              WorkerDies
<1>7. ASSUME NEW d \in Dataset, Handle(d), ~Cutover(d) PROVE UNCHANGED catalog
  BY <1>7 DEF Handle, ApplyUnchanged, ApplySwap, ApplyLost, Applying, StageNotReady,
              StageSuperseded
<1>8. ASSUME NEW d \in Dataset, Rollback(d) \/ BootRefresh(d) \/ BootSkip(d)
      PROVE  UNCHANGED catalog
  BY <1>8 DEF Rollback, BootRefresh, BootSkip
<1>9. ASSUME NEW b \in builds, Stage(b) PROVE UNCHANGED catalog
  BY <1>9 DEF Stage, StageOk, StageRejects, StageDies, StageNothing
<1>10. ASSUME NEW r \in retries, RetryStage(r) PROVE UNCHANGED catalog
  BY <1>10 DEF RetryStage
<1>11. ASSUME NEW t \in retiring, EngineDrop(t) PROVE UNCHANGED catalog
  BY <1>11 DEF EngineDrop
<1>12. CASE BootFinish
  BY <1>12, <1>1 DEF BootFinish
<1>13. CASE UNCHANGED vars
  BY <1>13, <1>1 DEF vars
<1>. QED
  BY <1>1, <1>2, <1>3, <1>4, <1>5, <1>6, <1>7, <1>8, <1>9, <1>10, <1>11, <1>12, <1>13
  DEF Next

(* Whatever configs are published and however their schema cutovers        *)
(* interleave with reloads, crashes and boots, no catalog ever serves a    *)
(* tenant-scoped endpoint without authentication (republish).              *)
THEOREM NeverOpen == Spec => []FailClosed
<1>1. Init => FailClosed
  BY DEF Init, NoCatalog, FailClosed
<1>. QED
  BY <1>1, FailClosedStep, PTL DEF Spec

------------------------------------------------------------------------------
(* What a cutover suspends                                                 *)

(* A dataset mid cutover is one that serves, in a runtime that is up, and  *)
(* its refresh worker is gone ("freeze the old worker", stage_one).        *)
FrozenInv ==
  \A d \in Dataset : pending[d] # None =>
    phase = "up" /\ worker[d] = NoWorker /\ d \in Configured(catalog)

(* What a reload leaves pending: it goes on, begins again, or is over.     *)
LEMMA ReloadPending ==
  ASSUME TypeInv, FrozenInv, NEW c \in Configs, Reload(c), NEW d \in Dataset, pending'[d] # None
  PROVE  /\ d \in Configured(catalog) \cap Configured(c) /\ d \in Staged(c)
         /\ d \notin Removed(c) \cup InPlace(c) \cup Added(c)
         /\ catalog'.datasets[d] = catalog.datasets[d]
         /\ worker'[d] = NoWorker
         /\ \/ /\ d \in Restaged(c)
               /\ pending'[d] = [gen |-> stageGen[d] + 1, def |-> c.datasets[d],
                                 endpoints |-> EndpointsOf(c, d)]
            \/ d \notin Restaged(c) /\ pending'[d] = pending[d] /\ pending[d].def = c.datasets[d]
<1>1. pending'[d] = PendingAfter(c)[d]
  BY DEF Reload
<1>2. d \notin Removed(c) \cup InPlace(c)
  BY <1>1 DEF PendingAfter
<1>3. d \in Restaged(c) \/ pending[d] # None
  BY <1>1, <1>2 DEF PendingAfter
<1>4. d \in Staged(c) /\ d \in Configured(catalog) \cap Configured(c) /\ d \notin Added(c)
  <2>1. CASE d \in Restaged(c)
    BY <2>1 DEF Restaged, Staged, Touched, Added
  <2>2. CASE pending[d] # None
    <3>1. d \in Configured(catalog)
      BY <2>2 DEF FrozenInv
    <3>. QED
      BY <2>2, <3>1, <1>2 DEF Removed, Configured, Touched, InPlace, Added
  <2>. QED
    BY <1>3, <2>1, <2>2
<1>5. catalog'.datasets[d] = catalog.datasets[d]
  BY <1>1 DEF Reload, Overlay
<1>6. worker'[d] = NoWorker
  BY <1>2, <1>3, <1>4 DEF Reload, WorkersAfter, FrozenInv
<1>7. d \in Restaged(c) => pending'[d] = [gen |-> stageGen[d] + 1, def |-> c.datasets[d],
                                          endpoints |-> EndpointsOf(c, d)]
  BY <1>1, <1>2 DEF PendingAfter
<1>8. d \notin Restaged(c) => pending'[d] = pending[d] /\ pending[d].def = c.datasets[d]
  BY <1>1, <1>2, <1>3, <1>4 DEF PendingAfter, Restaged
<1>. QED
  BY <1>2, <1>4, <1>5, <1>6, <1>7, <1>8

LEMMA FrozenStep == TypeInv /\ FrozenInv /\ [Next]_vars => FrozenInv'
<1>. SUFFICES ASSUME TypeInv, FrozenInv, [Next]_vars PROVE FrozenInv'
  OBVIOUS
<1>0. ASSUME UNCHANGED <<phase, pending, catalog>>,
             \A d \in Dataset : worker[d] = NoWorker => worker'[d] = NoWorker
      PROVE  FrozenInv'
  BY <1>0 DEF FrozenInv, Configured
<1>1. ASSUME NEW d \in Dataset, WorkerStep(d) PROVE FrozenInv'
  <2>1. worker[d].st # "none" /\ UNCHANGED <<phase, pending, catalog>>
        /\ \A e \in Dataset \ {d} : worker'[e] = worker[e]
    BY <1>1, TypeFacts DEF WorkerStep, Manual, Poll, RefreshNow, WorkerRead, WorkerSkip, WorkerBuild, WorkerBuilt, WorkerRejects,
       WorkerDies, Call
  <2>2. worker[d] # NoWorker
    BY <2>1 DEF NoWorker
  <2>. QED
    BY <1>0, <2>1, <2>2
<1>2. ASSUME NEW d \in Dataset, NEW w \in {worker[d], Kick(worker[d])}, Applying(d, w)
      PROVE  FrozenInv'
  <2>1. UNCHANGED <<phase, pending, catalog>>
    BY <1>2 DEF Applying
  <2>2. \A e \in Dataset : worker[e] = NoWorker => worker'[e] = NoWorker
    <3>1. worker[d] = NoWorker => worker[d].st = "none"
      BY DEF NoWorker
    <3>2. worker[d].st = "none" => Kick(worker[d]) = worker[d]
      BY TypeFacts, KickKeeps
    <3>3. worker[d].st = "none" => worker'[d] = worker[d]
      BY <1>2, <3>2, AnswerEffect
    <3>. QED
      BY <1>2, <3>1, <3>3, AnswerEffect
  <2>. QED
    BY <1>0, <2>1, <2>2
<1>3. ASSUME NEW d \in Dataset, Cutover(d) PROVE FrozenInv'
  <2>1. /\ \A e \in Dataset \ {d} : pending'[e] = pending[e] /\ worker'[e] = worker[e]
                                    /\ catalog'.datasets[e] = catalog.datasets[e]
        /\ phase' = phase /\ pending'[d] = None
    BY <1>3, TypeFacts DEF Cutover, Delivering, Catalog
  <2>. QED
    BY <2>1 DEF FrozenInv, Configured
<1>4. ASSUME NEW d \in Dataset, StageNotReady(d) \/ StageSuperseded(d) PROVE FrozenInv'
  BY <1>4, <1>0 DEF StageNotReady, StageSuperseded, Delivering
<1>5. ASSUME NEW d \in Dataset, Rollback(d) \/ BootRefresh(d) \/ BootSkip(d) PROVE FrozenInv'
  BY <1>5, <1>0 DEF Rollback, BootRefresh, BootSkip
<1>6. ASSUME NEW c \in Configs, Reload(c) PROVE FrozenInv'
  <2>1. phase' = "up"
    BY <1>6 DEF Reload
  <2>2. ASSUME NEW d \in Dataset, pending'[d] # None
        PROVE  worker'[d] = NoWorker /\ catalog'.datasets[d] # None
    BY <1>6, <2>2, ReloadPending DEF Configured
  <2>. QED
    BY <2>1, <2>2 DEF FrozenInv, Configured
<1>7. ASSUME NEW c \in Configs, Boot(c) PROVE FrozenInv'
  BY <1>7 DEF Boot, FrozenInv
<1>8. ASSUME NEW b \in builds, Stage(b) PROVE FrozenInv'
  BY <1>8, <1>0 DEF Stage, StageOk, StageRejects, StageDies, StageNothing
<1>9. ASSUME NEW r \in retries, RetryStage(r) PROVE FrozenInv'
  BY <1>9, <1>0 DEF RetryStage
<1>10. ASSUME NEW t \in retiring, EngineDrop(t) PROVE FrozenInv'
  BY <1>10, <1>0 DEF EngineDrop
<1>11. CASE Crash
  BY <1>11 DEF Crash, FrozenInv
<1>12. CASE BootFinish
  BY <1>12 DEF BootFinish, FrozenInv
<1>13. CASE UNCHANGED vars
  BY <1>13, <1>0 DEF vars
<1>. QED
  BY <1>1, <1>2, <1>3, <1>4, <1>5, <1>6, <1>7, <1>8, <1>9, <1>10, <1>11, <1>12, <1>13
  DEF Next, Handle, ApplyUnchanged, ApplySwap, ApplyLost

LEMMA FrozenInvariant == Spec => []FrozenInv
<1>1. Init => FrozenInv
  BY DEF Init, FrozenInv
<1>. QED
  BY <1>1, TypeInvariant, FrozenStep, PTL DEF Spec

------------------------------------------------------------------------------
(* Workers and the served catalog                                          *)

(* A refresh worker works from the served definition of its dataset, and   *)
(* what it builds has that definition's contract: whatever changes the one *)
(* replaces the other in the same handler.                                 *)
CrewInv ==
  \A d \in Dataset : worker[d].st # "none" =>
    /\ phase = "up"
    /\ worker[d].def = catalog.datasets[d]
    /\ worker[d].st = "building" => worker[d].snap.contract = worker[d].def.contract

LEMMA CrewLocal ==
  ASSUME CrewInv, UNCHANGED <<phase, catalog>>,
         \A d \in Dataset :
           \/ worker'[d] = worker[d]
           \/ /\ worker[d].st # "none" /\ worker'[d].def = worker[d].def
              /\ worker'[d].st = "building" =>
                   worker'[d].snap.contract = worker[d].def.contract
  PROVE  CrewInv'
  BY DEF CrewInv

LEMMA WorkerCrew ==
  ASSUME TypeInv, CrewInv, NEW d \in Dataset, WorkerStep(d)
  PROVE  CrewInv'
<1>1. worker[d].st # "none" /\ UNCHANGED <<phase, catalog>>
      /\ \A e \in Dataset \ {d} : worker'[e] = worker[e]
  BY TypeFacts DEF WorkerStep, Manual, Poll, RefreshNow, WorkerRead, WorkerSkip, WorkerBuild, WorkerBuilt, WorkerRejects,
     WorkerDies, Call
<1>2. worker'[d].def = worker[d].def
      /\ (worker'[d].st = "building" => worker'[d].snap.contract = worker[d].def.contract)
  <2>0. worker[d] \in Worker /\ worker[d] \in ShapedWorker
    BY TypeFacts DEF ShapedWorker
  <2>1. CASE Manual(d) \/ Poll(d) \/ RefreshNow(d)
    BY <2>1, RefreshBegins, ReadEffect
  <2>2. CASE WorkerSkip(d) \/ WorkerBuilt(d) \/ WorkerRejects(d)
    <3>1. worker'[d] = [worker[d] EXCEPT !.st = "calling", !.snap = None]
      BY <2>2, TypeFacts DEF WorkerSkip, WorkerBuilt, WorkerRejects, Call
    <3>. QED
      BY <2>0, <3>1 DEF Worker
  <2>3. CASE WorkerBuild(d)
    <3>1. PICK id \in SnapshotId, t \in Fresh :
            worker'[d] = [worker[d] EXCEPT !.st = "building",
                            !.snap = Built(id, t, worker[d].def, worker[d].how)]
      BY <2>3, TypeFacts DEF WorkerBuild
    <3>2. worker'[d].def = worker[d].def
          /\ worker'[d].snap = Built(id, t, worker[d].def, worker[d].how)
      BY <2>0, <3>1 DEF Worker
    <3>. QED
      BY <3>2 DEF Built
  <2>4. CASE WorkerDies(d)
    <3>1. worker'[d] = Idle(worker[d].def, 0)
      BY <2>4, TypeFacts DEF WorkerDies
    <3>. QED
      BY <3>1 DEF Idle, NoWorker
  <2>. QED
    BY <2>1, <2>2, <2>3, <2>4 DEF WorkerStep
<1>. QED
  BY <1>1, <1>2, CrewLocal

LEMMA CrewStep == TypeInv /\ FrozenInv /\ CrewInv /\ [Next]_vars => CrewInv'
<1>. SUFFICES ASSUME TypeInv, FrozenInv, CrewInv, [Next]_vars PROVE CrewInv'
  OBVIOUS
<1>0. ASSUME UNCHANGED <<phase, catalog, worker>> PROVE CrewInv'
  BY <1>0 DEF CrewInv
<1>1. ASSUME NEW d \in Dataset, WorkerStep(d) PROVE CrewInv'
  BY <1>1, WorkerCrew
<1>2. ASSUME NEW d \in Dataset, NEW w \in {worker[d], Kick(worker[d])}, Applying(d, w)
      PROVE  CrewInv'
  <2>1. UNCHANGED <<phase, catalog>>
    BY <1>2 DEF Applying
  <2>2. worker[d] \in ShapedWorker
    BY TypeFacts
  <2>3. \/ worker'[d] = worker[d]
        \/ /\ worker[d].st # "none" /\ worker'[d].def = worker[d].def
           /\ worker'[d].st = "building" => worker'[d].snap.contract = worker[d].def.contract
    <3>1. CASE worker'[d] = Kick(worker[d])
      BY <2>2, <3>1, KickKeeps DEF CrewInv
    <3>2. CASE worker'[d] # Kick(worker[d])
      BY <1>2, <3>2, AnswerEffect
    <3>. QED
      BY <3>1, <3>2
  <2>. QED
    BY <1>2, <2>1, <2>3, AnswerEffect, CrewLocal
<1>3. ASSUME NEW d \in Dataset, Cutover(d) PROVE CrewInv'
  <2>1. /\ \A e \in Dataset \ {d} : worker'[e] = worker[e]
                                    /\ catalog'.datasets[e] = catalog.datasets[e]
        /\ phase' = phase /\ phase = "up"
        /\ worker'[d] = Idle(pending[d].def, 0) /\ catalog'.datasets[d] = pending[d].def
    BY <1>3, TypeFacts DEF Cutover, Delivering, Catalog
  <2>2. worker'[d].def = pending[d].def /\ worker'[d].st = "idle"
    BY <2>1 DEF Idle, NoWorker
  <2>. QED
    BY <2>1, <2>2 DEF CrewInv
<1>4. ASSUME NEW d \in Dataset, StageNotReady(d) \/ StageSuperseded(d) PROVE CrewInv'
  BY <1>4, <1>0 DEF StageNotReady, StageSuperseded, Delivering
<1>5. ASSUME NEW d \in Dataset, Rollback(d) \/ BootRefresh(d) \/ BootSkip(d) PROVE CrewInv'
  BY <1>5, <1>0 DEF Rollback, BootRefresh, BootSkip
<1>6. ASSUME NEW c \in Configs, Reload(c) PROVE CrewInv'
  <2>0. phase = "up" /\ phase' = "up"
    BY <1>6 DEF Reload
  <2>1. ASSUME NEW d \in Dataset, worker'[d].st # "none"
        PROVE  /\ worker'[d].def = catalog'.datasets[d]
               /\ worker'[d].st = "building" =>
                    worker'[d].snap.contract = worker'[d].def.contract
    <3>0. d \notin Removed(c) \cup Restaged(c)
      BY <1>6, <2>1 DEF Reload, WorkersAfter, NoWorker
    <3>1. catalog'.datasets[d] = IF pending'[d] # None THEN catalog.datasets[d]
                                 ELSE c.datasets[d]
      BY <1>6 DEF Reload, Overlay
    <3>2. pending'[d] = None
      <4>1. CASE pending'[d] # None
        <5>1. worker'[d] = NoWorker
          BY <1>6, <4>1, ReloadPending
        <5>. QED
          BY <2>1, <5>1 DEF NoWorker
      <4>. QED
        BY <4>1
    <3>3. CASE d \in InPlace(c) \cup Added(c)
      <4>1. worker'[d] = Idle(c.datasets[d], 1)
        BY <1>6, <3>0, <3>3 DEF Reload, WorkersAfter
      <4>2. worker'[d].def = c.datasets[d] /\ worker'[d].st = "idle"
        BY <4>1 DEF Idle, NoWorker
      <4>. QED
        BY <3>1, <3>2, <4>2
    <3>4. CASE d \notin InPlace(c) \cup Added(c)
      <4>1. worker'[d] = worker[d]
        BY <1>6, <3>0, <3>4 DEF Reload, WorkersAfter
      <4>2. worker[d].def = catalog.datasets[d] /\ worker[d].def # None
        BY <2>1, <4>1, TypeFacts DEF CrewInv, ShapedWorker
      <4>3. d \in Configured(catalog) \cap Configured(c)
        BY <3>0, <4>2 DEF Removed, Configured
      <4>4. d \notin Staged(c)
        <5>1. CASE pending[d] # None
          BY <2>1, <4>1, <5>1 DEF FrozenInv, NoWorker
        <5>2. CASE pending[d] = None
          BY <3>0, <5>2 DEF Restaged
        <5>. QED
          BY <5>1, <5>2
      <4>5. c.datasets[d] = catalog.datasets[d]
        BY <3>4, <4>3, <4>4 DEF InPlace, Touched
      <4>. QED
        BY <2>1, <3>1, <3>2, <4>1, <4>5 DEF CrewInv
    <3>. QED
      BY <3>3, <3>4
  <2>. QED
    BY <2>0, <2>1 DEF CrewInv
<1>7. ASSUME NEW c \in Configs, Boot(c) PROVE CrewInv'
  BY <1>7 DEF Boot, CrewInv
<1>8. ASSUME NEW b \in builds, Stage(b) PROVE CrewInv'
  BY <1>8, <1>0 DEF Stage, StageOk, StageRejects, StageDies, StageNothing
<1>9. ASSUME NEW r \in retries, RetryStage(r) PROVE CrewInv'
  BY <1>9, <1>0 DEF RetryStage
<1>10. ASSUME NEW t \in retiring, EngineDrop(t) PROVE CrewInv'
  BY <1>10, <1>0 DEF EngineDrop
<1>11. CASE Crash
  BY <1>11 DEF Crash, CrewInv, NoWorker
<1>12. CASE BootFinish
  <2>1. \A d \in Dataset : worker'[d] = NoWorker \/ worker'[d] = Idle(catalog.datasets[d], 0)
    BY <1>12 DEF BootFinish, Started
  <2>2. phase' = "up" /\ catalog' = catalog
    BY <1>12 DEF BootFinish
  <2>3. NoWorker.st = "none"
    BY DEF NoWorker
  <2>4. \A def : Idle(def, 0).st = "idle" /\ Idle(def, 0).def = def
    BY DEF Idle, NoWorker
  <2>. QED
    BY <2>1, <2>2, <2>3, <2>4 DEF CrewInv
<1>13. CASE UNCHANGED vars
  BY <1>13, <1>0 DEF vars
<1>. QED
  BY <1>1, <1>2, <1>3, <1>4, <1>5, <1>6, <1>7, <1>8, <1>9, <1>10, <1>11, <1>12, <1>13
  DEF Next, Handle, ApplyUnchanged, ApplySwap, ApplyLost

LEMMA CrewInvariant == Spec => []CrewInv
<1>1. Init => CrewInv
  BY DEF Init, CrewInv, NoWorker
<1>. QED
  BY <1>1, TypeInvariant, FrozenInvariant, CrewStep, PTL DEF Spec

------------------------------------------------------------------------------
(* Rollbacks and refreshes                                                 *)

Calls(q) == \E i \in DOMAIN q : q[i].kind = "apply"

(* A worker whose call is in the mailbox neither dies nor is terminated by *)
(* a reload: what it read can be told until the call is handled.           *)
CallersStay ==
  \A d \in Dataset : worker[d].st = "calling" /\ Calls(inbox'[d]) => worker'[d].st = "calling"

(* What a worker may build, by what it read (Refresh.perform).             *)
Permitted(w, id) == w.force \/ id # w.seen.quarantined

(* What is built, or is handed over by the worker that waits for the       *)
(* answer, was permitted by what that worker read of the snapshots.        *)
CallInv ==
  \A d \in Dataset :
    /\ worker[d].st = "building" => Permitted(worker[d], worker[d].snap.id)
    /\ \A i \in DOMAIN inbox[d] : inbox[d][i].kind = "apply" =>
         /\ worker[d].st = "calling"
         /\ inbox[d][i].snap # None => Permitted(worker[d], inbox[d][i].snap.id)

(* A runtime that is down remembers no snapshots.                          *)
DownInv == phase = "down" => \A d \in Dataset : snapshots[d] = NoEntry

(* No call is added to a mailbox.                                          *)
NoMore(q, r) ==
  \A i \in DOMAIN r : r[i].kind = "apply" => \E j \in DOMAIN q : r[i] = q[j]

(* At d, nothing begins to be built or handed over.                        *)
NothingNew(d) ==
  /\ NoMore(inbox[d], inbox'[d])
  /\ \/ worker'[d] \in {worker[d], Kick(worker[d])}
     \/ worker'[d].st \notin {"building", "calling"}

LEMMA TailNoMore ==
  ASSUME NEW q \in Seq(Message), q # <<>>
  PROVE  NoMore(q, Tail(q))
  BY DEF NoMore

LEMMA StagedNoMore ==
  ASSUME NEW q \in Seq(Message), NEW m \in Message, m.kind = "staged"
  PROVE  NoMore(q, Append(q, m))
<1>. SUFFICES ASSUME NEW i \in DOMAIN Append(q, m), Append(q, m)[i].kind = "apply"
              PROVE  \E j \in DOMAIN q : Append(q, m)[i] = q[j]
  BY DEF NoMore
<1>1. Append(q, m)[i] # m
  OBVIOUS
<1>2. i \in DOMAIN q /\ Append(q, m)[i] = q[i]
  BY <1>1
<1>. QED
  BY <1>2

LEMMA NothingNewKeeps ==
  ASSUME TypeInv, CallInv, CallersStay, \A d \in Dataset : NothingNew(d)
  PROVE  CallInv'
<1>. SUFFICES ASSUME NEW d \in Dataset
              PROVE  /\ worker'[d].st = "building" => Permitted(worker'[d], worker'[d].snap.id)
                     /\ \A i \in DOMAIN inbox'[d] : inbox'[d][i].kind = "apply" =>
                          /\ worker'[d].st = "calling"
                          /\ inbox'[d][i].snap # None =>
                               Permitted(worker'[d], inbox'[d][i].snap.id)
  BY DEF CallInv, Permitted
<1>0. worker'[d].st \in {"building", "calling"} =>
        /\ worker'[d].st = worker[d].st /\ worker'[d].snap = worker[d].snap
        /\ \A id : Permitted(worker[d], id) => Permitted(worker'[d], id)
  <2>1. Kick(worker[d]).st = worker[d].st /\ Kick(worker[d]).snap = worker[d].snap
        /\ Kick(worker[d]).force = worker[d].force /\ Kick(worker[d]).seen = worker[d].seen
    BY TypeFacts, KickKeeps
  <2>. QED
    BY <2>1 DEF NothingNew, Permitted
<1>1. worker'[d].st = "building" => Permitted(worker'[d], worker'[d].snap.id)
  BY <1>0 DEF CallInv
<1>2. ASSUME NEW i \in DOMAIN inbox'[d], inbox'[d][i].kind = "apply"
      PROVE  /\ worker'[d].st = "calling"
             /\ inbox'[d][i].snap # None => Permitted(worker'[d], inbox'[d][i].snap.id)
  <2>1. PICK j \in DOMAIN inbox[d] : inbox'[d][i] = inbox[d][j]
    BY <1>2 DEF NothingNew, NoMore
  <2>2. worker[d].st = "calling"
    BY <1>2, <2>1 DEF CallInv
  <2>3. worker'[d].st = "calling"
    BY <1>2, <2>2 DEF CallersStay, Calls
  <2>. QED
    BY <1>0, <1>2, <2>1, <2>3 DEF CallInv
<1>. QED
  BY <1>1, <1>2

LEMMA SameNothingNew ==
  ASSUME NEW d \in Dataset, inbox'[d] = inbox[d],
         worker'[d] = worker[d] \/ worker'[d].st \notin {"building", "calling"}
  PROVE  NothingNew(d)
  BY DEF NothingNew, NoMore

(* A worker hands an outcome over: it had no call in the mailbox.          *)
LEMMA CallKeeps ==
  ASSUME TypeInv, CallInv, NEW d \in Dataset, NEW snap \in Snap \cup {None},
         worker[d].st \in {"resolving", "building"}, Call(d, snap),
         snap # None => Permitted(worker[d], snap.id)
  PROVE  CallInv'
<1>1. worker'[d] = [worker[d] EXCEPT !.st = "calling", !.snap = None]
      /\ inbox'[d] = Append(inbox[d], [kind |-> "apply", snap |-> snap])
  BY TypeFacts DEF Call
<1>2. \A e \in Dataset \ {d} : worker'[e] = worker[e] /\ inbox'[e] = inbox[e]
  BY TypeFacts DEF Call
<1>3. worker[d] \in Worker
  BY TypeFacts DEF ShapedWorker
<1>4. /\ worker'[d].st = "calling"
      /\ worker'[d].force = worker[d].force /\ worker'[d].seen = worker[d].seen
  BY <1>1, <1>3 DEF Worker
<1>5. \A i \in DOMAIN inbox[d] : inbox[d][i].kind # "apply"
  BY DEF CallInv
<1>6. ASSUME NEW i \in DOMAIN inbox'[d], inbox'[d][i].kind = "apply", inbox'[d][i].snap # None
      PROVE  Permitted(worker'[d], inbox'[d][i].snap.id)
  <2>1. inbox[d] \in Seq(Message)
    BY TypeFacts
  <2>2. inbox'[d][i] = [kind |-> "apply", snap |-> snap]
    BY <1>1, <1>5, <1>6, <2>1
  <2>. QED
    BY <1>4, <1>6, <2>2 DEF Permitted
<1>7. ASSUME NEW e \in Dataset \ {d}
      PROVE  /\ worker'[e].st = "building" => Permitted(worker'[e], worker'[e].snap.id)
             /\ \A i \in DOMAIN inbox'[e] : inbox'[e][i].kind = "apply" =>
                  /\ worker'[e].st = "calling"
                  /\ inbox'[e][i].snap # None => Permitted(worker'[e], inbox'[e][i].snap.id)
  BY <1>2, <1>7 DEF CallInv
<1>. QED
  BY <1>4, <1>6, <1>7 DEF CallInv, Permitted

LEMMA BuildKeeps ==
  ASSUME TypeInv, CallInv, NEW d \in Dataset, WorkerBuild(d)
  PROVE  CallInv'
<1>0. worker[d] \in Worker /\ worker[d].st = "resolving"
  BY TypeFacts DEF ShapedWorker, WorkerBuild
<1>1. PICK id \in SnapshotId, t \in Fresh :
        /\ ~Skips(worker[d].seen, worker[d].def, worker[d].how, worker[d].force, id)
        /\ worker'[d] = [worker[d] EXCEPT !.st = "building",
                           !.snap = Built(id, t, worker[d].def, worker[d].how)]
  BY TypeFacts DEF WorkerBuild
<1>2. /\ worker'[d].st = "building" /\ worker'[d].snap.id = id
      /\ worker'[d].force = worker[d].force /\ worker'[d].seen = worker[d].seen
  BY <1>0, <1>1 DEF Worker, Built
<1>3. Permitted(worker'[d], worker'[d].snap.id)
  BY <1>1, <1>2 DEF Skips, Permitted
<1>4. inbox' = inbox /\ \A e \in Dataset \ {d} : worker'[e] = worker[e]
  BY TypeFacts DEF WorkerBuild
<1>5. \A i \in DOMAIN inbox'[d] : inbox'[d][i].kind # "apply"
  BY <1>0, <1>4 DEF CallInv
<1>6. ASSUME NEW e \in Dataset \ {d}
      PROVE  /\ worker'[e].st = "building" => Permitted(worker'[e], worker'[e].snap.id)
             /\ \A i \in DOMAIN inbox'[e] : inbox'[e][i].kind = "apply" =>
                  /\ worker'[e].st = "calling"
                  /\ inbox'[e][i].snap # None => Permitted(worker'[e], inbox'[e][i].snap.id)
  BY <1>4, <1>6 DEF CallInv
<1>. QED
  BY <1>3, <1>5, <1>6 DEF CallInv, Permitted

LEMMA IdleIsNew ==
  /\ NoWorker.st \notin {"building", "calling"}
  /\ \A def, kicks : Idle(def, kicks).st \notin {"building", "calling"}
  BY DEF Idle, NoWorker

LEMMA StageCalls ==
  ASSUME TypeInv, NEW b \in builds, Stage(b)
  PROVE  worker' = worker /\ \A d \in Dataset : NothingNew(d)
<1>0. worker' = worker
  BY DEF Stage, StageOk, StageRejects, StageDies, StageNothing
<1>1. PICK m : m.kind = "staged" /\ m \in Message
                 /\ inbox' = [inbox EXCEPT ![b.dataset] = Append(@, m)]
  <2>0. b \in Build
    BY TypeFacts
  <2>1. CASE StageOk(b)
    <3>1. PICK id \in SnapshotId :
            inbox' = [inbox EXCEPT ![b.dataset] =
              Append(@, [kind |-> "staged", gen |-> b.gen,
                         snap |-> Built(id, b.table, b.def, b.def.path)])]
      BY <2>1 DEF StageOk
    <3>2. Built(id, b.table, b.def, b.def.path) \in Snap
      BY <2>0 DEF Built, Snap, Build, Def
    <3>. QED
      BY <2>0, <3>1, <3>2 DEF Build, Message
  <2>2. CASE StageNothing(b)
    BY <2>0, <2>2 DEF StageNothing, Build, Message
  <2>. QED
    BY <2>1, <2>2 DEF Stage, StageRejects, StageDies
<1>2. ASSUME NEW d \in Dataset PROVE NothingNew(d)
  <2>1. inbox[d] \in Seq(Message)
    BY TypeFacts
  <2>2. inbox'[d] = inbox[d] \/ inbox'[d] = Append(inbox[d], m)
    BY <1>1, TypeFacts
  <2>3. NoMore(inbox[d], inbox'[d])
    BY <1>1, <2>1, <2>2, StagedNoMore DEF NoMore
  <2>. QED
    BY <1>0, <2>3 DEF NothingNew
<1>. QED
  BY <1>0, <1>2

LEMMA CallStep == TypeInv /\ CallInv /\ [Next]_vars /\ [CallersStay]_vars => CallInv'
<1>. SUFFICES ASSUME TypeInv, CallInv, [Next]_vars, [CallersStay]_vars PROVE CallInv'
  OBVIOUS
<1>0. ASSUME UNCHANGED <<worker, inbox>> PROVE CallInv'
  BY <1>0 DEF CallInv, Permitted
<1>. SUFFICES ASSUME Next, CallersStay PROVE CallInv'
  BY <1>0 DEF vars
<1>1. ASSUME NEW d \in Dataset, WorkerStep(d) PROVE CallInv'
  <2>1. CASE Manual(d) \/ Poll(d) \/ RefreshNow(d)
    <3>1. PICK how \in Path, force \in BOOLEAN, kicks \in Nat :
            WorkerRead(d, how, force, kicks)
      BY <2>1, RefreshBegins
    <3>2. inbox' = inbox
      BY <3>1 DEF WorkerRead
    <3>. QED
      BY <3>1, <3>2, ReadEffect, SameNothingNew, NothingNewKeeps
  <2>2. CASE WorkerSkip(d) \/ WorkerRejects(d)
    BY <2>2, CallKeeps DEF WorkerSkip, WorkerRejects
  <2>3. CASE WorkerBuild(d)
    BY <2>3, BuildKeeps
  <2>4. CASE WorkerBuilt(d)
    <3>1. worker[d].st = "building" /\ Call(d, worker[d].snap)
      BY <2>4 DEF WorkerBuilt
    <3>2. worker[d].snap \in Snap
      BY <3>1, TypeFacts, WorkerFields
    <3>3. Permitted(worker[d], worker[d].snap.id)
      BY <3>1 DEF CallInv
    <3>. QED
      BY <3>1, <3>2, <3>3, CallKeeps
  <2>5. CASE WorkerDies(d)
    <3>1. inbox' = inbox /\ worker'[d] = Idle(worker[d].def, 0)
          /\ \A e \in Dataset \ {d} : worker'[e] = worker[e]
      BY <2>5, TypeFacts DEF WorkerDies
    <3>. QED
      BY <3>1, IdleIsNew, SameNothingNew, NothingNewKeeps
  <2>. QED
    BY <1>1, <2>1, <2>2, <2>3, <2>4, <2>5 DEF WorkerStep
<1>2. ASSUME NEW d \in Dataset, NEW w \in {worker[d], Kick(worker[d])}, Applying(d, w)
      PROVE  CallInv'
  <2>1. inbox'[d] = Tail(inbox[d]) /\ \A e \in Dataset \ {d} : inbox'[e] = inbox[e]
    BY <1>2, TypeFacts DEF Applying, Answer
  <2>2. NoMore(inbox[d], inbox'[d])
    BY <1>2, <2>1, TypeFacts, TailNoMore DEF Applying
  <2>3. NothingNew(d)
    BY <1>2, <2>2, AnswerEffect DEF NothingNew
  <2>. QED
    BY <1>2, <2>1, <2>3, AnswerEffect, SameNothingNew, NothingNewKeeps
<1>3. ASSUME NEW d \in Dataset, Cutover(d) \/ StageNotReady(d) \/ StageSuperseded(d)
      PROVE  CallInv'
  <2>1. /\ inbox[d] # <<>> /\ inbox'[d] = Tail(inbox[d])
        /\ \A e \in Dataset \ {d} : inbox'[e] = inbox[e]
    BY <1>3, TypeFacts DEF Cutover, StageNotReady, StageSuperseded, Delivering
  <2>2. /\ worker'[d] = worker[d] \/ worker'[d] = Idle(pending[d].def, 0)
        /\ \A e \in Dataset \ {d} : worker'[e] = worker[e]
    BY <1>3, TypeFacts DEF Cutover, StageNotReady, StageSuperseded
  <2>3. NoMore(inbox[d], inbox'[d])
    BY <2>1, TypeFacts, TailNoMore
  <2>4. NothingNew(d)
    BY <2>2, <2>3, IdleIsNew DEF NothingNew
  <2>. QED
    BY <2>1, <2>2, <2>4, SameNothingNew, NothingNewKeeps
<1>4. ASSUME NEW d \in Dataset, Rollback(d) \/ BootRefresh(d) \/ BootSkip(d) PROVE CallInv'
  BY <1>4, <1>0 DEF Rollback, BootRefresh, BootSkip
<1>5. ASSUME NEW c \in Configs, Reload(c) PROVE CallInv'
  <2>1. /\ inbox' = inbox
        /\ \A d \in Dataset : \/ worker'[d] \in {NoWorker, worker[d]}
                              \/ worker'[d] = Idle(c.datasets[d], 1)
    BY <1>5 DEF Reload, WorkersAfter
  <2>. QED
    BY <2>1, IdleIsNew, SameNothingNew, NothingNewKeeps
<1>6. ASSUME NEW c \in Configs, Boot(c) PROVE CallInv'
  BY <1>6, <1>0 DEF Boot
<1>7. ASSUME NEW b \in builds, Stage(b) PROVE CallInv'
  BY <1>7, StageCalls, NothingNewKeeps
<1>8. ASSUME NEW r \in retries, RetryStage(r) PROVE CallInv'
  BY <1>8, <1>0 DEF RetryStage
<1>9. ASSUME NEW t \in retiring, EngineDrop(t) PROVE CallInv'
  BY <1>9, <1>0 DEF EngineDrop
<1>10. CASE Crash
  <2>1. \A d \in Dataset : worker'[d] = NoWorker /\ inbox'[d] = <<>>
    BY <1>10 DEF Crash
  <2>2. \A d \in Dataset : NothingNew(d)
    BY <2>1, IdleIsNew DEF NothingNew, NoMore
  <2>. QED
    BY <2>2, NothingNewKeeps
<1>11. CASE BootFinish
  <2>1. /\ inbox' = inbox
        /\ \A d \in Dataset : worker'[d] = NoWorker \/ worker'[d] = Idle(catalog.datasets[d], 0)
    BY <1>11 DEF BootFinish, Started
  <2>. QED
    BY <2>1, IdleIsNew, SameNothingNew, NothingNewKeeps
<1>. QED
  BY <1>1, <1>2, <1>3, <1>4, <1>5, <1>6, <1>7, <1>8, <1>9, <1>10, <1>11
  DEF Next, Handle, ApplyUnchanged, ApplySwap, ApplyLost

LEMMA DownStep == DownInv /\ [Next]_vars => DownInv'
<1>. SUFFICES ASSUME DownInv, [Next]_vars PROVE DownInv'
  OBVIOUS
<1>1. CASE Crash
  BY <1>1 DEF Crash, DownInv
<1>2. CASE phase' # "down"
  BY <1>2 DEF DownInv
<1>3. CASE UNCHANGED vars
  BY <1>3 DEF vars, DownInv
<1>4. ASSUME Next, ~Crash PROVE phase' # "down"
  <2>1. ASSUME NEW d \in Dataset, WorkerStep(d) \/ Handle(d) \/ Rollback(d) \/ BootRefresh(d)
                                  \/ BootSkip(d)
        PROVE  phase' # "down"
    BY <2>1 DEF WorkerStep, Manual, Poll, RefreshNow, WorkerRead, WorkerSkip, WorkerBuild, WorkerBuilt, WorkerRejects,
                WorkerDies, Handle, ApplyUnchanged, ApplySwap, ApplyLost, Applying, Cutover,
                StageNotReady, StageSuperseded, Delivering, Rollback, BootRefresh, BootSkip
  <2>2. ASSUME NEW c \in Configs, Reload(c) \/ Boot(c) PROVE phase' # "down"
    BY <2>2 DEF Reload, Boot
  <2>3. ASSUME NEW b \in builds, Stage(b) PROVE phase' # "down"
    BY <2>3 DEF Stage, StageOk, StageRejects, StageDies, StageNothing
  <2>4. ASSUME NEW r \in retries, RetryStage(r) PROVE phase' # "down"
    BY <2>4 DEF RetryStage
  <2>5. ASSUME NEW t \in retiring, EngineDrop(t) PROVE phase' # "down"
    BY <2>5 DEF EngineDrop
  <2>6. CASE BootFinish
    BY <2>6 DEF BootFinish
  <2>. QED
    BY <1>4, <2>1, <2>2, <2>3, <2>4, <2>5, <2>6 DEF Next
<1>. QED
  BY <1>1, <1>2, <1>3, <1>4

(* What makes a snapshot active that was rolled back from.                 *)
LEMMA ReturnIsKnown ==
  ASSUME TypeInv, CallInv, DownInv, Next, NEW d \in Dataset, Returns(d)
  PROVE  \/ Deliberate(d)
         \/ worker[d].st = "calling" /\ worker[d].seen.quarantined # snapshots[d].quarantined
<1>. DEFINE Known == \/ Deliberate(d)
                     \/ /\ worker[d].st = "calling"
                        /\ worker[d].seen.quarantined # snapshots[d].quarantined
<1>0. /\ snapshots[d].quarantined # None /\ snapshots'[d].active # None
      /\ snapshots'[d].active # snapshots[d].active
      /\ snapshots'[d].active.id = snapshots[d].quarantined
  BY DEF Returns
<1>1. ASSUME NEW e \in Dataset, ApplySwap(e) PROVE Known
  <2>1. /\ inbox[e] # <<>> /\ Head(inbox[e]).kind = "apply" /\ Head(inbox[e]).snap # None
        /\ snapshots' = [snapshots EXCEPT ![e] =
             [active |-> Head(inbox[e]).snap, previous |-> snapshots[e].active,
              quarantined |-> None]]
    BY <1>1 DEF ApplySwap, Applying, SwapIn
  <2>2. e = d
    BY <1>0, <2>1, TypeFacts
  <2>3. snapshots'[d].active = Head(inbox[d]).snap
    BY <2>1, <2>2, TypeFacts
  <2>4. 1 \in DOMAIN inbox[d] /\ Head(inbox[d]) = inbox[d][1]
    BY <2>1, <2>2, TypeFacts
  <2>5. worker[d].st = "calling" /\ Permitted(worker[d], Head(inbox[d]).snap.id)
    BY <2>1, <2>2, <2>4 DEF CallInv
  <2>. QED
    BY <1>0, <2>3, <2>5 DEF Permitted, Deliberate
<1>2. ASSUME NEW e \in Dataset, Cutover(e) PROVE Known
  <2>1. /\ pending[e] # None /\ pending'[e] = None
        /\ \A x \in Dataset \ {e} : snapshots'[x] = snapshots[x]
    BY <1>2, TypeFacts DEF Cutover, Lands, Current
  <2>2. e = d
    BY <1>0, <2>1
  <2>. QED
    BY <2>1, <2>2 DEF Deliberate
<1>3. ASSUME NEW e \in Dataset, Rollback(e) PROVE Known
  <2>1. /\ snapshots'[e].active = snapshots[e].previous
        /\ \A x \in Dataset \ {e} : snapshots'[x] = snapshots[x]
    BY <1>3, TypeFacts DEF Rollback
  <2>2. e = d
    BY <1>0, <2>1
  <2>. QED
    BY <2>1, <2>2 DEF Deliberate
<1>4. ASSUME NEW e \in Dataset, BootRefresh(e) PROVE FALSE
  <2>1. PICK id \in SnapshotId, t \in Fresh :
          /\ ~Skips(SeenIn(snapshots[e]), catalog.datasets[e], catalog.datasets[e].path,
                    FALSE, id)
          /\ snapshots' = [snapshots EXCEPT ![e] =
               [active |-> Built(id, t, catalog.datasets[e], catalog.datasets[e].path),
                previous |-> snapshots[e].active, quarantined |-> None]]
    BY <1>4 DEF BootRefresh, SwapIn
  <2>2. e = d
    BY <1>0, <2>1, TypeFacts
  <2>3. snapshots'[d].active.id = id
    BY <2>1, <2>2, TypeFacts DEF Built
  <2>4. SeenIn(snapshots[d]).quarantined = snapshots[d].quarantined
    BY DEF SeenIn
  <2>. QED
    BY <1>0, <2>1, <2>2, <2>3, <2>4 DEF Skips
<1>5. ASSUME NEW c \in Configs, Reload(c) PROVE FALSE
  <2>1. snapshots'[d] = NoEntry \/ snapshots'[d] = snapshots[d]
    BY <1>5 DEF Reload, Remaining
  <2>. QED
    BY <1>0, <2>1 DEF NoEntry
<1>6. ASSUME NEW c \in Configs, Boot(c) PROVE FALSE
  BY <1>0, <1>6 DEF Boot, DownInv, NoEntry
<1>7. CASE Crash
  BY <1>0, <1>7 DEF Crash, NoEntry
<1>8. CASE UNCHANGED snapshots
  BY <1>0, <1>8
<1>9. \/ UNCHANGED snapshots \/ Crash
      \/ \E e \in Dataset : ApplySwap(e) \/ Cutover(e) \/ Rollback(e) \/ BootRefresh(e)
      \/ \E c \in Configs : Reload(c) \/ Boot(c)
  <2>1. ASSUME NEW e \in Dataset, WorkerStep(e) PROVE UNCHANGED snapshots
    BY <2>1 DEF WorkerStep, Manual, Poll, RefreshNow, WorkerRead, WorkerSkip, WorkerBuild, WorkerBuilt, WorkerRejects,
                WorkerDies
  <2>2. ASSUME NEW e \in Dataset, Handle(e), ~ApplySwap(e), ~Cutover(e) PROVE UNCHANGED snapshots
    BY <2>2 DEF Handle, ApplyUnchanged, ApplyLost, StageNotReady, StageSuperseded
  <2>3. ASSUME NEW e \in Dataset, BootSkip(e) PROVE UNCHANGED snapshots
    BY <2>3 DEF BootSkip
  <2>4. ASSUME NEW b \in builds, Stage(b) PROVE UNCHANGED snapshots
    BY <2>4 DEF Stage, StageOk, StageRejects, StageDies, StageNothing
  <2>5. ASSUME NEW r \in retries, RetryStage(r) PROVE UNCHANGED snapshots
    BY <2>5 DEF RetryStage
  <2>6. ASSUME NEW t \in retiring, EngineDrop(t) PROVE UNCHANGED snapshots
    BY <2>6 DEF EngineDrop
  <2>7. BootFinish => UNCHANGED snapshots
    BY DEF BootFinish
  <2>. QED
    BY <2>1, <2>2, <2>3, <2>4, <2>5, <2>6, <2>7 DEF Next
<1>. QED
  BY <1>1, <1>2, <1>3, <1>4, <1>5, <1>6, <1>7, <1>8, <1>9

(* If a worker stays until its call is handled, no automatic refresh, nor  *)
(* that of a boot, undoes a rollback that it could have seen: what becomes *)
(* active again was read before the rollback, or is deliberate             *)
(* (Refresh.perform, swap_in, do_rollback, seed_from_sidecar).             *)
THEOREM RollbacksHold == Spec /\ [][CallersStay]_vars => RollbackHolds
<1>. DEFINE Step == \A d \in Dataset :
              Returns(d) => \/ Deliberate(d)
                            \/ worker[d].st = "calling"
                               /\ worker[d].seen.quarantined # snapshots[d].quarantined
<1>1. Init => CallInv /\ DownInv
  BY DEF Init, CallInv, DownInv, NoWorker
<1>2. TypeInv /\ CallInv /\ DownInv /\ [Next]_vars => [Step]_vars
  BY ReturnIsKnown
<1>3. TypeInv /\ CallInv /\ [Next]_vars /\ [CallersStay]_vars => CallInv'
  BY CallStep
<1>4. DownInv /\ [Next]_vars => DownInv'
  BY DownStep
<1>. QED
  BY <1>1, <1>2, <1>3, <1>4, TypeInvariant, PTL DEF Spec, RollbackHolds
==============================================================================
