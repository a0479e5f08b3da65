-------------------------- MODULE RuntimeTableProofs --------------------------
(***************************************************************************)
(* What becomes of tables, for every value of the constants: none that a   *)
(* dataset serves or may roll back to is ever dropped (KeptTablesStay),    *)
(* none is forgotten in the file (NothingLeaks), and a restart resumes     *)
(* from the sidecar what was served (RestartResumes).                      *)
(***************************************************************************)
EXTENDS RuntimeProofs

(* What a table is held by: a snapshot kept, a message not handled yet, a  *)
(* worker, a staging build.                                                *)
QueuedIn(q) == Tables({q[i].snap : i \in DOMAIN q})
Working(d) == Tables({worker[d].snap})
Building == {b.table : b \in builds}
Owned(d) == Kept(d) \cup Queued(d) \cup Working(d)

(* Nobody holds a table twice.                                             *)
ApartEntry(entry) ==
  entry.active # None /\ entry.previous # None =>
    entry.active.table # entry.previous.table
ApartQueue(q) ==
  \A i, j \in DOMAIN q :
    q[i].snap # None /\ q[j].snap # None /\ q[i].snap.table = q[j].snap.table => i = j
ApartLocal(d) ==
  /\ ApartEntry(snapshots[d])
  /\ ApartQueue(inbox[d])
  /\ Kept(d) \cap Queued(d) = {}
  /\ Kept(d) \cap Working(d) = {}
  /\ Queued(d) \cap Working(d) = {}

(* KeptTablesStay is not inductive: a table is retired or dropped by the   *)
(* one who holds it, so no other may hold it, and what is in flight has to *)
(* be in the file before it is kept.                                       *)
TableInv ==
  /\ \A d \in Dataset : ApartLocal(d)
  /\ \A d \in Dataset : Owned(d) \cap Building = {}
  /\ \A d, e \in Dataset : d # e => Owned(d) \cap Owned(e) = {}
  /\ \A a, b \in builds : a.table = b.table => a = b
  /\ \A d \in Dataset : Owned(d) \subseteq db \ retiring
  /\ Building \subseteq db \ retiring

(* The same of the record a restart resumes from.                          *)
SidecarInv ==
  /\ \A d \in Dataset : ApartEntry(sidecar[d])
  /\ \A d, e \in Dataset : d # e => Persisted(d) \cap Persisted(e) = {}

(* Only a runtime that is up has anything in flight.                       *)
IdleInv ==
  /\ phase # "up" => /\ builds = {}
                     /\ \A d \in Dataset : inbox[d] = <<>> /\ worker[d] = NoWorker
  /\ phase = "down" => retiring = {}

------------------------------------------------------------------------------
(* Sets of tables and queues                                               *)

LEMMA TablesOfOne ==
  /\ Tables({None}) = {}
  /\ \A x : x # None => Tables({x}) = {x.table}
  BY DEF Tables

LEMMA TablesOfTwo == \A x, y : Tables({x, y}) = Tables({x}) \cup Tables({y})
  BY DEF Tables

LEMMA KeptIs ==
  \A d : Kept(d) = Tables({snapshots[d].active}) \cup Tables({snapshots[d].previous})
  BY TablesOfTwo DEF Kept

LEMMA KeptNext ==
  \A d : Kept(d)' = Tables({snapshots'[d].active}) \cup Tables({snapshots'[d].previous})
  BY TablesOfTwo DEF Kept

LEMMA QueuedIs == \A d : Queued(d) = QueuedIn(inbox[d])
  BY DEF Queued, QueuedIn

LEMMA OwnedInUse ==
  /\ \A d \in Dataset : Owned(d) \subseteq InUse
  /\ Building \subseteq InUse
<1>1. InUse = (UNION {Owned(d) : d \in Dataset}) \cup Building
  BY DEF InUse, Owned, Working, Building
<1>. QED
  BY <1>1

LEMMA QueueTail ==
  ASSUME NEW q \in Seq(Message), q # <<>>, ApartQueue(q)
  PROVE  /\ ApartQueue(Tail(q))
         /\ QueuedIn(q) = Tables({Head(q).snap}) \cup QueuedIn(Tail(q))
         /\ Tables({Head(q).snap}) \cap QueuedIn(Tail(q)) = {}
<1>1. /\ Len(q) \in Nat /\ Len(q) > 0 /\ Head(q) = q[1]
      /\ DOMAIN q = 1 .. Len(q) /\ DOMAIN Tail(q) = 1 .. (Len(q) - 1)
      /\ \A i \in 1 .. (Len(q) - 1) : Tail(q)[i] = q[i + 1]
  OBVIOUS
<1>2. ApartQueue(Tail(q))
  BY <1>1 DEF ApartQueue
<1>3. \A i \in DOMAIN q : i = 1 \/ (i - 1 \in DOMAIN Tail(q) /\ Tail(q)[i - 1] = q[i])
  BY <1>1
<1>4. QueuedIn(q) = Tables({Head(q).snap}) \cup QueuedIn(Tail(q))
  <2>1. \A p : QueuedIn(p) = {p[i].snap.table : i \in {j \in DOMAIN p : p[j].snap # None}}
    BY DEF QueuedIn, Tables
  <2>2. ASSUME NEW i \in DOMAIN q, q[i].snap # None
        PROVE  q[i].snap.table \in Tables({Head(q).snap}) \cup QueuedIn(Tail(q))
    <3>1. CASE i = 1
      BY <2>2, <3>1, <1>1, TablesOfOne
    <3>2. CASE i - 1 \in DOMAIN Tail(q) /\ Tail(q)[i - 1] = q[i]
      BY <2>1, <2>2, <3>2
    <3>. QED
      BY <1>3, <3>1, <3>2
  <2>3. ASSUME NEW i \in DOMAIN Tail(q), Tail(q)[i].snap # None
        PROVE  Tail(q)[i].snap.table \in QueuedIn(q)
    BY <2>1, <2>3, <1>1
  <2>4. Tables({Head(q).snap}) \subseteq QueuedIn(q)
    <3>1. 1 \in DOMAIN q
      BY <1>1
    <3>2. CASE q[1].snap = None
      BY <3>2, <1>1, TablesOfOne
    <3>3. CASE q[1].snap # None
      BY <3>1, <3>3, <2>1, <1>1, TablesOfOne
    <3>. QED
      BY <3>2, <3>3
  <2>. QED
    BY <2>1, <2>2, <2>3, <2>4
<1>5. Tables({Head(q).snap}) \cap QueuedIn(Tail(q)) = {}
  <2>1. \A i \in DOMAIN Tail(q) :
          q[1].snap # None /\ Tail(q)[i].snap # None => q[1].snap.table # Tail(q)[i].snap.table
    BY <1>1 DEF ApartQueue
  <2>. QED
    BY <1>1, <2>1 DEF QueuedIn, Tables
<1>. QED
  BY <1>2, <1>4, <1>5

LEMMA QueueAppend ==
  ASSUME NEW q \in Seq(Message), NEW m \in Message, ApartQueue(q),
         Tables({m.snap}) \cap QueuedIn(q) = {}
  PROVE  /\ ApartQueue(Append(q, m))
         /\ QueuedIn(Append(q, m)) = QueuedIn(q) \cup Tables({m.snap})
<1>. DEFINE r == Append(q, m)
<1>1. /\ Len(q) \in Nat /\ DOMAIN q = 1 .. Len(q) /\ DOMAIN r = 1 .. (Len(q) + 1)
      /\ r[Len(q) + 1] = m /\ \A i \in DOMAIN q : r[i] = q[i]
      /\ \A i \in DOMAIN r : i \in DOMAIN q \/ i = Len(q) + 1
  OBVIOUS
<1>. HIDE DEF r
<1>2. \A i \in DOMAIN q : q[i].snap # None /\ m.snap # None => q[i].snap.table # m.snap.table
  BY DEF Tables, QueuedIn
<1>3. ApartQueue(r)
  BY <1>1, <1>2 DEF ApartQueue
<1>4. QueuedIn(r) = QueuedIn(q) \cup Tables({m.snap})
  BY <1>1 DEF QueuedIn, Tables
<1>. QED
  BY <1>3, <1>4 DEF r

------------------------------------------------------------------------------
(* A step that moves the tables of one dataset only: what it takes over is *)
(* its own, a build's or new, and it gives up only what it no longer has.  *)

LEMMA LocalStep ==
  ASSUME TableInv, NEW d \in Dataset, NEW new,
         new \cap InUse = {},
         \A e \in Dataset \ {d} : UNCHANGED <<snapshots[e], inbox[e], worker[e]>>,
         ApartLocal(d)',
         (\A a, b \in builds : a.table = b.table => a = b)',
         Owned(d)' \subseteq Owned(d) \cup Building \cup new,
         Building' \subseteq Building \cup new,
         (Owned(d) \cap Building = {})',
         (db \ db') \cup (retiring' \ retiring) \subseteq Owned(d) \cup Building \cup retiring,
         (Owned(d) \cup Building \subseteq db \ retiring)',
         Building \cap new = {}
  PROVE  TableInv'
<1>1. ASSUME NEW e \in Dataset, e # d
      PROVE  Owned(e)' = Owned(e) /\ (ApartLocal(e)' <=> ApartLocal(e))
  <2>0. snapshots'[e] = snapshots[e] /\ inbox'[e] = inbox[e] /\ worker'[e] = worker[e]
    BY <1>1
  <2>1. /\ Kept(e)' = Kept(e) /\ Queued(e)' = Queued(e) /\ Working(e)' = Working(e)
    <3>1. Kept(e)' = Kept(e) /\ Working(e)' = Working(e)
      BY <2>0 DEF Kept, Working
    <3>2. Queued(e)' = Queued(e)
      BY <2>0 DEF Queued
    <3>. QED
      BY <3>1, <3>2
  <2>2. ApartEntry(snapshots[e])' = ApartEntry(snapshots[e])
    BY <2>0 DEF ApartEntry
  <2>3. ApartQueue(inbox[e])' = ApartQueue(inbox[e])
    BY <1>1 DEF ApartQueue
  <2>. QED
    BY <2>1, <2>2, <2>3 DEF Owned, ApartLocal
<1>2. \A e \in Dataset : Owned(e) \subseteq InUse
  BY OwnedInUse
<1>3. ASSUME NEW e \in Dataset, e # d
      PROVE  /\ Owned(e) \cap (Owned(d) \cup Building \cup new) = {}
             /\ Owned(e) \subseteq db' \ retiring'
  <2>1. Owned(e) \cap (Owned(d) \cup Building \cup new) = {}
    BY <1>2, <1>3 DEF TableInv
  <2>2. Owned(e) \subseteq db \ retiring
    BY DEF TableInv
  <2>. QED
    BY <2>1, <2>2
<1>4. (\A e \in Dataset : ApartLocal(e))'
  BY <1>1 DEF TableInv
<1>5. (\A e \in Dataset : Owned(e) \cap Building = {})'
  BY <1>1, <1>3
<1>6. (\A e, f \in Dataset : e # f => Owned(e) \cap Owned(f) = {})'
  <2>1. ASSUME NEW e \in Dataset, NEW f \in Dataset, e # f
        PROVE  Owned(e)' \cap Owned(f)' = {}
    <3>1. CASE e # d /\ f # d
      BY <2>1, <3>1, <1>1 DEF TableInv
    <3>2. CASE e = d \/ f = d
      BY <2>1, <3>2, <1>1, <1>3
    <3>. QED
      BY <3>1, <3>2
  <2>. QED
    BY <2>1
<1>7. (\A e \in Dataset : Owned(e) \subseteq db \ retiring)'
  BY <1>1, <1>3
<1>. QED
  BY <1>4, <1>5, <1>6, <1>7 DEF TableInv

(* The common case: nothing new, and no build ends.                        *)
LEMMA LocalMove ==
  ASSUME TableInv, NEW d \in Dataset, UNCHANGED builds,
         \A e \in Dataset \ {d} : UNCHANGED <<snapshots[e], inbox[e], worker[e]>>,
         ApartLocal(d)',
         Owned(d)' \subseteq Owned(d),
         (db \ db') \cup (retiring' \ retiring) \subseteq Owned(d),
         (Owned(d) \subseteq db \ retiring)'
  PROVE  TableInv'
<1>1. Building' = Building
  BY DEF Building
<1>2. /\ Owned(d) \cap Building = {}
      /\ Building \subseteq db \ retiring
      /\ (\A a, b \in builds : a.table = b.table => a = b)'
  BY DEF TableInv
<1>3. (Owned(d) \cap Building = {})'
  BY <1>1, <1>2
<1>4. (Owned(d) \cup Building \subseteq db \ retiring)'
  BY <1>1, <1>2
<1>5. /\ {} \cap InUse = {} /\ Building \cap {} = {}
      /\ Owned(d)' \subseteq Owned(d) \cup Building \cup {}
      /\ Building' \subseteq Building \cup {}
      /\ (db \ db') \cup (retiring' \ retiring) \subseteq Owned(d) \cup Building \cup retiring
  BY <1>1
<1>. QED
  BY <1>2, <1>3, <1>4, <1>5, LocalStep

(* A step that moves no table.                                             *)
LEMMA SameTables ==
  ASSUME TableInv, UNCHANGED <<snapshots, inbox, builds, db, retiring>>,
         \A d \in Dataset : worker'[d].snap = worker[d].snap
  PROVE  TableInv'
<1>1. Building' = Building
  BY DEF Building
<1>2. ASSUME NEW d \in Dataset
      PROVE  /\ Kept(d)' = Kept(d) /\ Queued(d)' = Queued(d) /\ Working(d)' = Working(d)
             /\ ApartEntry(snapshots[d])' = ApartEntry(snapshots[d])
             /\ ApartQueue(inbox[d])' = ApartQueue(inbox[d])
  BY DEF Kept, Queued, Working, ApartEntry, ApartQueue
<1>3. \A d \in Dataset : Owned(d)' = Owned(d) /\ (ApartLocal(d) => ApartLocal(d)')
  BY <1>2 DEF Owned, ApartLocal
<1>. QED
  BY <1>1, <1>3 DEF TableInv

LEMMA WorkerTable ==
  ASSUME TypeInv, NEW d \in Dataset
  PROVE  /\ worker[d].st # "building" => Working(d) = {}
         /\ worker[d].st = "building" => /\ worker[d].snap \in Snap
                                         /\ Working(d) = {worker[d].snap.table}
<1>1. worker[d] \in ShapedWorker
  BY TypeFacts
<1>2. worker[d].st = "building" => worker[d].snap \in Snap /\ worker[d].snap # None
  BY <1>1, WorkerFields DEF ShapedWorker
<1>3. worker[d].st # "building" => worker[d].snap = None
  BY <1>1 DEF ShapedWorker
<1>. QED
  BY <1>2, <1>3, TablesOfOne DEF Working

(* A worker hands over what it holds, or nothing.                          *)
LEMMA CallTables ==
  ASSUME TypeInv, TableInv, NEW d \in Dataset, NEW snap \in Snap \cup {None},
         Call(d, snap), UNCHANGED snapshots, Tables({snap}) \subseteq Working(d)
  PROVE  /\ Kept(d)' = Kept(d)
         /\ Queued(d)' = Queued(d) \cup Tables({snap})
         /\ Working(d)' = {}
         /\ ApartLocal(d)'
         /\ \A e \in Dataset \ {d} : UNCHANGED <<snapshots[e], inbox[e], worker[e]>>
<1>. DEFINE m == [kind |-> "apply", snap |-> snap]
<1>1. /\ inbox[d] \in Seq(Message) /\ m \in Message /\ m.snap = snap
      /\ inbox'[d] = Append(inbox[d], m)
      /\ worker'[d].snap = None
      /\ \A e \in Dataset \ {d} : UNCHANGED <<snapshots[e], inbox[e], worker[e]>>
  BY TypeFacts, MessageType DEF Call, ShapedWorker, Worker
<1>. HIDE DEF m
<1>2. ApartLocal(d)
  BY DEF TableInv
<1>3. Tables({m.snap}) \cap QueuedIn(inbox[d]) = {}
  BY <1>1, <1>2, QueuedIs DEF ApartLocal
<1>4. /\ ApartQueue(inbox'[d])
      /\ QueuedIn(inbox'[d]) = QueuedIn(inbox[d]) \cup Tables({snap})
  BY <1>1, <1>2, <1>3, QueueAppend DEF ApartLocal
<1>5. /\ Kept(d)' = Kept(d) /\ Working(d)' = {}
      /\ Queued(d)' = Queued(d) \cup Tables({snap})
  BY <1>1, <1>4, QueuedIs, TablesOfOne DEF Kept, Working, Queued, QueuedIn
<1>6. ApartEntry(snapshots[d])' /\ ApartQueue(inbox[d])'
  BY <1>2, <1>4 DEF ApartLocal, ApartEntry, ApartQueue
<1>7. ApartLocal(d)'
  BY <1>2, <1>5, <1>6 DEF ApartLocal
<1>. QED
  BY <1>1, <1>5, <1>7

LEMMA WorkerReadTables ==
  ASSUME TypeInv, TableInv, NEW d \in Dataset, Manual(d) \/ Poll(d) \/ RefreshNow(d)
  PROVE  TableInv'
<1>1. PICK how \in Path, force \in BOOLEAN, kicks \in Nat : WorkerRead(d, how, force, kicks)
  BY RefreshBegins
<1>2. \A e \in Dataset : worker'[e].snap = worker[e].snap
  BY <1>1, ReadEffect
<1>. QED
  BY <1>1, <1>2, SameTables DEF WorkerRead

LEMMA WorkerSkipTables ==
  ASSUME TypeInv, TableInv, NEW d \in Dataset, WorkerSkip(d)
  PROVE  TableInv'
<1>1. Tables({None}) = {} /\ Working(d) = {}
  BY TablesOfOne, WorkerTable DEF WorkerSkip
<1>2. /\ Kept(d)' = Kept(d) /\ Queued(d)' = Queued(d) /\ Working(d)' = {}
      /\ ApartLocal(d)'
      /\ \A e \in Dataset \ {d} : UNCHANGED <<snapshots[e], inbox[e], worker[e]>>
  BY <1>1, CallTables DEF WorkerSkip
<1>3. UNCHANGED <<builds, db, retiring>> /\ Building' = Building
  BY DEF WorkerSkip, Building
<1>4. Owned(d)' = Owned(d) /\ Owned(d) \subseteq db \ retiring
  BY <1>1, <1>2 DEF TableInv, Owned
<1>. QED
  BY <1>2, <1>3, <1>4, LocalMove

LEMMA WorkerBuildTables ==
  ASSUME TypeInv, TableInv, NEW d \in Dataset, WorkerBuild(d)
  PROVE  TableInv'
<1>1. PICK id \in SnapshotId, t \in Fresh :
        /\ worker' = [worker EXCEPT ![d] =
             [@ EXCEPT !.st = "building",
                       !.snap = Built(id, t, worker[d].def, worker[d].how)]]
        /\ db' = db \cup {t}
  BY DEF WorkerBuild
<1>2. t \notin InUse /\ t \notin retiring
  BY DEF Fresh
<1>3. Built(id, t, worker[d].def, worker[d].how) \in Snap
  BY <1>1, TypeFacts, WorkerFields, BuiltType DEF WorkerBuild, Fresh
<1>4. /\ worker'[d].snap \in Snap /\ worker'[d].snap.table = t
      /\ \A e \in Dataset \ {d} : UNCHANGED <<snapshots[e], inbox[e], worker[e]>>
  <2>1. worker \in [Dataset -> Worker]
    BY TypeFacts DEF ShapedWorker
  <2>2. /\ worker'[d].snap = Built(id, t, worker[d].def, worker[d].how)
        /\ \A e \in Dataset \ {d} : worker'[e] = worker[e]
    <3>1. worker[d] \in Worker /\ worker'[d] =
            [worker[d] EXCEPT !.st = "building",
                              !.snap = Built(id, t, worker[d].def, worker[d].how)]
      BY <1>1, <2>1
    <3>2. \A e \in Dataset \ {d} : worker'[e] = worker[e]
      BY <1>1, <2>1
    <3>. QED
      BY <3>1, <3>2 DEF Worker
  <2>3. UNCHANGED <<snapshots, inbox>>
    BY DEF WorkerBuild
  <2>. QED
    BY <1>3, <2>2, <2>3 DEF Built
<1>5. Working(d)' = {t}
  BY <1>4, TablesOfOne, NoneAssumption DEF Working, Snap
<1>6. /\ Kept(d)' = Kept(d) /\ Queued(d)' = Queued(d) /\ Building' = Building
      /\ UNCHANGED <<builds, retiring, snapshots, inbox>>
  BY DEF WorkerBuild, Kept, Queued, Building
<1>7. t \notin Owned(d) \cup Building /\ ApartLocal(d)
  BY <1>2, OwnedInUse DEF TableInv
<1>8. ApartLocal(d)'
  <2>1. ApartEntry(snapshots[d])' /\ ApartQueue(inbox[d])'
    BY <1>6, <1>7 DEF ApartLocal, ApartEntry, ApartQueue
  <2>. QED
    BY <2>1, <1>5, <1>6, <1>7 DEF ApartLocal, Owned
<1>. QED
  BY <1>1, <1>2, <1>4, <1>5, <1>6, <1>7, <1>8, LocalStep DEF TableInv, Owned

LEMMA WorkerBuiltTables ==
  ASSUME TypeInv, TableInv, NEW d \in Dataset, WorkerBuilt(d)
  PROVE  TableInv'
<1>1. /\ worker[d].snap \in Snap /\ Tables({worker[d].snap}) = Working(d)
  BY WorkerTable DEF WorkerBuilt, Working
<1>2. /\ Kept(d)' = Kept(d) /\ Queued(d)' = Queued(d) \cup Working(d)
      /\ Working(d)' = {} /\ ApartLocal(d)'
      /\ \A e \in Dataset \ {d} : UNCHANGED <<snapshots[e], inbox[e], worker[e]>>
  BY <1>1, CallTables DEF WorkerBuilt
<1>3. UNCHANGED <<builds, db, retiring>> /\ Building' = Building
  BY DEF WorkerBuilt, Building
<1>4. Owned(d)' = Owned(d) /\ Owned(d) \subseteq db \ retiring
  BY <1>2 DEF TableInv, Owned
<1>. QED
  BY <1>2, <1>3, <1>4, LocalMove

LEMMA DropTables ==
  ASSUME NEW t, Drop(t)
  PROVE  db' \subseteq db /\ db \ db' \subseteq {t}
  BY DEF Drop

LEMMA WorkerRejectsTables ==
  ASSUME TypeInv, TableInv, NEW d \in Dataset, WorkerRejects(d)
  PROVE  TableInv'
<1>1. Working(d) = {worker[d].snap.table}
  BY WorkerTable DEF WorkerRejects
<1>2. /\ Kept(d)' = Kept(d) /\ Queued(d)' = Queued(d) /\ Working(d)' = {} /\ ApartLocal(d)'
      /\ \A e \in Dataset \ {d} : UNCHANGED <<snapshots[e], inbox[e], worker[e]>>
  BY TablesOfOne, CallTables DEF WorkerRejects
<1>3. /\ UNCHANGED <<builds, retiring>> /\ Building' = Building
      /\ db' \subseteq db /\ db \ db' \subseteq Working(d)
  BY <1>1, DropTables DEF WorkerRejects, Building
<1>4. ApartLocal(d)
  BY DEF TableInv
<1>5. Owned(d)' \subseteq Owned(d) \ Working(d) /\ Working(d) \subseteq Owned(d)
  BY <1>2, <1>4 DEF Owned, ApartLocal
<1>6. Owned(d) \subseteq db \ retiring
  BY DEF TableInv
<1>. QED
  BY <1>2, <1>3, <1>5, <1>6, LocalMove

LEMMA WorkerDiesTables ==
  ASSUME TypeInv, TableInv, NEW d \in Dataset, WorkerDies(d)
  PROVE  TableInv'
<1>1. /\ worker'[d].snap = None
      /\ \A e \in Dataset \ {d} : UNCHANGED <<snapshots[e], inbox[e], worker[e]>>
  BY TypeFacts DEF WorkerDies, Idle, NoWorker
<1>2. /\ Kept(d)' = Kept(d) /\ Queued(d)' = Queued(d) /\ Working(d)' = {}
      /\ Building' = Building /\ UNCHANGED <<builds, db, retiring, snapshots, inbox>>
  BY <1>1, TablesOfOne DEF WorkerDies, Kept, Queued, Working, Building
<1>3. ApartLocal(d)'
  BY <1>2 DEF TableInv, ApartLocal, ApartEntry, ApartQueue
<1>4. Owned(d)' \subseteq Owned(d) /\ Owned(d) \subseteq db \ retiring
  BY <1>2 DEF TableInv, Owned
<1>. QED
  BY <1>1, <1>2, <1>3, <1>4, LocalMove

(* The runtime takes a message: its table is the runtime's now.            *)
LEMMA TakeTables ==
  ASSUME TypeInv, TableInv, NEW d \in Dataset, inbox[d] # <<>>,
         inbox' = [inbox EXCEPT ![d] = Tail(@)]
  PROVE  /\ Queued(d) = Tables({Head(inbox[d]).snap}) \cup Queued(d)'
         /\ Tables({Head(inbox[d]).snap}) \cap Queued(d)' = {}
         /\ ApartQueue(inbox[d])'
         /\ \A e \in Dataset \ {d} : UNCHANGED inbox[e]
         /\ Head(inbox[d]).snap \in Snap \cup {None}
<1>1. /\ inbox[d] \in Seq(Message) /\ inbox'[d] = Tail(inbox[d])
      /\ \A e \in Dataset \ {d} : UNCHANGED inbox[e]
      /\ Head(inbox[d]) \in Message
  BY TypeFacts
<1>2. ApartQueue(inbox[d])
  BY DEF TableInv, ApartLocal
<1>3. Queued(d)' = QueuedIn(Tail(inbox[d]))
  BY <1>1 DEF Queued, QueuedIn
<1>4. /\ ApartQueue(Tail(inbox[d]))
      /\ QueuedIn(inbox[d]) = Tables({Head(inbox[d]).snap}) \cup QueuedIn(Tail(inbox[d]))
      /\ Tables({Head(inbox[d]).snap}) \cap QueuedIn(Tail(inbox[d])) = {}
  BY <1>1, <1>2, QueueTail
<1>5. ApartQueue(inbox[d])'
  <2>1. ApartQueue(inbox'[d])
    BY <1>1, <1>4
  <2>. QED
    BY <2>1 DEF ApartQueue
<1>6. Head(inbox[d]).snap \in Snap \cup {None}
  BY <1>1, MessageType
<1>. QED
  BY <1>1, <1>3, <1>4, <1>5, <1>6, QueuedIs

LEMMA ApplyingTables ==
  ASSUME TypeInv, TableInv, NEW d \in Dataset,
         NEW w \in {worker[d], Kick(worker[d])}, Applying(d, w)
  PROVE  /\ Queued(d) = Tables({Head(inbox[d]).snap}) \cup Queued(d)'
         /\ Tables({Head(inbox[d]).snap}) \cap Queued(d)' = {}
         /\ ApartQueue(inbox[d])'
         /\ Working(d)' = Working(d)
         /\ Building' = Building
         /\ UNCHANGED <<builds, db>>
         /\ \A e \in Dataset \ {d} : UNCHANGED <<inbox[e], worker[e]>>
         /\ Head(inbox[d]).snap \in Snap \cup {None}
<1>1. inbox[d] # <<>> /\ inbox' = [inbox EXCEPT ![d] = Tail(@)]
  BY DEF Applying, Answer
<1>2. UNCHANGED <<builds, db>> /\ Building' = Building
  BY DEF Applying, Building
<1>3. worker'[d].snap = worker[d].snap
  <2>1. worker[d] \in ShapedWorker /\ worker'[d] \in ShapedWorker
    BY AnswerEffect, TypeFacts
  <2>2. CASE worker'[d] \in {worker[d], Kick(worker[d])}
    BY <2>1, <2>2, KickKeeps
  <2>3. CASE worker[d].st = "calling" /\ worker'[d].st = "idle"
    BY <2>1, <2>3 DEF ShapedWorker
  <2>. QED
    BY <2>2, <2>3, AnswerEffect
<1>4. Working(d)' = Working(d)
  BY <1>3 DEF Working
<1>. QED
  BY <1>1, <1>2, <1>4, AnswerEffect, TakeTables

LEMMA ApplyUnchangedTables ==
  ASSUME TypeInv, TableInv, NEW d \in Dataset, ApplyUnchanged(d)
  PROVE  TableInv'
<1>1. Tables({Head(inbox[d]).snap}) = {}
  BY TablesOfOne DEF ApplyUnchanged
<1>2. /\ Queued(d)' = Queued(d) /\ ApartQueue(inbox[d])' /\ Working(d)' = Working(d)
      /\ Building' = Building /\ UNCHANGED <<builds, db>>
      /\ \A e \in Dataset \ {d} : UNCHANGED <<inbox[e], worker[e]>>
  BY <1>1, ApplyingTables DEF ApplyUnchanged
<1>3. UNCHANGED <<snapshots, retiring>> /\ Kept(d)' = Kept(d)
  BY DEF ApplyUnchanged, Kept
<1>4. ApartLocal(d)'
  BY <1>2, <1>3 DEF TableInv, ApartLocal, ApartEntry
<1>5. Owned(d)' = Owned(d) /\ Owned(d) \subseteq db \ retiring
  BY <1>2, <1>3 DEF TableInv, Owned
<1>. QED
  BY <1>2, <1>3, <1>4, <1>5, LocalMove

LEMMA ApplyLostTables ==
  ASSUME TypeInv, TableInv, NEW d \in Dataset, ApplyLost(d)
  PROVE  TableInv'
<1>. DEFINE lost == Tables({Head(inbox[d]).snap})
<1>1. /\ Queued(d) = lost \cup Queued(d)' /\ lost \cap Queued(d)' = {}
      /\ ApartQueue(inbox[d])' /\ Working(d)' = Working(d)
      /\ Building' = Building /\ UNCHANGED <<builds, db>>
      /\ \A e \in Dataset \ {d} : UNCHANGED <<inbox[e], worker[e]>>
  BY ApplyingTables DEF ApplyLost
<1>2. UNCHANGED snapshots /\ Kept(d)' = Kept(d) /\ retiring' = retiring \cup lost
  BY DEF ApplyLost, Kept, Retire
<1>. HIDE DEF lost
<1>3. ApartLocal(d)
  BY DEF TableInv
<1>4. ApartLocal(d)'
  BY <1>1, <1>2, <1>3 DEF ApartLocal, ApartEntry
<1>5. Owned(d)' = Owned(d) \ lost /\ lost \subseteq Owned(d)
  BY <1>1, <1>2, <1>3 DEF Owned, ApartLocal
<1>6. Owned(d) \subseteq db \ retiring
  BY DEF TableInv
<1>. QED
  BY <1>1, <1>2, <1>4, <1>5, <1>6, LocalMove

(* swap_in keeps what was active, and retires only what was previous.      *)
LEMMA SwapTables ==
  ASSUME TypeInv, TableInv, NEW d \in Dataset, NEW snap \in Snap, SwapIn(d, snap),
         snap.table \notin Kept(d)
  PROVE  /\ Kept(d)' \subseteq {snap.table} \cup Kept(d)
         /\ snap.table \in Kept(d)'
         /\ ApartEntry(snapshots[d])'
         /\ \A e \in Dataset \ {d} : UNCHANGED snapshots[e]
         /\ retiring \subseteq retiring'
         /\ retiring' \ retiring \subseteq Kept(d) \ Kept(d)'
<1>. DEFINE old == snapshots[d]
<1>1. /\ snapshots'[d] = [active |-> snap, previous |-> old.active, quarantined |-> None]
      /\ \A e \in Dataset \ {d} : UNCHANGED snapshots[e]
      /\ retiring' = retiring \cup Retire(old.previous, old.active)
  BY TypeFacts DEF SwapIn
<1>2. snap # None
  BY NoneAssumption DEF Snap
<1>3. /\ Kept(d) = Tables({old.active}) \cup Tables({old.previous})
      /\ Kept(d)' = {snap.table} \cup Tables({old.active})
  <2>1. snapshots'[d].active = snap /\ snapshots'[d].previous = old.active
    BY <1>1
  <2>2. Tables({snap}) = {snap.table}
    BY <1>2, TablesOfOne
  <2>. QED
    BY <2>1, <2>2, KeptIs, KeptNext
<1>4. ApartEntry(snapshots[d])'
  BY <1>1, <1>3, TablesOfOne DEF ApartEntry
<1>5. /\ Retire(old.previous, old.active) \subseteq Tables({old.previous})
      /\ Retire(old.previous, old.active) \cap Tables({old.active}) = {}
  BY TablesOfOne DEF Retire
<1>. QED
  BY <1>1, <1>3, <1>4, <1>5

LEMMA ApplySwapTables ==
  ASSUME TypeInv, TableInv, NEW d \in Dataset, ApplySwap(d)
  PROVE  TableInv'
<1>. DEFINE snap == Head(inbox[d]).snap
<1>1. /\ Queued(d) = Tables({snap}) \cup Queued(d)' /\ Tables({snap}) \cap Queued(d)' = {}
      /\ ApartQueue(inbox[d])' /\ Working(d)' = Working(d)
      /\ Building' = Building /\ UNCHANGED <<builds, db>>
      /\ \A e \in Dataset \ {d} : UNCHANGED <<inbox[e], worker[e]>>
      /\ snap \in Snap
  BY ApplyingTables DEF ApplySwap
<1>2. SwapIn(d, snap) /\ Tables({snap}) = {snap.table}
  BY TablesOfOne DEF ApplySwap
<1>. HIDE DEF snap
<1>3. ApartLocal(d) /\ Owned(d) \subseteq db \ retiring
  BY DEF TableInv
<1>4. snap.table \notin Kept(d)
  BY <1>1, <1>2, <1>3 DEF ApartLocal
<1>5. /\ Kept(d)' \subseteq {snap.table} \cup Kept(d)
      /\ ApartEntry(snapshots[d])'
      /\ \A e \in Dataset \ {d} : UNCHANGED snapshots[e]
      /\ retiring \subseteq retiring' /\ retiring' \ retiring \subseteq Kept(d) \ Kept(d)'
  BY <1>1, <1>2, <1>4, SwapTables
<1>6. ApartLocal(d)'
  BY <1>1, <1>2, <1>3, <1>5 DEF ApartLocal
<1>7. Owned(d)' \subseteq Owned(d) /\ Kept(d) \subseteq Owned(d)
  BY <1>1, <1>2, <1>5 DEF Owned
<1>8. (Owned(d) \subseteq db \ retiring)'
  <2>1. Kept(d) \cap (Queued(d)' \cup Working(d)') = {}
    BY <1>1, <1>3 DEF ApartLocal
  <2>2. Owned(d)' \cap (retiring' \ retiring) = {}
    BY <1>5, <2>1 DEF Owned
  <2>. QED
    BY <1>1, <1>3, <1>7, <2>2
<1>. QED
  BY <1>1, <1>5, <1>6, <1>7, <1>8, LocalMove

LEMMA RollbackTables ==
  ASSUME TypeInv, TableInv, NEW d \in Dataset, Rollback(d)
  PROVE  TableInv'
<1>1. /\ snapshots'[d].active = snapshots[d].previous
      /\ snapshots'[d].previous = snapshots[d].active
      /\ \A e \in Dataset \ {d} : UNCHANGED snapshots[e]
      /\ UNCHANGED <<worker, inbox, db, retiring, builds>>
  BY TypeFacts DEF Rollback
<1>2. /\ Kept(d)' = Kept(d) /\ Queued(d)' = Queued(d) /\ Working(d)' = Working(d)
  <2>1. Kept(d)' = Kept(d)
    BY <1>1, KeptIs, KeptNext
  <2>. QED
    BY <1>1, <2>1 DEF Queued, Working
<1>3. ApartLocal(d)'
  BY <1>1, <1>2 DEF TableInv, ApartLocal, ApartEntry, ApartQueue
<1>4. Owned(d)' = Owned(d) /\ Owned(d) \subseteq db \ retiring
  BY <1>2 DEF TableInv, Owned
<1>. QED
  BY <1>1, <1>3, <1>4, LocalMove

(* A staging build ends: what it delivers is its own table, or nothing.    *)
LEMMA StageTables ==
  ASSUME TypeInv, TableInv, NEW b \in builds, NEW snap \in Snap \cup {None},
         Tables({snap}) \subseteq {b.table},
         builds' = builds \ {b},
         inbox' = [inbox EXCEPT ![b.dataset] =
           Append(@, [kind |-> "staged", gen |-> b.gen, snap |-> snap])],
         UNCHANGED <<snapshots, worker, retiring>>,
         db' \subseteq db, db \ db' \subseteq {b.table} \ Tables({snap})
  PROVE  TableInv'
<1>. DEFINE d == b.dataset
            m == [kind |-> "staged", gen |-> b.gen, snap |-> snap]
<1>1. /\ d \in Dataset /\ m \in Message /\ m.snap = snap /\ inbox[d] \in Seq(Message)
      /\ inbox'[d] = Append(inbox[d], m)
      /\ \A e \in Dataset \ {d} : UNCHANGED <<snapshots[e], inbox[e], worker[e]>>
  BY TypeFacts, MessageType DEF Build
<1>. HIDE DEF d, m
<1>2. /\ b.table \in Building /\ Building' = Building \ {b.table}
      /\ (\A x, y \in builds : x.table = y.table => x = y)'
  BY DEF TableInv, Building
<1>3. /\ ApartLocal(d) /\ Owned(d) \cap Building = {}
      /\ Owned(d) \subseteq db \ retiring /\ Building \subseteq db \ retiring
  BY <1>1 DEF TableInv
<1>4. /\ ApartQueue(inbox'[d])
      /\ QueuedIn(inbox'[d]) = QueuedIn(inbox[d]) \cup Tables({snap})
  <2>1. Tables({m.snap}) \cap QueuedIn(inbox[d]) = {}
    BY <1>1, <1>2, <1>3, QueuedIs DEF Owned
  <2>2. ApartQueue(inbox[d])
    BY <1>3 DEF ApartLocal
  <2>. QED
    BY <1>1, <2>1, <2>2, QueueAppend
<1>5. /\ Kept(d)' = Kept(d) /\ Working(d)' = Working(d)
      /\ Queued(d)' = Queued(d) \cup Tables({snap})
  BY <1>4, QueuedIs DEF Kept, Working, Queued, QueuedIn
<1>6. ApartLocal(d)'
  <2>1. ApartEntry(snapshots[d])' /\ ApartQueue(inbox[d])'
    BY <1>3, <1>4 DEF ApartLocal, ApartEntry, ApartQueue
  <2>2. (Kept(d) \cup Working(d)) \cap Tables({snap}) = {}
    <3>1. b.table \notin Owned(d)
      BY <1>2, <1>3
    <3>. QED
      BY <3>1 DEF Owned
  <2>. QED
    BY <1>3, <1>5, <2>1, <2>2 DEF ApartLocal
<1>7. Owned(d)' = Owned(d) \cup Tables({snap})
  BY <1>5 DEF Owned
<1>8. (Owned(d) \cap Building = {})'
  BY <1>2, <1>3, <1>7
<1>9. (Owned(d) \cup Building \subseteq db \ retiring)'
  <2>1. Owned(d)' \cup Building' \subseteq Owned(d) \cup Building
    BY <1>2, <1>7
  <2>2. (Owned(d)' \cup Building') \cap ({b.table} \ Tables({snap})) = {}
    BY <1>2, <1>3, <1>7
  <2>. QED
    BY <1>3, <2>1, <2>2
<1>10. /\ {} \cap InUse = {} /\ Building \cap {} = {}
       /\ Owned(d)' \subseteq Owned(d) \cup Building \cup {}
       /\ Building' \subseteq Building \cup {}
       /\ (db \ db') \cup (retiring' \ retiring) \subseteq Owned(d) \cup Building \cup retiring
  BY <1>2, <1>7
<1>. QED
  BY <1>1, <1>2, <1>6, <1>8, <1>9, <1>10, LocalStep

LEMMA StagingTables ==
  ASSUME TypeInv, TableInv, NEW b \in builds, Stage(b)
  PROVE  TableInv'
<1>1. CASE StageOk(b)
  <2>1. PICK id \in SnapshotId :
          inbox' = [inbox EXCEPT ![b.dataset] =
            Append(@, [kind |-> "staged", gen |-> b.gen,
                       snap |-> Built(id, b.table, b.def, b.def.path)])]
    BY <1>1 DEF StageOk
  <2>2. /\ Built(id, b.table, b.def, b.def.path) \in Snap
        /\ Built(id, b.table, b.def, b.def.path).table = b.table
    BY TypeFacts, BuiltType DEF Build, Def, Built
  <2>3. Tables({Built(id, b.table, b.def, b.def.path)}) = {b.table}
    BY <2>2, TablesOfOne, NoneAssumption DEF Snap
  <2>4. /\ builds' = builds \ {b} /\ UNCHANGED <<snapshots, worker, retiring, db>>
    BY <1>1 DEF StageOk
  <2>. QED
    BY <2>1, <2>2, <2>3, <2>4, StageTables
<1>2. CASE StageRejects(b) \/ StageDies(b)
  <2>1. /\ builds' = builds \ {b} /\ UNCHANGED <<snapshots, worker, retiring>>
        /\ inbox' = [inbox EXCEPT ![b.dataset] =
             Append(@, [kind |-> "staged", gen |-> b.gen, snap |-> None])]
    BY <1>2 DEF StageRejects, StageDies, StageNothing
  <2>2. db' \subseteq db /\ db \ db' \subseteq {b.table}
    BY <1>2, DropTables DEF StageRejects, StageDies
  <2>. QED
    BY <2>1, <2>2, TablesOfOne, StageTables
<1>. QED
  BY <1>1, <1>2 DEF Stage

LEMMA DeliveringTables ==
  ASSUME TypeInv, TableInv, NEW d \in Dataset, Delivering(d)
  PROVE  /\ Queued(d) = Tables({Head(inbox[d]).snap}) \cup Queued(d)'
         /\ Tables({Head(inbox[d]).snap}) \cap Queued(d)' = {}
         /\ ApartQueue(inbox[d])'
         /\ UNCHANGED <<builds, db>>
         /\ \A e \in Dataset \ {d} : UNCHANGED inbox[e]
         /\ Head(inbox[d]).snap \in Snap \cup {None}
  BY TakeTables DEF Delivering

(* A result that does not land is given up.                                *)
LEMMA NotLandedTables ==
  ASSUME TypeInv, TableInv, NEW d \in Dataset, StageNotReady(d) \/ StageSuperseded(d)
  PROVE  TableInv'
<1>. DEFINE lost == Tables({Head(inbox[d]).snap})
<1>1. /\ Queued(d) = lost \cup Queued(d)' /\ lost \cap Queued(d)' = {}
      /\ ApartQueue(inbox[d])' /\ UNCHANGED <<builds, db>>
      /\ \A e \in Dataset \ {d} : UNCHANGED inbox[e]
  BY DeliveringTables DEF StageNotReady, StageSuperseded
<1>2. /\ UNCHANGED <<snapshots, worker>> /\ Kept(d)' = Kept(d) /\ Working(d)' = Working(d)
      /\ retiring' = retiring \cup lost
  BY DEF StageNotReady, StageSuperseded, Kept, Working, Retire
<1>. HIDE DEF lost
<1>3. ApartLocal(d) /\ Owned(d) \subseteq db \ retiring
  BY DEF TableInv
<1>4. ApartLocal(d)'
  BY <1>1, <1>2, <1>3 DEF ApartLocal, ApartEntry
<1>5. Owned(d)' = Owned(d) \ lost /\ lost \subseteq Owned(d)
  BY <1>1, <1>2, <1>3 DEF Owned, ApartLocal
<1>. QED
  BY <1>1, <1>2, <1>3, <1>4, <1>5, LocalMove

LEMMA CutoverTables ==
  ASSUME TypeInv, TableInv, NEW d \in Dataset, Cutover(d)
  PROVE  TableInv'
<1>. DEFINE snap == Head(inbox[d]).snap
<1>1. /\ Queued(d) = Tables({snap}) \cup Queued(d)' /\ Tables({snap}) \cap Queued(d)' = {}
      /\ ApartQueue(inbox[d])' /\ UNCHANGED <<builds, db>>
      /\ \A e \in Dataset \ {d} : UNCHANGED inbox[e]
      /\ snap \in Snap /\ Tables({snap}) = {snap.table}
  BY DeliveringTables, TablesOfOne DEF Cutover, Lands
<1>2. /\ snapshots'[d] = Promoted(d, snap)
      /\ worker'[d].snap = None
      /\ \A e \in Dataset \ {d} : UNCHANGED <<snapshots[e], worker[e]>>
      /\ retiring' = retiring \cup Retire(snapshots[d].active, snap)
                              \cup Retire(snapshots[d].previous, snap)
  BY TypeFacts DEF Cutover, Idle, NoWorker
<1>. HIDE DEF snap
<1>3. Kept(d)' = {snap.table} /\ Working(d)' = {} /\ ApartEntry(snapshots[d])'
  <2>1. snapshots'[d].active = snap /\ snapshots'[d].previous = None
    BY <1>2 DEF Promoted
  <2>2. Kept(d)' = {snap.table}
    BY <1>1, <2>1, KeptNext, TablesOfOne
  <2>. QED
    BY <1>2, <2>1, <2>2, TablesOfOne DEF Working, ApartEntry
<1>4. retiring \subseteq retiring' /\ retiring' \ retiring \subseteq Kept(d)
  BY <1>2, KeptIs DEF Retire
<1>5. ApartLocal(d) /\ Owned(d) \subseteq db \ retiring
  BY DEF TableInv
<1>6. ApartLocal(d)'
  BY <1>1, <1>3 DEF ApartLocal
<1>7. Owned(d)' = Queued(d) /\ Queued(d) \cup Kept(d) \subseteq Owned(d)
  BY <1>1, <1>3 DEF Owned
<1>8. (Owned(d) \subseteq db \ retiring)'
  BY <1>1, <1>4, <1>5, <1>7 DEF ApartLocal
<1>. QED
  BY <1>1, <1>2, <1>4, <1>6, <1>7, <1>8, LocalMove

(* A retry starts a build on a new table, or does nothing.                 *)
LEMMA RetryStageTables ==
  ASSUME TypeInv, TableInv, NEW r \in retries, RetryStage(r)
  PROVE  TableInv'
<1>1. UNCHANGED <<snapshots, inbox, worker, retiring>>
  BY DEF RetryStage
<1>2. CASE ~Current(r.dataset, r.gen)
  BY <1>1, <1>2, SameTables DEF RetryStage
<1>3. CASE Current(r.dataset, r.gen)
  <2>. DEFINE d == r.dataset
  <2>1. PICK t \in Fresh :
          /\ builds' = builds \cup {[dataset |-> d, gen |-> r.gen,
                                     def |-> pending[d].def, table |-> t]}
          /\ db' = db \cup {t}
    BY <1>3 DEF RetryStage
  <2>2. d \in Dataset
    BY DEF TypeInv, TypeOK
  <2>. HIDE DEF d
  <2>3. t \notin InUse /\ t \notin retiring /\ t \notin Building /\ t \notin Owned(d)
    BY <2>2, OwnedInUse DEF Fresh
  <2>4. Building' = Building \cup {t}
    <3>1. Building' = {b.table : b \in builds} \cup
                      {b.table : b \in {[dataset |-> d, gen |-> r.gen,
                                         def |-> pending[d].def, table |-> t]}}
      BY <2>1 DEF Building
    <3>. QED
      BY <3>1 DEF Building
  <2>5. (\A a, b \in builds : a.table = b.table => a = b)'
    BY <2>1, <2>3 DEF TableInv, Building
  <2>6. /\ ApartLocal(d) /\ Owned(d) \cap Building = {}
        /\ Owned(d) \subseteq db \ retiring /\ Building \subseteq db \ retiring
    BY <2>2 DEF TableInv
  <2>7. Kept(d)' = Kept(d) /\ Queued(d)' = Queued(d) /\ Working(d)' = Working(d)
    BY <1>1 DEF Kept, Queued, Working
  <2>8. ApartLocal(d)' /\ Owned(d)' = Owned(d)
    BY <1>1, <2>6, <2>7 DEF ApartLocal, ApartEntry, ApartQueue, Owned
  <2>9. (Owned(d) \cap Building = {})'
    BY <2>3, <2>4, <2>6, <2>8
  <2>10. (Owned(d) \cup Building \subseteq db \ retiring)'
    BY <1>1, <2>1, <2>3, <2>4, <2>6, <2>8
  <2>11. /\ {t} \cap InUse = {} /\ Building \cap {t} = {}
         /\ Owned(d)' \subseteq Owned(d) \cup Building \cup {t}
         /\ Building' \subseteq Building \cup {t}
         /\ (db \ db') \cup (retiring' \ retiring) \subseteq Owned(d) \cup Building \cup retiring
    BY <1>1, <2>1, <2>3, <2>4, <2>8
  <2>. QED
    BY <1>1, <2>2, <2>5, <2>8, <2>9, <2>10, <2>11, LocalStep
<1>. QED
  BY <1>2, <1>3

LEMMA EngineDropTables ==
  ASSUME TypeInv, TableInv, NEW t \in retiring, EngineDrop(t)
  PROVE  TableInv'
<1>1. /\ UNCHANGED <<snapshots, inbox, worker, builds>> /\ retiring' = retiring \ {t}
      /\ db \ db' \subseteq {t}
  BY DropTables DEF EngineDrop
<1>2. Building' = Building
  BY <1>1 DEF Building
<1>3. ASSUME NEW d \in Dataset
      PROVE  Owned(d)' = Owned(d) /\ (ApartLocal(d) => ApartLocal(d)')
  <2>1. Kept(d)' = Kept(d) /\ Queued(d)' = Queued(d) /\ Working(d)' = Working(d)
    BY <1>1 DEF Kept, Queued, Working
  <2>2. ApartLocal(d) => ApartEntry(snapshots[d])' /\ ApartQueue(inbox[d])'
    BY <1>1 DEF ApartLocal, ApartEntry, ApartQueue
  <2>. QED
    BY <2>1, <2>2 DEF Owned, ApartLocal
<1>4. db \ retiring \subseteq db' \ retiring'
  BY <1>1
<1>. QED
  BY <1>1, <1>2, <1>3, <1>4 DEF TableInv

(* Nothing is in flight, and what is kept is apart and in the file.        *)
Quiet ==
  /\ \A d \in Dataset : worker[d].snap = None /\ inbox[d] = <<>>
  /\ builds = {}
  /\ \A d \in Dataset : ApartEntry(snapshots[d]) /\ Kept(d) \subseteq db \ retiring
  /\ \A d, e \in Dataset : d # e => Kept(d) \cap Kept(e) = {}

LEMMA QuietTables == Quiet => TableInv
<1>. SUFFICES ASSUME Quiet PROVE TableInv
  OBVIOUS
<1>1. \A d \in Dataset : Working(d) = {}
  BY TablesOfOne DEF Working, Quiet
<1>2. DOMAIN <<>> = {}
  OBVIOUS
<1>3. \A d \in Dataset : Queued(d) = {} /\ ApartQueue(inbox[d])
  BY <1>2 DEF Queued, Tables, ApartQueue, Quiet
<1>4. Building = {}
  BY DEF Building, Quiet
<1>. QED
  BY <1>1, <1>3, <1>4 DEF TableInv, ApartLocal, Owned, Quiet

LEMMA QuietTablesNext == Quiet' => TableInv'
  BY QuietTables, PTL

LEMMA NoEntryTables ==
  ASSUME NEW d, snapshots[d] = NoEntry
  PROVE  ApartEntry(snapshots[d]) /\ Kept(d) = {}
<1>1. snapshots[d].active = None /\ snapshots[d].previous = None
  BY DEF NoEntry
<1>. QED
  BY <1>1, KeptIs, TablesOfOne DEF ApartEntry

LEMMA NoEntryTablesNext ==
  ASSUME NEW d, snapshots'[d] = NoEntry
  PROVE  ApartEntry(snapshots'[d]) /\ Kept(d)' = {}
<1>1. snapshots'[d].active = None /\ snapshots'[d].previous = None
  BY DEF NoEntry
<1>. QED
  BY <1>1, KeptNext, TablesOfOne DEF ApartEntry

------------------------------------------------------------------------------
(* Steps of several datasets, and of a runtime that is not up              *)

LEMMA ReloadTables ==
  ASSUME TypeInv, TableInv, NEW c \in Configs, Reload(c)
  PROVE  TableInv'
<1>. DEFINE gone == Removed(c)
            made == {b \in builds' : b \notin builds}
            news == {b.table : b \in made}
<1>1. PICK table \in [Restaged(c) -> Fresh] :
        /\ IsInjective(table)
        /\ builds' = builds \cup
             {[dataset |-> d, gen |-> PendingAfter(c)[d].gen,
               def |-> PendingAfter(c)[d].def, table |-> table[d]] : d \in Restaged(c)}
        /\ db' = db \cup {table[d] : d \in Restaged(c)}
  BY DEF Reload
<1>2. \A b \in made : \E d \in Restaged(c) :
        b = [dataset |-> d, gen |-> PendingAfter(c)[d].gen,
             def |-> PendingAfter(c)[d].def, table |-> table[d]]
  BY <1>1
<1>3. /\ \A b \in made : b.table \in Fresh /\ b.table \in db'
      /\ \A a, b \in made : a.table = b.table => a = b
      /\ db \subseteq db'
  <2>1. \A d, e \in Restaged(c) : table[d] = table[e] => d = e
    BY <1>1 DEF IsInjective
  <2>. QED
    BY <1>1, <1>2, <2>1
<1>. HIDE DEF made
<1>4. builds' \subseteq builds \cup made
  BY DEF made
<1>5. news \cap (InUse \cup retiring) = {} /\ news \subseteq db'
  BY <1>3 DEF Fresh
<1>. HIDE DEF news
<1>6. Building' \subseteq Building \cup news
  BY <1>4 DEF Building, news
<1>7. ASSUME NEW d \in Dataset
      PROVE  /\ inbox'[d] = inbox[d]
             /\ snapshots'[d] = snapshots[d] \/ snapshots'[d] = NoEntry
             /\ d \in gone => snapshots'[d] = NoEntry
             /\ worker'[d] = worker[d] \/ worker'[d].snap = None
             /\ d \in gone => worker'[d].snap = None
  BY DEF Reload, WorkersAfter, Remaining, NoWorker, Idle
<1>8. ASSUME NEW d \in Dataset
      PROVE  /\ Kept(d)' \subseteq Kept(d)
             /\ Queued(d)' = Queued(d) /\ ApartQueue(inbox[d])'
             /\ Working(d)' \subseteq Working(d)
             /\ d \in gone => Kept(d)' = {} /\ Working(d)' = {}
             /\ ApartEntry(snapshots[d])'
  <2>1. ApartLocal(d)
    BY DEF TableInv
  <2>2. /\ Queued(d)' = Queued(d) /\ ApartQueue(inbox[d])'
        /\ Working(d)' \subseteq Working(d)
        /\ d \in gone => Working(d)' = {}
    <3>1. Queued(d)' = Queued(d) /\ ApartQueue(inbox[d])'
      BY <1>7, <2>1 DEF Queued, ApartQueue, ApartLocal
    <3>2. worker'[d].snap = None => Working(d)' = {}
      BY TablesOfOne DEF Working
    <3>3. worker'[d] = worker[d] => Working(d)' = Working(d)
      BY DEF Working
    <3>. QED
      BY <1>7, <3>1, <3>2, <3>3
  <2>3. CASE snapshots'[d] = NoEntry
    BY <2>2, <2>3, NoEntryTablesNext
  <2>4. CASE snapshots'[d] = snapshots[d] /\ snapshots'[d] # NoEntry
    <3>1. Kept(d)' = Kept(d) /\ ApartEntry(snapshots[d])' /\ d \notin gone
      BY <1>7, <2>1, <2>4 DEF Kept, ApartEntry, ApartLocal
    <3>. QED
      BY <2>2, <3>1
  <2>. QED
    BY <1>7, <2>3, <2>4
<1>9. \A d \in Dataset : ApartLocal(d)'
  BY <1>8 DEF TableInv, ApartLocal
<1>10. \A d \in Dataset : Owned(d)' \subseteq Owned(d)
                          /\ (d \in gone => Owned(d)' = Queued(d))
  BY <1>8 DEF Owned
<1>11. (\A d \in Dataset : Owned(d) \cap Building = {})'
  BY <1>5, <1>6, <1>10, OwnedInUse DEF TableInv
<1>12. (\A d, e \in Dataset : d # e => Owned(d) \cap Owned(e) = {})'
  BY <1>10 DEF TableInv
<1>13. (\A a, b \in builds : a.table = b.table => a = b)'
  <2>1. ASSUME NEW a \in builds, NEW b \in made PROVE a.table # b.table
    BY <1>5, OwnedInUse DEF news, Building
  <2>. QED
    BY <1>3, <1>4, <2>1 DEF TableInv
<1>14. retiring' = retiring \cup UNION {Kept(d) : d \in gone}
  BY DEF Reload
<1>15. gone \subseteq Dataset
  BY DEF Removed, Configured
<1>16. ASSUME NEW d \in Dataset
       PROVE  Owned(d)' \subseteq db' \ retiring'
  <2>1. ASSUME NEW e \in gone PROVE Owned(d)' \cap Kept(e) = {}
    <3>1. CASE d = e
      BY <2>1, <3>1, <1>10 DEF TableInv, ApartLocal
    <3>2. CASE d # e
      BY <2>1, <3>2, <1>10, <1>15 DEF TableInv, Owned
    <3>. QED
      BY <3>1, <3>2
  <2>2. Owned(d)' \subseteq db \ retiring
    BY <1>10 DEF TableInv
  <2>. QED
    BY <1>3, <1>14, <2>1, <2>2
<1>17. Building' \subseteq db' \ retiring'
  <2>1. ASSUME NEW e \in gone PROVE (Building \cup news) \cap Kept(e) = {}
    BY <2>1, <1>5, <1>15, OwnedInUse DEF TableInv, Owned
  <2>. QED
    BY <1>3, <1>5, <1>6, <1>14, <2>1 DEF TableInv
<1>. QED
  BY <1>9, <1>11, <1>12, <1>13, <1>16, <1>17 DEF TableInv

LEMMA CrashTables ==
  ASSUME TypeInv, TableInv, Crash
  PROVE  TableInv'
<1>1. \A d \in Dataset : /\ ApartEntry(snapshots'[d]) /\ Kept(d)' = {}
                         /\ worker'[d].snap = None /\ inbox'[d] = <<>>
  BY NoEntryTablesNext DEF Crash, NoWorker
<1>2. Quiet'
  BY <1>1 DEF Quiet, Crash
<1>. QED
  BY <1>2, QuietTablesNext

(* What a restart resumes is in the sidecar and in the file.               *)
LEMMA SeededTables ==
  ASSUME TypeInv, SidecarInv, NEW c, NEW d \in Dataset
  PROVE  LET entry == Seeded(c, d)
         IN  /\ ApartEntry(entry)
             /\ Tables({entry.active}) \cup Tables({entry.previous}) \subseteq Persisted(d) \cap db
<1>. DEFINE record == sidecar[d]
<1>1. record \in Entry /\ ApartEntry(record)
  BY TypeFacts DEF SidecarInv
<1>2. Persisted(d) = Tables({record.active}) \cup Tables({record.previous})
  BY TablesOfTwo DEF Persisted
<1>3. CASE Seeded(c, d) = NoEntry
  BY <1>3, TablesOfOne DEF NoEntry, ApartEntry
<1>4. CASE /\ Seeded(c, d) = record
           /\ record.active # None /\ record.active.table \in db
           /\ record.previous # None /\ record.previous.table \in db
  BY <1>1, <1>2, <1>4, TablesOfOne
<1>5. CASE /\ Seeded(c, d) = [record EXCEPT !.previous = None]
           /\ record.active # None /\ record.active.table \in db
  <2>1. Seeded(c, d).active = record.active /\ Seeded(c, d).previous = None
    BY <1>1, <1>5 DEF Entry
  <2>2. Tables({None}) = {}
    BY TablesOfOne
  <2>3. record.active.table \in Tables({record.active})
    BY <1>5, TablesOfOne
  <2>4. /\ Tables({Seeded(c, d).active}) = {record.active.table}
        /\ Tables({Seeded(c, d).previous}) = {}
    BY <1>5, <2>1, <2>2, TablesOfOne
  <2>5. ApartEntry(Seeded(c, d))
    BY <2>1 DEF ApartEntry
  <2>. QED
    BY <1>2, <1>5, <2>3, <2>4, <2>5
<1>. QED
  BY <1>3, <1>4, <1>5 DEF Seeded

LEMMA BootTables ==
  ASSUME TypeInv, SidecarInv, IdleInv, NEW c \in Configs, Boot(c)
  PROVE  TableInv'
<1>1. \A d \in Dataset : snapshots'[d] = Seeded(c, d)
  BY DEF Boot
<1>2. \A d \in Dataset : ApartEntry(snapshots'[d]) /\ Kept(d)' \subseteq Persisted(d) \cap db
  BY <1>1, SeededTables, KeptNext
<1>3. /\ UNCHANGED <<worker, inbox, builds, db, retiring>> /\ retiring = {} /\ builds = {}
      /\ \A d \in Dataset : worker[d].snap = None /\ inbox[d] = <<>>
  BY DEF Boot, IdleInv, NoWorker
<1>4. Quiet'
  BY <1>2, <1>3 DEF Quiet, SidecarInv
<1>. QED
  BY <1>4, QuietTablesNext

LEMMA IdleQuiet ==
  ASSUME TableInv, IdleInv, phase # "up"
  PROVE  Quiet
<1>1. \A d \in Dataset : worker[d].snap = None /\ inbox[d] = <<>>
  BY DEF IdleInv, NoWorker
<1>. QED
  BY <1>1 DEF IdleInv, Quiet, TableInv, ApartLocal, Owned

LEMMA BootRefreshTables ==
  ASSUME TypeInv, TableInv, IdleInv, NEW d \in Dataset, BootRefresh(d)
  PROVE  TableInv'
<1>. DEFINE def == catalog.datasets[d]
<1>1. PICK id \in SnapshotId, t \in Fresh :
        SwapIn(d, Built(id, t, def, def.path)) /\ db' = db \cup {t}
  BY DEF BootRefresh
<1>2. /\ Built(id, t, def, def.path) \in Snap /\ Built(id, t, def, def.path).table = t
  BY BuiltType DEF BootRefresh, TypeInv, TypeOK, Configured, Def, Fresh, Built
<1>3. t \notin Kept(d) /\ t \notin retiring /\ \A e \in Dataset : t \notin Owned(e)
  BY OwnedInUse DEF Fresh, Owned
<1>4. /\ Kept(d)' \subseteq {t} \cup Kept(d)
      /\ ApartEntry(snapshots[d])'
      /\ \A e \in Dataset \ {d} : UNCHANGED snapshots[e]
      /\ retiring \subseteq retiring' /\ retiring' \ retiring \subseteq Kept(d) \ Kept(d)'
  BY <1>1, <1>2, <1>3, SwapTables
<1>5. Quiet /\ UNCHANGED <<worker, inbox, builds>>
  BY IdleQuiet DEF BootRefresh
<1>6. ASSUME NEW e \in Dataset \ {d}
      PROVE  Kept(e)' = Kept(e) /\ ApartEntry(snapshots'[e])
  <2>1. snapshots'[e] = snapshots[e] /\ ApartEntry(snapshots[e])
    BY <1>4, <1>5 DEF Quiet
  <2>. QED
    BY <2>1 DEF Kept
<1>7. (\A e \in Dataset : Kept(e) \subseteq db \ retiring)'
  <2>1. \A e \in Dataset : t \notin Kept(e) /\ Kept(e) \subseteq db \ retiring
    BY <1>3, <1>5 DEF Quiet, Owned
  <2>2. Kept(d)' \subseteq db' \ retiring'
    BY <1>1, <1>3, <1>4, <2>1
  <2>3. \A e \in Dataset \ {d} : Kept(e) \cap Kept(d) = {}
    BY <1>5 DEF Quiet
  <2>4. \A e \in Dataset \ {d} : Kept(e)' \subseteq db' \ retiring'
    BY <1>1, <1>4, <1>6, <2>1, <2>3
  <2>. QED
    BY <2>2, <2>4
<1>8. (\A e, f \in Dataset : e # f => Kept(e) \cap Kept(f) = {})'
  <2>1. \A e, f \in Dataset : e # f => Kept(e) \cap Kept(f) = {}
    BY <1>5 DEF Quiet
  <2>2. \A e \in Dataset \ {d} : Kept(e)' = Kept(e) /\ t \notin Kept(e)
    BY <1>3, <1>6 DEF Owned
  <2>. QED
    BY <1>4, <2>1, <2>2
<1>9. Quiet'
  BY <1>4, <1>5, <1>6, <1>7, <1>8 DEF Quiet
<1>. QED
  BY <1>9, QuietTablesNext

LEMMA BootFinishTables ==
  ASSUME TypeInv, TableInv, IdleInv, BootFinish
  PROVE  TableInv'
<1>1. Quiet /\ UNCHANGED <<snapshots, inbox, builds, retiring>>
  BY IdleQuiet DEF BootFinish
<1>2. \A d \in Dataset : worker'[d].snap = None
  BY DEF BootFinish, Started, NoWorker, Idle
<1>3. \A d \in Dataset : Kept(d)' = Kept(d) /\ ApartEntry(snapshots'[d])
  BY <1>1 DEF Kept, Quiet, ApartEntry
<1>4. \A d \in Dataset : Kept(d) \subseteq db' \ retiring
  <2>1. \A d \in Dataset : Kept(d) \subseteq UNION {Kept(e) : e \in Dataset}
    OBVIOUS
  <2>. QED
    BY <1>1, <2>1 DEF BootFinish, Quiet
<1>5. Quiet'
  BY <1>1, <1>2, <1>3, <1>4 DEF Quiet
<1>. QED
  BY <1>5, QuietTablesNext

------------------------------------------------------------------------------
(* The sidecar, and what is in flight when                                 *)

(* A record of what is kept is apart as what is kept is.                   *)
LEMMA WriteSidecarTables ==
  ASSUME TableInv', SidecarInv, NEW S, NEW left, snapshots' = S, WriteSidecar(S, left)
  PROVE  SidecarInv'
<1>1. CASE UNCHANGED sidecar
  BY <1>1 DEF SidecarInv, Persisted, ApartEntry
<1>2. CASE sidecar' = [d \in Dataset |-> IF S[d].active = None THEN NoEntry ELSE S[d]]
  <2>1. \A d \in Dataset : Persisted(d)' =
          Tables({sidecar'[d].active}) \cup Tables({sidecar'[d].previous})
    BY TablesOfTwo DEF Persisted
  <2>2. ASSUME NEW d \in Dataset
        PROVE  ApartEntry(sidecar'[d]) /\ Persisted(d)' \subseteq Kept(d)'
    <3>1. CASE sidecar'[d] = NoEntry
      BY <2>1, <3>1, TablesOfOne DEF NoEntry, ApartEntry
    <3>2. CASE sidecar'[d] = snapshots'[d]
      BY <2>1, <3>2, KeptNext DEF TableInv, ApartLocal
    <3>. QED
      BY <1>2, <3>1, <3>2
  <2>3. \A d, e \in Dataset : d # e => Kept(d)' \cap Kept(e)' = {}
    BY DEF TableInv, Owned
  <2>. QED
    BY <2>2, <2>3 DEF SidecarInv
<1>. QED
  BY <1>1, <1>2 DEF WriteSidecar

LEMMA SidecarStep == SidecarInv /\ TableInv' /\ [Next]_vars => SidecarInv'
<1>. SUFFICES ASSUME SidecarInv, TableInv', [Next]_vars PROVE SidecarInv'
  OBVIOUS
<1>1. ASSUME UNCHANGED sidecar PROVE SidecarInv'
  BY <1>1 DEF SidecarInv, Persisted, ApartEntry
<1>2. ASSUME NEW d, NEW snap, SwapIn(d, snap) PROVE SidecarInv'
  BY <1>2, WriteSidecarTables DEF SwapIn
<1>3. ASSUME NEW d \in Dataset, WorkerStep(d) PROVE SidecarInv'
  BY <1>3, <1>1 DEF WorkerStep, Manual, Poll, RefreshNow, WorkerRead, WorkerSkip, WorkerBuild, WorkerBuilt,
                    WorkerRejects, WorkerDies
<1>4. ASSUME NEW d \in Dataset, Handle(d) PROVE SidecarInv'
  <2>1. CASE ApplySwap(d)
    BY <2>1, <1>2 DEF ApplySwap
  <2>2. CASE Cutover(d)
    BY <2>2, WriteSidecarTables DEF Cutover
  <2>. QED
    BY <1>4, <1>1, <2>1, <2>2
    DEF Handle, ApplyUnchanged, ApplyLost, StageNotReady, StageSuperseded
<1>5. ASSUME NEW d \in Dataset, Rollback(d) PROVE SidecarInv'
  BY <1>5, WriteSidecarTables DEF Rollback
<1>6. ASSUME NEW d \in Dataset, BootRefresh(d) PROVE SidecarInv'
  BY <1>6, <1>2 DEF BootRefresh
<1>7. ASSUME NEW d \in Dataset, BootSkip(d) PROVE SidecarInv'
  BY <1>7, <1>1 DEF BootSkip
<1>8. ASSUME NEW c \in Configs, Reload(c) PROVE SidecarInv'
  BY <1>8, <1>1, WriteSidecarTables DEF Reload
<1>9. ASSUME NEW c \in Configs, Boot(c) PROVE SidecarInv'
  BY <1>9, <1>1 DEF Boot
<1>10. ASSUME NEW b \in builds, Stage(b) PROVE SidecarInv'
  BY <1>10, <1>1 DEF Stage, StageOk, StageRejects, StageDies, StageNothing
<1>11. ASSUME NEW r \in retries, RetryStage(r) PROVE SidecarInv'
  BY <1>11, <1>1 DEF RetryStage
<1>12. ASSUME NEW t \in retiring, EngineDrop(t) PROVE SidecarInv'
  BY <1>12, <1>1 DEF EngineDrop
<1>13. CASE Crash \/ BootFinish \/ UNCHANGED vars
  BY <1>13, <1>1 DEF Crash, BootFinish, vars
<1>. QED
  BY <1>3, <1>4, <1>5, <1>6, <1>7, <1>8, <1>9, <1>10, <1>11, <1>12, <1>13 DEF Next

LEMMA IdleStep == TypeInv /\ IdleInv /\ [Next]_vars => IdleInv'
<1>. SUFFICES ASSUME TypeInv, IdleInv, [Next]_vars PROVE IdleInv'
  OBVIOUS
<1>1. ASSUME phase' = "up" PROVE IdleInv'
  BY <1>1 DEF IdleInv
<1>2. ASSUME NEW d \in Dataset, WorkerStep(d) PROVE phase' = "up"
  BY <1>2 DEF WorkerStep, Manual, Poll, RefreshNow, WorkerRead, WorkerSkip, WorkerBuild, WorkerBuilt, WorkerRejects,
              WorkerDies
<1>3. ASSUME NEW d \in Dataset, Handle(d) PROVE phase' = "up"
  BY <1>3 DEF Handle, ApplyUnchanged, ApplySwap, ApplyLost, Applying, Delivering, Cutover,
              StageNotReady, StageSuperseded
<1>4. ASSUME NEW d \in Dataset, Rollback(d) PROVE phase' = "up"
  BY <1>4 DEF Rollback
<1>5. ASSUME NEW d \in Dataset, BootRefresh(d) \/ BootSkip(d) PROVE IdleInv'
  BY <1>5 DEF BootRefresh, BootSkip, IdleInv
<1>6. ASSUME NEW c \in Configs, Reload(c) PROVE phase' = "up"
  BY <1>6 DEF Reload
<1>7. ASSUME NEW c \in Configs, Boot(c) PROVE IdleInv'
  BY <1>7 DEF Boot, IdleInv
<1>8. ASSUME NEW b \in builds, Stage(b) PROVE phase' = "up"
  BY <1>8 DEF Stage, StageOk, StageRejects, StageDies, StageNothing
<1>9. ASSUME NEW r \in retries, RetryStage(r) PROVE phase' = "up"
  BY <1>9 DEF RetryStage
<1>10. ASSUME NEW t \in retiring, EngineDrop(t) PROVE IdleInv'
  BY <1>10 DEF EngineDrop, IdleInv
<1>11. CASE Crash
  BY <1>11 DEF Crash, IdleInv
<1>12. CASE BootFinish
  BY <1>12, <1>1 DEF BootFinish
<1>13. CASE UNCHANGED vars
  BY <1>13 DEF vars, IdleInv
<1>. QED
  BY <1>1, <1>2, <1>3, <1>4, <1>5, <1>6, <1>7, <1>8, <1>9, <1>10, <1>11, <1>12, <1>13
  DEF Next

LEMMA TableStep == TypeInv /\ TableInv /\ SidecarInv /\ IdleInv /\ [Next]_vars => TableInv'
<1>. SUFFICES ASSUME TypeInv, TableInv, SidecarInv, IdleInv, [Next]_vars PROVE TableInv'
  OBVIOUS
<1>1. ASSUME NEW d \in Dataset, WorkerStep(d) PROVE TableInv'
  BY <1>1, WorkerReadTables, WorkerSkipTables, WorkerBuildTables, WorkerBuiltTables,
     WorkerRejectsTables, WorkerDiesTables DEF WorkerStep
<1>2. ASSUME NEW d \in Dataset, Handle(d) PROVE TableInv'
  BY <1>2, ApplyUnchangedTables, ApplySwapTables, ApplyLostTables, CutoverTables,
     NotLandedTables DEF Handle
<1>3. ASSUME NEW d \in Dataset, Rollback(d) \/ BootRefresh(d) PROVE TableInv'
  BY <1>3, RollbackTables, BootRefreshTables
<1>4. ASSUME NEW c \in Configs, Reload(c) \/ Boot(c) PROVE TableInv'
  BY <1>4, ReloadTables, BootTables
<1>5. ASSUME NEW b \in builds, Stage(b) PROVE TableInv'
  BY <1>5, StagingTables
<1>6. ASSUME NEW r \in retries, RetryStage(r) PROVE TableInv'
  BY <1>6, RetryStageTables
<1>7. ASSUME NEW t \in retiring, EngineDrop(t) PROVE TableInv'
  BY <1>7, EngineDropTables
<1>8. CASE Crash \/ BootFinish
  BY <1>8, CrashTables, BootFinishTables
<1>9. ASSUME NEW d \in Dataset, BootSkip(d) PROVE TableInv'
  BY <1>9, SameTables DEF BootSkip
<1>10. CASE UNCHANGED vars
  BY <1>10, SameTables DEF vars
<1>. QED
  BY <1>1, <1>2, <1>3, <1>4, <1>5, <1>6, <1>7, <1>8, <1>9, <1>10 DEF Next

(* Every table in use has one owner, is in the DuckDB file, and nothing is *)
(* about to drop it; the sidecar never gives two snapshots one table.      *)
THEOREM TablesApart == Spec => [](TableInv /\ SidecarInv)
<1>1. Init => TableInv /\ SidecarInv /\ IdleInv
  <2>1. ASSUME Init PROVE Quiet
    <3>1. \A d \in Dataset : ApartEntry(snapshots[d]) /\ Kept(d) = {}
      BY <2>1, NoEntryTables DEF Init
    <3>. QED
      BY <2>1, <3>1 DEF Init, Quiet, NoWorker
  <2>2. ASSUME Init PROVE SidecarInv
    BY <2>2, TablesOfTwo, TablesOfOne DEF Init, SidecarInv, Persisted, NoEntry, ApartEntry
  <2>. QED
    BY <2>1, <2>2, QuietTables DEF Init, IdleInv
<1>. QED
  BY <1>1, TypeInvariant, TableStep, SidecarStep, IdleStep, PTL DEF Spec

(* Through every refresh, rollback, reload, cutover, crash and restart,    *)
(* with sidecar writes, drops and sweeps failing, no table that a dataset  *)
(* serves or may roll back to is dropped or about to be.                   *)
THEOREM ServedTablesStay == Spec => []KeptTablesStay
<1>1. TableInv => KeptTablesStay
  BY DEF TableInv, KeptTablesStay, Owned
<1>. QED
  BY <1>1, TablesApart, PTL

------------------------------------------------------------------------------
(* No table is forgotten                                                   *)

Swept == failed \subseteq {"sidecar"}

LEMMA InUseIs == InUse = (UNION {Owned(d) : d \in Dataset}) \cup Building
  BY DEF InUse, Owned, Working, Building

LEMMA InUseNext == InUse' = (UNION {Owned(d)' : d \in Dataset}) \cup Building'
  BY DEF InUse, Owned, Working, Building

(* A step of one dataset: what is new in the file is in use, and what is   *)
(* given up is retired or out of the file.                                 *)
LEMMA LocalLeak ==
  ASSUME NothingLeaks, phase = "up", NEW d \in Dataset, Swept' => Swept,
         \A e \in Dataset \ {d} : UNCHANGED <<snapshots[e], inbox[e], worker[e]>>,
         Swept' => /\ db' \subseteq db \cup Owned(d)' \cup Building'
                   /\ (Owned(d) \cup Building \cup retiring) \cap db'
                        \subseteq Owned(d)' \cup Building' \cup retiring'
  PROVE  NothingLeaks'
<1>. SUFFICES ASSUME Swept' PROVE db' \subseteq InUse' \cup retiring'
  BY DEF NothingLeaks, Swept
<1>1. db \subseteq InUse \cup retiring
  BY DEF NothingLeaks, Swept
<1>2. \A e \in Dataset \ {d} : Owned(e)' = Owned(e)
  <2>. SUFFICES ASSUME NEW e \in Dataset \ {d} PROVE Owned(e)' = Owned(e)
    OBVIOUS
  <2>0. snapshots'[e] = snapshots[e] /\ inbox'[e] = inbox[e] /\ worker'[e] = worker[e]
    OBVIOUS
  <2>1. Kept(e)' = Kept(e) /\ Working(e)' = Working(e)
    BY <2>0 DEF Kept, Working
  <2>2. Queued(e)' = Queued(e)
    BY <2>0 DEF Queued
  <2>. QED
    BY <2>1, <2>2 DEF Owned
<1>3. ASSUME NEW t \in db' PROVE t \in InUse' \cup retiring'
  <2>1. CASE t \in Owned(d)' \cup Building' \cup retiring'
    BY <2>1, InUseNext
  <2>2. CASE t \notin Owned(d)' \cup Building' \cup retiring'
    <3>1. t \in InUse \cup retiring /\ t \notin Owned(d) \cup Building \cup retiring
      BY <2>2, <1>1, <1>3
    <3>2. PICK e \in Dataset : e # d /\ t \in Owned(e)
      BY <3>1, InUseIs
    <3>. QED
      BY <3>2, <1>2, InUseNext
  <2>. QED
    BY <2>1, <2>2
<1>. QED
  BY <1>3

(* The common case: no build begins or ends, and nothing is new.           *)
LEMMA LocalLeakMove ==
  ASSUME NothingLeaks, phase = "up", NEW d \in Dataset, UNCHANGED builds, Swept' => Swept,
         \A e \in Dataset \ {d} : UNCHANGED <<snapshots[e], inbox[e], worker[e]>>,
         db' \subseteq db, retiring \subseteq retiring',
         Swept' => Owned(d) \cap db' \subseteq Owned(d)' \cup retiring'
  PROVE  NothingLeaks'
<1>1. Building' = Building
  BY DEF Building
<1>. QED
  BY <1>1, LocalLeak

LEMMA WriteSweeps ==
  ASSUME NEW S, NEW left, WriteSidecar(S, left)
  PROVE  failed' \subseteq {"sidecar"} => left \subseteq {"sidecar"}
  BY DEF WriteSidecar

LEMMA DropSweeps ==
  ASSUME NEW t, Drop(t), Swept'
  PROVE  Swept /\ db' = db \ {t}
<1>1. "drop" \notin failed'
  BY DEF Swept
<1>2. failed' = failed /\ db' = db \ {t}
  BY <1>1 DEF Drop
<1>. QED
  BY <1>2 DEF Swept

LEMMA SameLeaks ==
  ASSUME NothingLeaks, UNCHANGED <<phase, snapshots, inbox, builds, db, retiring, failed>>,
         \A d \in Dataset : worker'[d].snap = worker[d].snap
  PROVE  NothingLeaks'
<1>1. \A d \in Dataset : Owned(d)' = Owned(d)
  BY DEF Owned, Kept, Queued, Working
<1>2. Building' = Building
  BY DEF Building
<1>. QED
  BY <1>1, <1>2, InUseIs, InUseNext DEF NothingLeaks

LEMMA WorkerLeaks ==
  ASSUME TypeInv, TableInv, NothingLeaks, NEW d \in Dataset, WorkerStep(d)
  PROVE  NothingLeaks'
<1>1. CASE Manual(d) \/ Poll(d) \/ RefreshNow(d)
  <2>1. PICK how \in Path, force \in BOOLEAN, kicks \in Nat : WorkerRead(d, how, force, kicks)
    BY <1>1, RefreshBegins
  <2>2. \A e \in Dataset : worker'[e].snap = worker[e].snap
    BY <2>1, ReadEffect
  <2>. QED
    BY <2>1, <2>2, SameLeaks DEF WorkerRead
<1>2. CASE WorkerSkip(d)
  <2>1. Tables({None}) = {} /\ Working(d) = {}
    BY <1>2, TablesOfOne, WorkerTable DEF WorkerSkip
  <2>2. /\ Kept(d)' = Kept(d) /\ Queued(d)' = Queued(d)
        /\ \A e \in Dataset \ {d} : UNCHANGED <<snapshots[e], inbox[e], worker[e]>>
    BY <1>2, <2>1, CallTables DEF WorkerSkip
  <2>. QED
    BY <1>2, <2>1, <2>2, LocalLeakMove DEF WorkerSkip, Owned, Swept
<1>3. CASE WorkerBuild(d)
  <2>1. PICK id \in SnapshotId, t \in Fresh :
          /\ worker' = [worker EXCEPT ![d] =
               [@ EXCEPT !.st = "building",
                         !.snap = Built(id, t, worker[d].def, worker[d].how)]]
          /\ db' = db \cup {t}
    BY <1>3 DEF WorkerBuild
  <2>2. worker'[d].snap = Built(id, t, worker[d].def, worker[d].how)
        /\ \A e \in Dataset \ {d} : worker'[e] = worker[e]
    BY <2>1, TypeFacts DEF ShapedWorker, Worker
  <2>3. Built(id, t, worker[d].def, worker[d].how) \in Snap
    BY <1>3, TypeFacts, WorkerFields, BuiltType DEF WorkerBuild, Fresh
  <2>4. worker'[d].snap # None /\ worker'[d].snap.table = t
    BY <2>2, <2>3, NoneAssumption DEF Built, Snap
  <2>5. Working(d)' = {t} /\ Working(d) = {}
    BY <1>3, <2>4, TablesOfOne, WorkerTable DEF Working, WorkerBuild
  <2>6. Kept(d)' = Kept(d) /\ Queued(d)' = Queued(d) /\ Building' = Building
    BY <1>3 DEF WorkerBuild, Kept, Queued, Building
  <2>. QED
    BY <1>3, <2>1, <2>2, <2>5, <2>6, LocalLeak DEF WorkerBuild, Owned, Swept
<1>4. CASE WorkerBuilt(d)
  <2>1. worker[d].snap \in Snap /\ Tables({worker[d].snap}) = Working(d)
    BY <1>4, WorkerTable DEF WorkerBuilt, Working
  <2>2. /\ Kept(d)' = Kept(d) /\ Queued(d)' = Queued(d) \cup Working(d)
        /\ \A e \in Dataset \ {d} : UNCHANGED <<snapshots[e], inbox[e], worker[e]>>
    BY <1>4, <2>1, CallTables DEF WorkerBuilt
  <2>. QED
    BY <1>4, <2>2, LocalLeakMove DEF WorkerBuilt, Owned, Swept
<1>5. CASE WorkerRejects(d)
  <2>1. Working(d) = {worker[d].snap.table} /\ Tables({None}) = {}
    BY <1>5, WorkerTable, TablesOfOne DEF WorkerRejects
  <2>2. /\ Kept(d)' = Kept(d) /\ Queued(d)' = Queued(d)
        /\ \A e \in Dataset \ {d} : UNCHANGED <<snapshots[e], inbox[e], worker[e]>>
    BY <1>5, <2>1, CallTables DEF WorkerRejects
  <2>3. Swept' => Swept /\ db' = db \ Working(d)
    BY <1>5, <2>1, DropSweeps DEF WorkerRejects
  <2>4. db' \subseteq db
    BY <1>5, DropTables DEF WorkerRejects
  <2>. QED
    BY <1>5, <2>2, <2>3, <2>4, LocalLeakMove DEF WorkerRejects, Owned
<1>6. CASE WorkerDies(d)
  <2>1. Swept' => Swept /\ worker[d].st # "building"
    BY <1>6 DEF WorkerDies, Abandoned, Swept
  <2>2. Swept' => Working(d) = {}
    BY <2>1, WorkerTable
  <2>3. Kept(d)' = Kept(d) /\ Queued(d)' = Queued(d)
    BY <1>6 DEF WorkerDies, Kept, Queued
  <2>4. \A e \in Dataset \ {d} : UNCHANGED <<snapshots[e], inbox[e], worker[e]>>
    BY <1>6, TypeFacts DEF WorkerDies
  <2>. QED
    BY <1>6, <2>1, <2>2, <2>3, <2>4, LocalLeakMove DEF WorkerDies, Owned
<1>. QED
  BY <1>1, <1>2, <1>3, <1>4, <1>5, <1>6 DEF WorkerStep

(* The runtime's handlers: what is taken off the mailbox is kept or        *)
(* retired, and so is what that replaces.                                  *)
LEMMA RetireAll == \A snap : Retire(snap, None) = Tables({snap})
  BY DEF Retire

LEMMA SwapLeaks ==
  ASSUME TypeInv, NEW d \in Dataset, NEW snap \in Snap, SwapIn(d, snap)
  PROVE  /\ Kept(d) \cup {snap.table} \subseteq Kept(d)' \cup retiring'
         /\ Kept(d) \cup {snap.table} \cup retiring \subseteq Kept(d)' \cup retiring'
         /\ Swept' => Swept
         /\ \A e \in Dataset \ {d} : UNCHANGED snapshots[e]
<1>. DEFINE old == snapshots[d]
<1>1. /\ snapshots'[d].active = snap /\ snapshots'[d].previous = old.active
      /\ \A e \in Dataset \ {d} : UNCHANGED snapshots[e]
  BY TypeFacts DEF SwapIn
<1>2. snap # None
  BY NoneAssumption DEF Snap
<1>3. /\ Kept(d) = Tables({old.active}) \cup Tables({old.previous})
      /\ Kept(d)' = {snap.table} \cup Tables({old.active})
  BY <1>1, <1>2, KeptIs, KeptNext, TablesOfOne
<1>4. retiring' = retiring \cup Retire(old.previous, old.active)
  BY DEF SwapIn
<1>5. Tables({old.previous}) \subseteq Retire(old.previous, old.active) \cup Tables({old.active})
  BY DEF Retire
<1>6. Swept' => Swept
  BY WriteSweeps DEF SwapIn, Swept
<1>. QED
  BY <1>1, <1>3, <1>4, <1>5, <1>6

LEMMA HandleLeaks ==
  ASSUME TypeInv, TableInv, FrozenInv, NothingLeaks, NEW d \in Dataset, Handle(d)
  PROVE  NothingLeaks'
<1>. DEFINE snap == Head(inbox[d]).snap
<1>0. snap \in Snap \cup {None}
  <2>1. inbox[d] # <<>> /\ inbox[d] \in Seq(Message)
    BY TypeFacts DEF Handle, ApplyUnchanged, ApplySwap, ApplyLost, Applying, Cutover,
       StageNotReady, StageSuperseded, Delivering
  <2>2. Head(inbox[d]) \in Message
    BY <2>1
  <2>. QED
    BY <2>2, MessageType
<1>1. ASSUME NEW w \in {worker[d], Kick(worker[d])}, Applying(d, w)
      PROVE  /\ Queued(d) = Tables({snap}) \cup Queued(d)' /\ Working(d)' = Working(d)
             /\ \A e \in Dataset \ {d} : UNCHANGED <<inbox[e], worker[e]>>
             /\ UNCHANGED <<builds, db, phase>>
  BY <1>1, ApplyingTables DEF Applying
<1>2. CASE ApplyUnchanged(d)
  <2>1. Tables({snap}) = {}
    BY <1>2, TablesOfOne DEF ApplyUnchanged
  <2>2. Kept(d)' = Kept(d)
    BY <1>2 DEF ApplyUnchanged, Kept
  <2>. QED
    BY <1>1, <1>2, <2>1, <2>2, LocalLeakMove DEF ApplyUnchanged, Applying, Owned, Swept
<1>3. CASE ApplySwap(d)
  <2>1. snap \in Snap /\ Tables({snap}) = {snap.table} /\ SwapIn(d, snap)
    BY <1>0, <1>3, TablesOfOne DEF ApplySwap
  <2>2. /\ Kept(d) \cup {snap.table} \cup retiring \subseteq Kept(d)' \cup retiring'
        /\ Swept' => Swept
        /\ \A e \in Dataset \ {d} : UNCHANGED snapshots[e]
    BY <2>1, SwapLeaks
  <2>3. retiring \subseteq retiring'
    BY <2>1 DEF SwapIn
  <2>. QED
    BY <1>1, <1>3, <2>1, <2>2, <2>3, LocalLeakMove DEF ApplySwap, Applying, Owned
<1>4. CASE ApplyLost(d)
  <2>1. retiring' = retiring \cup Tables({snap}) /\ Kept(d)' = Kept(d)
    BY <1>4, RetireAll DEF ApplyLost, Kept
  <2>. QED
    BY <1>1, <1>4, <2>1, LocalLeakMove DEF ApplyLost, Applying, Owned, Swept
<1>5. ASSUME Delivering(d)
      PROVE  /\ Queued(d) = Tables({snap}) \cup Queued(d)'
             /\ \A e \in Dataset \ {d} : UNCHANGED inbox[e]
             /\ UNCHANGED <<builds, db, phase>> /\ phase = "up"
  BY <1>5, DeliveringTables DEF Delivering
<1>6. CASE StageNotReady(d) \/ StageSuperseded(d)
  <2>1. /\ retiring' = retiring \cup Tables({snap}) /\ Kept(d)' = Kept(d)
        /\ Working(d)' = Working(d) /\ Delivering(d) /\ UNCHANGED <<snapshots, worker, failed>>
    BY <1>6, RetireAll DEF StageNotReady, StageSuperseded, Kept, Working
  <2>. QED
    BY <1>5, <2>1, LocalLeakMove DEF Owned, Swept
<1>7. CASE Cutover(d)
  <2>1. /\ Delivering(d) /\ snap # None
        /\ retiring' = retiring \cup Retire(snapshots[d].active, snap)
                                \cup Retire(snapshots[d].previous, snap)
        /\ snapshots' = [snapshots EXCEPT ![d] = Promoted(d, snap)]
        /\ WriteSidecar(snapshots', failed)
        /\ worker' = [worker EXCEPT ![d] = Idle(pending[d].def, 0)]
    BY <1>7 DEF Cutover, Lands
  <2>2. /\ snapshots'[d].active = snap /\ snapshots'[d].previous = None
        /\ worker'[d].snap = None
        /\ \A e \in Dataset \ {d} : UNCHANGED <<snapshots[e], worker[e]>>
    BY <2>1, TypeFacts DEF Promoted, Idle, NoWorker
  <2>3. Kept(d)' = Tables({snap}) /\ Working(d)' = {} /\ snap.table \in Kept(d)'
    BY <2>1, <2>2, KeptNext, TablesOfOne DEF Working
  <2>4. Kept(d) \subseteq Kept(d)' \cup retiring'
    BY <2>1, <2>3, KeptIs, TablesOfOne DEF Retire
  <2>5. Swept' => Swept
    BY <2>1, WriteSweeps DEF Swept
  <2>6. worker[d] = NoWorker
    BY <1>7 DEF Cutover, Lands, Current, FrozenInv
  <2>7. Working(d) = {}
    BY <2>6, TablesOfOne DEF Working, NoWorker
  <2>8. retiring \subseteq retiring'
    BY <2>1
  <2>. QED
    BY <1>5, <2>1, <2>2, <2>3, <2>4, <2>5, <2>7, <2>8, LocalLeakMove DEF Owned
<1>. QED
  BY <1>2, <1>3, <1>4, <1>6, <1>7 DEF Handle

LEMMA RollbackLeaks ==
  ASSUME TypeInv, TableInv, NothingLeaks, NEW d \in Dataset, Rollback(d)
  PROVE  NothingLeaks'
<1>1. /\ snapshots'[d].active = snapshots[d].previous
      /\ snapshots'[d].previous = snapshots[d].active
      /\ \A e \in Dataset \ {d} : UNCHANGED snapshots[e]
      /\ UNCHANGED <<worker, inbox, db, retiring, builds>>
  BY TypeFacts DEF Rollback
<1>2. Kept(d)' = Kept(d)
  BY <1>1, KeptIs, KeptNext
<1>3. Queued(d)' = Queued(d) /\ Working(d)' = Working(d)
  BY <1>1 DEF Queued, Working
<1>4. Swept' => Swept
  BY WriteSweeps DEF Rollback, Swept
<1>. QED
  BY <1>1, <1>2, <1>3, <1>4, LocalLeakMove DEF Rollback, Owned

LEMMA NothingQueued ==
  ASSUME TypeInv, TableInv, NEW b \in builds, b.dataset \in Dataset,
         inbox' = [inbox EXCEPT ![b.dataset] =
                     Append(@, [kind |-> "staged", gen |-> b.gen, snap |-> None])]
  PROVE  Queued(b.dataset)' = Queued(b.dataset)
<1>. DEFINE d == b.dataset
            m == [kind |-> "staged", gen |-> b.gen, snap |-> None]
<1>1. /\ m \in Message /\ m.snap = None
      /\ inbox[d] \in Seq(Message) /\ inbox'[d] = Append(inbox[d], m)
      /\ ApartQueue(inbox[d])
  BY TypeFacts, MessageType DEF Build, TableInv, ApartLocal
<1>. HIDE DEF d, m
<1>2. Tables({m.snap}) = {}
  BY <1>1, TablesOfOne
<1>3. QueuedIn(Append(inbox[d], m)) = QueuedIn(inbox[d])
  BY <1>1, <1>2, QueueAppend
<1>. QED
  BY <1>1, <1>3, QueuedIs DEF Queued, QueuedIn, d

(* A staging build hands its table over, drops it, or counts as killed.    *)
LEMMA StagingLeaks ==
  ASSUME TypeInv, TableInv, NothingLeaks, NEW b \in builds, Stage(b)
  PROVE  NothingLeaks'
<1>. DEFINE d == b.dataset
<1>1. /\ d \in Dataset /\ phase = "up" /\ builds' = builds \ {b}
      /\ UNCHANGED <<snapshots, worker, retiring>>
      /\ \A e \in Dataset \ {d} : UNCHANGED <<snapshots[e], inbox[e], worker[e]>>
  BY TypeFacts DEF Stage, StageOk, StageRejects, StageDies, StageNothing, Build
<1>2. /\ Building' = Building \ {b.table}
      /\ Kept(d)' = Kept(d) /\ Working(d)' = Working(d)
      /\ ApartQueue(inbox[d]) /\ inbox[d] \in Seq(Message)
  <2>1. Building' = Building \ {b.table}
    BY <1>1 DEF TableInv, Building
  <2>2. Kept(d)' = Kept(d) /\ Working(d)' = Working(d)
    BY <1>1 DEF Kept, Working
  <2>3. ApartLocal(d) /\ inbox[d] \in Seq(Message)
    BY <1>1, TypeFacts DEF TableInv
  <2>. QED
    BY <2>1, <2>2, <2>3 DEF ApartLocal
<1>3. CASE StageOk(b)
  <2>1. PICK id \in SnapshotId :
          inbox' = [inbox EXCEPT ![d] =
            Append(@, [kind |-> "staged", gen |-> b.gen,
                       snap |-> Built(id, b.table, b.def, b.def.path)])]
    BY <1>3 DEF StageOk
  <2>. DEFINE snap == Built(id, b.table, b.def, b.def.path)
              m == [kind |-> "staged", gen |-> b.gen, snap |-> snap]
  <2>2. snap \in Snap /\ snap.table = b.table /\ b.gen \in Nat
    BY TypeFacts, BuiltType DEF Build, Def, Built
  <2>3. Tables({snap}) = {b.table}
    BY <2>2, TablesOfOne, NoneAssumption DEF Snap
  <2>. HIDE DEF snap
  <2>4. m \in Message /\ m.snap = snap /\ inbox'[d] = Append(inbox[d], m)
    BY <1>1, <2>1, <2>2, MessageType, TypeFacts DEF snap
  <2>5. b.table \notin QueuedIn(inbox[d])
    BY <1>1, QueuedIs DEF TableInv, Owned, Building
  <2>. HIDE DEF m
  <2>6. Queued(d)' = Queued(d) \cup {b.table}
    <3>0. Tables({m.snap}) \cap QueuedIn(inbox[d]) = {}
      BY <2>3, <2>4, <2>5
    <3>1. QueuedIn(Append(inbox[d], m)) = QueuedIn(inbox[d]) \cup Tables({m.snap})
      BY <1>2, <2>4, <3>0, QueueAppend
    <3>. QED
      BY <2>3, <2>4, <3>1, QueuedIs DEF Queued, QueuedIn
  <2>7. UNCHANGED <<db, failed>>
    BY <1>3 DEF StageOk
  <2>8. /\ db \subseteq db' /\ Owned(d)' = Owned(d) \cup {b.table}
        /\ Owned(d) \cup Building \cup retiring \subseteq Owned(d)' \cup Building' \cup retiring'
    BY <1>1, <1>2, <2>6, <2>7 DEF Owned
  <2>. QED
    BY <1>1, <2>7, <2>8, LocalLeak DEF Swept
<1>4. CASE StageRejects(b)
  <2>1. Queued(d)' = Queued(d)
    <3>1. inbox' = [inbox EXCEPT ![d] =
                      Append(@, [kind |-> "staged", gen |-> b.gen, snap |-> None])]
      BY <1>4 DEF StageRejects, StageNothing
    <3>. QED
      BY <1>1, <3>1, NothingQueued
  <2>2. Swept' => Swept /\ db' = db \ {b.table}
    BY <1>4, DropSweeps DEF StageRejects
  <2>3. Owned(d)' = Owned(d)
    BY <1>2, <2>1 DEF Owned
  <2>. QED
    BY <1>1, <1>2, <2>2, <2>3, LocalLeak
<1>5. CASE StageDies(b)
  <2>1. ~Swept'
    BY <1>5 DEF StageDies, Swept
  <2>. QED
    BY <2>1 DEF NothingLeaks, Swept
<1>. QED
  BY <1>3, <1>4, <1>5 DEF Stage
LEMMA RetryLeaks ==
  ASSUME TypeInv, NothingLeaks, NEW r \in retries, RetryStage(r)
  PROVE  NothingLeaks'
<1>1. UNCHANGED <<phase, snapshots, inbox, worker, retiring, failed>>
  BY DEF RetryStage
<1>2. \A d \in Dataset : Owned(d)' = Owned(d)
  BY <1>1 DEF Owned, Kept, Queued, Working
<1>3. builds \subseteq builds' /\ \A t \in db' \ db : \E b \in builds' : b.table = t
  <2>1. CASE Current(r.dataset, r.gen)
    <3>1. PICK t \in Fresh :
            /\ builds' = builds \cup {[dataset |-> r.dataset, gen |-> r.gen,
                                       def |-> pending[r.dataset].def, table |-> t]}
            /\ db' = db \cup {t}
      BY <2>1 DEF RetryStage
    <3>. DEFINE new == [dataset |-> r.dataset, gen |-> r.gen,
                        def |-> pending[r.dataset].def, table |-> t]
    <3>2. new.table = t /\ new \in builds' /\ builds \subseteq builds'
      BY <3>1
    <3>3. db' \ db \subseteq {t}
      BY <3>1
    <3>. HIDE DEF new
    <3>. QED
      BY <3>2, <3>3
  <2>2. CASE ~Current(r.dataset, r.gen)
    BY <2>2 DEF RetryStage
  <2>. QED
    BY <2>1, <2>2
<1>4. Building \subseteq Building' /\ db' \ db \subseteq Building'
  BY <1>3 DEF Building
<1>5. InUse \subseteq InUse' /\ db' \ db \subseteq InUse'
  BY <1>2, <1>4, InUseIs, InUseNext
<1>. QED
  BY <1>1, <1>5 DEF NothingLeaks

LEMMA EngineDropLeaks ==
  ASSUME NothingLeaks, NEW t \in retiring, EngineDrop(t)
  PROVE  NothingLeaks'
<1>. SUFFICES ASSUME phase' = "up", Swept' PROVE db' \subseteq InUse' \cup retiring'
  BY DEF NothingLeaks, Swept
<1>1. UNCHANGED <<phase, snapshots, inbox, worker, builds>> /\ retiring' = retiring \ {t}
  BY DEF EngineDrop
<1>2. Swept /\ db' = db \ {t}
  BY DropSweeps DEF EngineDrop
<1>3. InUse' = InUse
  BY <1>1 DEF InUse, Kept, Queued
<1>. QED
  BY <1>1, <1>2, <1>3 DEF NothingLeaks, Swept

(* A reload gives up the tables of the datasets it removes, which it       *)
(* retires, and those of the workers it stops, which it only leaves behind *)
(* when they were building.                                                *)
LEMMA ReloadLeaks ==
  ASSUME TypeInv, CrewInv, NothingLeaks, NEW c \in Configs, Reload(c)
  PROVE  NothingLeaks'
<1>. DEFINE stopped == Removed(c) \cup Restaged(c) \cup InPlace(c)
<1>. SUFFICES ASSUME Swept' PROVE db' \subseteq InUse' \cup retiring'
  BY DEF NothingLeaks, Swept
<1>1. Swept /\ \A d \in stopped : worker[d].st # "building"
  <2>1. Abandoned(stopped) \subseteq {"sidecar"}
    <3>1. CASE Removed(c) = {}
      BY <3>1 DEF Reload, Swept
    <3>2. CASE Removed(c) # {}
      BY <3>2, WriteSweeps DEF Reload, Swept
    <3>. QED
      BY <3>1, <3>2
  <2>. QED
    BY <2>1 DEF Abandoned, Swept
<1>2. phase = "up" /\ inbox' = inbox /\ retiring' = retiring \cup UNION {Kept(d) : d \in Removed(c)}
  BY DEF Reload
<1>3. builds \subseteq builds' /\ \A t \in db' \ db : \E b \in builds' : b.table = t
  <2>1. PICK table \in [Restaged(c) -> Fresh] :
          /\ builds' = builds \cup
               {[dataset |-> d, gen |-> PendingAfter(c)[d].gen,
                 def |-> PendingAfter(c)[d].def, table |-> table[d]] : d \in Restaged(c)}
          /\ db' = db \cup {table[d] : d \in Restaged(c)}
    BY DEF Reload
  <2>2. builds \subseteq builds'
    BY <2>1
  <2>3. ASSUME NEW t \in db' \ db PROVE \E b \in builds' : b.table = t
    <3>1. PICK d \in Restaged(c) : t = table[d]
      BY <2>1, <2>3
    <3>. DEFINE b == [dataset |-> d, gen |-> PendingAfter(c)[d].gen,
                      def |-> PendingAfter(c)[d].def, table |-> table[d]]
    <3>2. b \in builds' /\ b.table = t
      BY <2>1, <3>1
    <3>. HIDE DEF b
    <3>. QED
      BY <3>2
  <2>. QED
    BY <2>2, <2>3
<1>4. Building \subseteq Building' /\ db' \ db \subseteq Building'
  BY <1>3 DEF Building
<1>5. ASSUME NEW d \in Dataset
      PROVE  Owned(d) \subseteq Owned(d)' \cup retiring'
  <2>1. Queued(d)' = Queued(d)
    BY <1>2 DEF Queued
  <2>2. Kept(d) \subseteq Kept(d)' \cup retiring'
    <3>1. CASE d \in Removed(c)
      BY <1>2, <3>1
    <3>2. CASE d \notin Removed(c)
      <4>1. snapshots'[d] = snapshots[d]
        BY <3>2 DEF Reload, Remaining
      <4>. QED
        BY <4>1 DEF Kept
    <3>. QED
      BY <3>1, <3>2
  <2>3. Working(d) \subseteq Working(d)'
    <3>1. CASE d \in stopped
      BY <1>1, <3>1, WorkerTable
    <3>2. CASE d \in Added(c)
      <4>1. worker[d].st # "building"
        BY <3>2, TypeFacts DEF CrewInv, Added, Configured, ShapedWorker
      <4>. QED
        BY <4>1, WorkerTable
    <3>3. CASE d \notin stopped \cup Added(c)
      <4>1. worker'[d] = worker[d]
        BY <3>3 DEF Reload, WorkersAfter
      <4>. QED
        BY <4>1 DEF Working
    <3>. QED
      BY <3>1, <3>2, <3>3
  <2>. QED
    BY <2>1, <2>2, <2>3 DEF Owned
<1>6. InUse \subseteq InUse' \cup retiring' /\ db' \ db \subseteq InUse'
  BY <1>4, <1>5, InUseIs, InUseNext
<1>. QED
  BY <1>1, <1>2, <1>6 DEF NothingLeaks, Swept
LEMMA BootFinishLeaks ==
  ASSUME TypeInv, BootFinish
  PROVE  NothingLeaks'
<1>1. CASE "sweep" \in failed'
  BY <1>1 DEF NothingLeaks
<1>2. CASE db' = db \cap UNION {Kept(d) : d \in Dataset}
  <2>1. \A d \in Dataset : Kept(d)' = Kept(d)
    BY DEF BootFinish, Kept
  <2>2. \A d \in Dataset : Kept(d) \subseteq InUse'
    BY <2>1, InUseNext DEF Owned
  <2>. QED
    BY <1>2, <2>2 DEF NothingLeaks
<1>. QED
  BY <1>1, <1>2 DEF BootFinish

LEMMA LeakStep ==
  TypeInv /\ TableInv /\ FrozenInv /\ CrewInv /\ NothingLeaks /\ [Next]_vars => NothingLeaks'
<1>. SUFFICES ASSUME TypeInv, TableInv, FrozenInv, CrewInv, NothingLeaks, [Next]_vars
              PROVE  NothingLeaks'
  OBVIOUS
<1>1. ASSUME phase' # "up" PROVE NothingLeaks'
  BY <1>1 DEF NothingLeaks
<1>2. ASSUME NEW d \in Dataset, WorkerStep(d) \/ Handle(d) \/ Rollback(d) PROVE NothingLeaks'
  BY <1>2, WorkerLeaks, HandleLeaks, RollbackLeaks
<1>3. ASSUME NEW d \in Dataset, BootRefresh(d) \/ BootSkip(d) PROVE NothingLeaks'
  BY <1>3, <1>1 DEF BootRefresh, BootSkip
<1>4. ASSUME NEW c \in Configs, Reload(c) PROVE NothingLeaks'
  BY <1>4, ReloadLeaks
<1>5. ASSUME NEW c \in Configs, Boot(c) PROVE NothingLeaks'
  BY <1>5, <1>1 DEF Boot
<1>6. ASSUME NEW b \in builds, Stage(b) PROVE NothingLeaks'
  BY <1>6, StagingLeaks
<1>7. ASSUME NEW r \in retries, RetryStage(r) PROVE NothingLeaks'
  BY <1>7, RetryLeaks
<1>8. ASSUME NEW t \in retiring, EngineDrop(t) PROVE NothingLeaks'
  BY <1>8, EngineDropLeaks
<1>9. CASE Crash
  BY <1>9, <1>1 DEF Crash
<1>10. CASE BootFinish
  BY <1>10, BootFinishLeaks
<1>11. CASE UNCHANGED vars
  BY <1>11, SameLeaks DEF vars
<1>. QED
  BY <1>2, <1>3, <1>4, <1>5, <1>6, <1>7, <1>8, <1>9, <1>10, <1>11 DEF Next

(* No table is forgotten: through every refresh that is skipped, fails or  *)
(* loses its config generation, every cutover and reload, a table of the   *)
(* DuckDB file is kept, in flight or about to be dropped, as long as no    *)
(* builder was killed and no drop or sweep failed (materialize_checked,    *)
(* on_staged_result, apply_outcome, teardown_removed).                     *)
THEOREM TablesAccountedFor == Spec => []NothingLeaks
<1>1. Init => NothingLeaks
  BY DEF Init, NothingLeaks
<1>. QED
  BY <1>1, TypeInvariant, TablesApart, FrozenInvariant, CrewInvariant, LeakStep, PTL DEF Spec

------------------------------------------------------------------------------
(* A restart resumes what serves                                           *)

(* The record and what is in memory agree on what a restart can use: a     *)
(* rollback target it left out when it seeded is still in the record, so   *)
(* that only the one in memory has to be there.                            *)
Recorded(record, entry) ==
  entry.active # None =>
    /\ record.active = entry.active
    /\ record.quarantined = entry.quarantined
    /\ entry.previous # None => record.previous = entry.previous

RecordInv ==
  phase # "down" /\ "sidecar" \notin failed =>
    \A d \in Dataset : Recorded(sidecar[d], snapshots[d])

LEMMA SidecarRecorded ==
  ASSUME NEW S, NEW left, WriteSidecar(S, left), snapshots' = S
  PROVE  RecordInv'
<1>. SUFFICES ASSUME "sidecar" \notin failed', NEW d \in Dataset
              PROVE  Recorded(sidecar'[d], snapshots'[d])
  BY DEF RecordInv, Recorded
<1>1. sidecar'[d] = IF S[d].active = None THEN NoEntry ELSE S[d]
  BY DEF WriteSidecar
<1>. QED
  BY <1>1 DEF Recorded

LEMMA SeededRecorded ==
  ASSUME TypeInv, NEW c, NEW d \in Dataset
  PROVE  Recorded(sidecar[d], Seeded(c, d))
<1>1. sidecar[d] \in Entry
  BY TypeFacts
<1>. DEFINE kept == [sidecar[d] EXCEPT !.previous = None]
<1>2. kept.active = sidecar[d].active /\ kept.previous = None
      /\ kept.quarantined = sidecar[d].quarantined
  BY <1>1 DEF Entry
<1>3. NoEntry.active = None
  BY DEF NoEntry
<1>4. Seeded(c, d) \in {NoEntry, sidecar[d], kept}
  BY DEF Seeded
<1>. HIDE DEF kept
<1>. QED
  BY <1>2, <1>3, <1>4 DEF Recorded

LEMMA RecordStep == TypeInv /\ RecordInv /\ [Next]_vars => RecordInv'
<1>. SUFFICES ASSUME TypeInv, RecordInv, [Next]_vars PROVE RecordInv'
  OBVIOUS
<1>0. ASSUME UNCHANGED <<phase, snapshots, sidecar>>,
             "sidecar" \in failed => "sidecar" \in failed'
      PROVE  RecordInv'
  BY <1>0 DEF RecordInv, Recorded
<1>1. ASSUME NEW t, Drop(t) PROVE "sidecar" \in failed => "sidecar" \in failed'
  BY <1>1 DEF Drop
<1>2. ASSUME NEW d \in Dataset, WorkerStep(d) PROVE RecordInv'
  BY <1>0, <1>1, <1>2 DEF WorkerStep, Manual, Poll, RefreshNow, WorkerRead, WorkerSkip, WorkerBuild, WorkerBuilt,
     WorkerRejects, WorkerDies, Abandoned
<1>3. ASSUME NEW d, NEW snap, SwapIn(d, snap) PROVE RecordInv'
  BY <1>3, SidecarRecorded DEF SwapIn
<1>4. ASSUME NEW d \in Dataset, Handle(d) PROVE RecordInv'
  <2>1. CASE ApplySwap(d)
    BY <2>1, <1>3 DEF ApplySwap
  <2>2. CASE Cutover(d)
    BY <2>2, SidecarRecorded DEF Cutover
  <2>. QED
    BY <1>4, <1>0, <2>1, <2>2 DEF Handle, ApplyUnchanged, ApplyLost, Applying, StageNotReady,
       StageSuperseded, Delivering
<1>5. ASSUME NEW d \in Dataset, Rollback(d) PROVE RecordInv'
  BY <1>5, SidecarRecorded DEF Rollback
<1>6. ASSUME NEW d \in Dataset, BootRefresh(d) PROVE RecordInv'
  BY <1>6, <1>3 DEF BootRefresh
<1>7. ASSUME NEW d \in Dataset, BootSkip(d) PROVE RecordInv'
  BY <1>7, <1>0 DEF BootSkip
<1>8. ASSUME NEW c \in Configs, Reload(c) PROVE RecordInv'
  <2>1. CASE Removed(c) # {}
    BY <1>8, <2>1, SidecarRecorded DEF Reload
  <2>2. CASE Removed(c) = {}
    <3>1. sidecar' = sidecar /\ failed' = Abandoned(Removed(c) \cup Restaged(c) \cup InPlace(c))
          /\ phase' = phase
      BY <1>8, <2>2 DEF Reload
    <3>2. \A d \in Dataset : snapshots'[d] = snapshots[d]
      BY <1>8, <2>2 DEF Reload, Remaining
    <3>. QED
      BY <3>1, <3>2 DEF RecordInv, Abandoned
  <2>. QED
    BY <2>1, <2>2
<1>9. ASSUME NEW c \in Configs, Boot(c) PROVE RecordInv'
  <2>1. \A d \in Dataset : snapshots'[d] = Seeded(c, d) /\ sidecar' = sidecar
    BY <1>9 DEF Boot
  <2>. QED
    BY <2>1, SeededRecorded DEF RecordInv
<1>10. ASSUME NEW b \in builds, Stage(b) PROVE RecordInv'
  BY <1>10, <1>0, <1>1 DEF Stage, StageOk, StageRejects, StageDies, StageNothing
<1>11. ASSUME NEW r \in retries, RetryStage(r) PROVE RecordInv'
  BY <1>11, <1>0 DEF RetryStage
<1>12. ASSUME NEW t \in retiring, EngineDrop(t) PROVE RecordInv'
  BY <1>12, <1>0, <1>1 DEF EngineDrop
<1>13. CASE Crash
  BY <1>13 DEF Crash, RecordInv
<1>14. CASE BootFinish
  <2>1. /\ phase = "boot" /\ UNCHANGED <<snapshots, sidecar>>
        /\ "sidecar" \in failed => "sidecar" \in failed'
    BY <1>14 DEF BootFinish
  <2>. QED
    BY <2>1 DEF RecordInv
<1>15. CASE UNCHANGED vars
  BY <1>15, <1>0 DEF vars
<1>. QED
  BY <1>2, <1>4, <1>5, <1>6, <1>7, <1>8, <1>9, <1>10, <1>11, <1>12, <1>13, <1>14, <1>15
  DEF Next

(* Whatever was refreshed, rolled back, reloaded or cut over, in whatever  *)
(* order, and however often the runtime was restarted: unless the last     *)
(* write of the record failed, a restart with the served config resumes    *)
(* the snapshot that serves, its quarantine and its rollback target        *)
(* (write_sidecar, seed_from_sidecar).                                     *)
THEOREM RestartsResume == Spec => []RestartResumes
<1>1. ASSUME TypeInv, TableInv, RecordInv PROVE RestartResumes
  <2>. SUFFICES ASSUME phase = "up", "sidecar" \notin failed, NEW d \in Configured(catalog),
                       snapshots[d].active # None,
                       SameBuild(snapshots[d].active, catalog.datasets[d])
                PROVE  LET entry == snapshots[d]
                           back  == Seeded(catalog, d)
                       IN  /\ back.active = entry.active
                           /\ back.quarantined = entry.quarantined
                           /\ entry.previous # None /\ SameBuild(entry.previous, entry.active) =>
                                back.previous = entry.previous
    BY DEF RestartResumes
  <2>. DEFINE entry == snapshots[d]
              record == sidecar[d]
              kept == [record EXCEPT !.previous = None]
  <2>0. d \in Dataset /\ catalog.datasets[d] # None
    BY DEF Configured
  <2>1. /\ record.active = entry.active /\ record.quarantined = entry.quarantined
        /\ entry.previous # None => record.previous = entry.previous
    BY <1>1, <2>0 DEF RecordInv, Recorded
  <2>2. Tables({entry.active}) \cup Tables({entry.previous}) \subseteq db
    BY <1>1, <2>0, KeptIs DEF TableInv, Owned
  <2>3. entry.active.table \in db
    BY <2>2, TablesOfOne
  <2>4. entry.previous # None => entry.previous.table \in db
    BY <2>2, TablesOfOne
  <2>5. record \in Entry
    BY <1>1, <2>0, TypeFacts
  <2>6. kept.active = record.active /\ kept.quarantined = record.quarantined
    BY <2>5 DEF Entry
  <2>7. Seeded(catalog, d) \in {record, kept}
    BY <2>0, <2>1, <2>3 DEF Seeded
  <2>8. entry.previous # None /\ SameBuild(entry.previous, entry.active) =>
          Seeded(catalog, d) = record
    BY <2>0, <2>1, <2>3, <2>4 DEF Seeded
  <2>. HIDE DEF kept, record, entry
  <2>. QED
    BY <2>1, <2>6, <2>7, <2>8 DEF entry, record
<1>2. Init => RecordInv
  BY DEF Init, RecordInv
<1>3. Spec => [](TypeInv /\ TableInv)
  BY TypeInvariant, TablesApart, PTL
<1>. QED
  BY <1>1, <1>2, <1>3, RecordStep, PTL DEF Spec
==============================================================================
