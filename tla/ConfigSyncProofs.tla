-------------------------- MODULE ConfigSyncProofs --------------------------
(* The generations of a config for any files, sources, names and numbers   *)
(* of changes and faults: types, that only valid generations are current,  *)
(* that the files of a snapshot stay while it serves, when what is current *)
(* holds every file, and when a bucket that sync calls unchanged is served. *)
EXTENDS ConfigSync, FiniteSetTheorems, TLAPS

Generations == [tree : Tree, listed : Tree \cup {None}, source : Source \cup {None}]
Loads == [pc : {"idle", "listing", "fetching"}, gen : GenId \cup {None}, items : Tree,
          todo : SUBSET File]
Syncs == [pc : {"off", "idle", "loading", "waiting"}, seen : Tree \cup {None},
          last : Tree \cup {None}]
Uses == [active : GenId \cup {None}, previous : GenId \cup {None}]

\* A load under way has a directory of its own.
Sane(q) == IF q.pc = "idle" THEN q = NoLoad ELSE q.gen \in GenId

\* A runtime that is past its load has a current generation, and its record
\* is what it serves once its boot is over.
BootInv ==
  /\ runtime \in {"seeding", "warming", "up"} => link \in GenId
  /\ runtime = "up" => record = snapshots

TypeInv == TypeOK /\ (\A a \in Loader : Sane(load[a])) /\ BootInv

\* What a load writes to is neither current nor built from nor remembered,
\* and no other load writes to it.
Remembered == {snapshots.active, snapshots.previous, record.active, record.previous}

ApartInv ==
  \A a \in Loader :
    Target(a) # None =>
      /\ Target(a) \notin Remembered \cup {build, link}
      /\ \A b \in Loader : b # a => Target(b) # Target(a)

KeptInv == Remembered \ {None} \subseteq dirs

\* A directory that is not there holds nothing; reloads on their way are of
\* the configured source.
WrittenInv ==
  /\ \A g \in GenId : g \notin dirs => gens[g].tree = NoFiles
  /\ \A i \in 1 .. Len(calls) : calls[i].source = config

IInv == TypeInv /\ ApartInv /\ KeptInv /\ WrittenInv /\ CurrentValid

\* What a load under way has written is what it listed but for what is still
\* to do.
WholeInv ==
  /\ link # None => Files(gens[link].tree) = Files(gens[link].listed)
  /\ \A a \in Loader : At(a, "listing") => load[a].todo = {}
  /\ \A a \in Loader : At(a, "fetching") =>
       /\ load[a].todo \subseteq Files(load[a].items)
       /\ Files(gens[Target(a)].tree) = Files(load[a].items) \ load[a].todo

\* A prune deletes no directory that a load is writing to.
LoadsSpared ==
  Open \/ Reload => \A a \in Loader : Target(a) \in dirs => Target(a) \in dirs'

\* The directories named after the one that sync writes to: those of boots
\* that began since, of which there is one for each crash of the runtime.
Newer == {h \in GenId : <<Target("sync"), h>> \in older}

AgeInv ==
  /\ older \subseteq Named \X Named
  /\ Loading("boot") => runtime = "loading"
  /\ sync.pc # "off" /\ faults["crash"] = 0 => runtime = "up"
  /\ Loading("sync") =>
       /\ sync.pc = "loading"
       /\ \A g, h \in Newer : g = h
       /\ faults["crash"] = 0 \/ runtime \in {"down", "failed"} => Newer = {}
       /\ runtime = "loading" => Newer \subseteq {Target("boot")}

\* A tree is of one listing as far as it goes.
Same(tree, listed) == \A f \in File : tree[f] # 0 => tree[f] = listed[f]

\* Whatever is listed as the bucket is now was fetched from it since.
FreshInv ==
  /\ link # None =>
       /\ gens[link].source \in Source
       /\ gens[link].listed = bucket[gens[link].source] => Same(gens[link].tree, gens[link].listed)
  /\ \A a \in Loader : At(a, "fetching") /\ load[a].items = Digest
       => Same(gens[Target(a)].tree, Digest)

Booted == runtime \in {"seeding", "warming", "up"}
NoMoreCrashes == faults["crash"] >= MaxOfAKind

\* What a boot falls back to is what the bucket holds.
Here == link # None /\ gens[link].source = config /\ gens[link].tree = Digest

\* Before sync starts, what runs is the current generation.
OffInv ==
  sync.pc = "off" =>
    /\ calls = <<>> /\ ~Loading("sync")
    /\ Booted => link # None /\ gens[link].source = config /\ catalog.tree = gens[link].tree

\* If the bucket is still as a tick saw it, that is what the load lists, what
\* the last reload on its way brings and what a boot would fall back to.
SeenInv ==
  /\ Loading("sync") => sync.pc = "loading"
  /\ sync.pc = "loading" /\ sync.seen = Digest /\ At("sync", "fetching") => load["sync"].items = Digest
  /\ sync.pc = "waiting" => calls # <<>>
  /\ sync.pc = "waiting" /\ sync.seen = Digest
       => calls[Len(calls)].tree = Digest /\ (Here \/ NoMoreCrashes)

\* If it is as sync recorded it, nothing else is on its way, and what runs,
\* what a boot loads and what it falls back to is that.
LastInv ==
  /\ Loading("boot") => runtime = "loading"
  /\ sync.pc # "off" /\ sync.last = Digest =>
       /\ sync.pc = "idle" /\ calls = <<>>
       /\ Booted => catalog.tree = Digest
       /\ At("boot", "fetching") => load["boot"].items = Digest
       /\ Here \/ (runtime = "up" /\ NoMoreCrashes)

SyncInv == OffInv /\ SeenInv /\ LastInv

\* The listings that are compared with what the bucket s holds.
Compared(s) ==
  (IF s = config
   THEN {sync.seen, sync.last} \cup {load[a].items : a \in {b \in Loader : At(b, "fetching")}}
   ELSE {})
  \cup (IF link # None /\ gens[link].source = s THEN {gens[link].listed} ELSE {})

\* A change to a bucket does not bring back what it was when it was listed.
NeverBack == \A s \in Source : bucket'[s] # bucket[s] => bucket'[s] \notin Compared(s)

\* A boot does not make its generation current after sync did and before the
\* reload with that is applied, unless the runtime crashes no more.
BootsFirst == Activate("boot") /\ sync.pc = "waiting" => NoMoreCrashes

------------------------------------------------------------------------------
\* The empty values are of their kinds.
LEMMA Empty ==
  /\ NoFiles \in Tree /\ NoGen \in Generations /\ NoLoad \in Loads
  /\ NoSnapshots \in Uses /\ NoSync \in Syncs
<1>1. NoFiles \in Tree
  BY ConfigAssumption DEF NoFiles, Tree
<1> QED
  BY <1>1 DEF NoGen, Generations, NoLoad, Loads, NoSnapshots, Uses, NoSync, Syncs

LEMMA HappensTypes ==
  ASSUME faults \in [Fault -> 0 .. MaxOfAKind], NEW fault \in Fault, Happens(fault)
  PROVE  /\ faults' \in [Fault -> 0 .. MaxOfAKind]
         /\ \A kind \in Fault : faults[kind] <= faults'[kind]
         /\ faults'[fault] = faults[fault] + 1
  BY ConfigAssumption DEF Happens

LEMMA InitHolds == Init => IInv
<1> SUFFICES ASSUME Init PROVE IInv
  OBVIOUS
<1>1. bucket \in [Source -> Tree]
  BY ConfigAssumption DEF Init, Tree
<1>2. TypeOK
  <2>1. gens \in [GenId -> Generations] /\ load \in [Loader -> Loads]
    BY Empty DEF Init
  <2>2. {snapshots, record} \subseteq Uses /\ sync \in Syncs
    BY Empty DEF Init
  <2>3. /\ clock \in 1 .. MaxVersion /\ flaky \in BOOLEAN /\ config \in Source /\ calls \in Seq(Catalogs)
        /\ faults \in [Fault -> 0 .. MaxOfAKind]
    BY ConfigAssumption DEF Init
  <2> QED
    BY <1>1, <2>1, <2>2, <2>3 DEF Init, TypeOK, Generations, Loads, Uses, Syncs
<1>3. ApartInv /\ KeptInv
  BY DEF Init, ApartInv, KeptInv, Remembered, Target, NoLoad, NoSnapshots, Loader
<1> QED
  BY <1>2, <1>3 DEF Init, IInv, TypeInv, Sane, BootInv, WrittenInv, CurrentValid, NoLoad, NoGen

\* Changes of the bucket.
LEMMA OutsideSteps ==
  ASSUME IInv,
         NEW s \in Source, NEW f \in File, Upload(s, f) \/ Remove(s, f)
  PROVE  IInv'
<1>0. bucket \in [Source -> Tree] /\ clock \in 1 .. MaxVersion /\ flaky \in BOOLEAN
  BY DEF IInv, TypeInv, TypeOK
<1>1. bucket' \in [Source -> Tree] /\ clock' \in 1 .. MaxVersion /\ flaky' \in BOOLEAN
  <2>1. \A v \in 0 .. MaxVersion : [bucket EXCEPT ![s][f] = v] \in [Source -> Tree]
    BY <1>0 DEF Tree
  <2>2. CASE Upload(s, f)
    <3>1. clock + 1 \in 0 .. MaxVersion /\ clock + 1 \in 1 .. MaxVersion
      BY <1>0, <2>2, ConfigAssumption DEF Upload
    <3>2. bucket' \in [Source -> Tree]
      BY <2>1, <2>2, <3>1 DEF Upload
    <3> QED
      BY <1>0, <2>2, <3>1, <3>2 DEF Upload
  <2>3. CASE Remove(s, f)
    <3>1. clock + 1 \in 1 .. MaxVersion /\ 0 \in 0 .. MaxVersion
      BY <1>0, <2>3, ConfigAssumption DEF Remove
    <3>2. bucket' \in [Source -> Tree]
      BY <2>1, <2>3, <3>1 DEF Remove
    <3> QED
      BY <1>0, <2>3, <3>1, <3>2 DEF Remove
  <2> QED
    BY <2>2, <2>3
<1>2. UNCHANGED <<config, disk, load, serving, sync, faults>>
  BY DEF Upload, Remove
<1> QED
  BY <1>1, <1>2 DEF IInv, TypeInv, TypeOK, Sane, BootInv, ApartInv, Remembered, KeptInv, WrittenInv,
     CurrentValid, Target, disk, serving

\* What happens to one load and its directory.
LEMMA ListStep ==
  ASSUME IInv, NEW a \in Loader, List(a)
  PROVE  IInv'
<1> DEFINE T == load[a].gen
<1>1. load[a].pc # "idle" /\ T \in GenId
  BY DEF List, At, IInv, TypeInv, TypeOK, Sane
<1>2. TypeOK'
  <2>1. Digest \in Tree /\ gens \in [GenId -> Generations] /\ load \in [Loader -> Loads]
    BY DEF IInv, TypeInv, TypeOK, Generations, Loads, Digest
  <2>2. gens' \in [GenId -> Generations]
    BY <2>1, Empty DEF List
  <2>3. load' \in [Loader -> Loads]
    BY <2>1 DEF List, Loads
  <2> QED
    BY <1>1, <2>2, <2>3 DEF List, IInv, TypeInv, TypeOK, Generations, Loads, serving
<1>3. \A b \in Loader : load'[b].gen = load[b].gen /\ Sane(load'[b])
  BY <1>1 DEF List, IInv, TypeInv, TypeOK, Sane
<1>4. ApartInv'
  BY <1>3 DEF List, IInv, ApartInv, Remembered, Target, serving
<1>5. T \notin Remembered /\ T # link
  BY <1>1, ConfigAssumption DEF IInv, ApartInv, Target, Remembered
<1>6. KeptInv'
  BY <1>5 DEF List, IInv, KeptInv, Remembered, serving, Target
<1>7. WrittenInv'
  BY <1>1 DEF List, IInv, TypeInv, TypeOK, WrittenInv, NoGen, Target, serving
<1>8. CurrentValid'
  BY <1>1, <1>5 DEF List, IInv, TypeInv, TypeOK, CurrentValid, Target, serving
<1> QED
  BY <1>2, <1>3, <1>4, <1>6, <1>7, <1>8 DEF IInv, TypeInv, BootInv, List, serving

LEMMA GetStep ==
  ASSUME IInv, NEW a \in Loader, NEW f \in File, Get(a, f)
  PROVE  IInv'
<1> DEFINE T == load[a].gen
<1>1. load[a].pc # "idle" /\ T \in GenId
  BY DEF Get, IInv, TypeInv, TypeOK, Sane, NoLoad
<1>2. TypeOK'
  <2>1. Digest \in Tree /\ gens \in [GenId -> Generations] /\ load \in [Loader -> Loads]
    BY DEF IInv, TypeInv, TypeOK, Generations, Loads, Digest
  <2>2. [gens[T].tree EXCEPT ![f] = Digest[f]] \in Tree
    BY <1>1, <2>1 DEF Tree, Generations
  <2>3. gens' \in [GenId -> Generations]
    BY <1>1, <2>1, <2>2 DEF Get, Generations, Target
  <2>4. load' \in [Loader -> Loads]
    BY <2>1 DEF Get, Loads
  <2> QED
    BY <1>1, <2>3, <2>4 DEF Get, IInv, TypeInv, TypeOK, Generations, Loads, serving, Target
<1>3. \A b \in Loader : load'[b].gen = load[b].gen /\ Sane(load'[b])
  BY <1>1 DEF Get, IInv, TypeInv, TypeOK, Sane
<1>4. ApartInv'
  BY <1>3 DEF Get, IInv, ApartInv, Remembered, Target, serving
<1>5. T \notin Remembered /\ T # link
  BY <1>1, ConfigAssumption DEF IInv, ApartInv, Target, Remembered
<1>6. KeptInv'
  BY <1>5 DEF Get, IInv, KeptInv, Remembered, serving, Target
<1>7. WrittenInv'
  BY <1>1 DEF Get, IInv, TypeInv, TypeOK, WrittenInv, Target, serving
<1>8. CurrentValid'
  BY <1>1, <1>5 DEF Get, IInv, TypeInv, TypeOK, CurrentValid, Target, serving
<1> QED
  BY <1>2, <1>3, <1>4, <1>6, <1>7, <1>8 DEF IInv, TypeInv, BootInv, Get, serving

------------------------------------------------------------------------------
(* The end of a load                                                       *)

\* A directory that is removed was nobody's but the load's.
LEMMA DiscardStep ==
  ASSUME IInv, NEW a \in Loader, Loading(a), Discard(a), UNCHANGED <<snapshots, record, build>>
  PROVE  /\ gens' \in [GenId -> Generations] /\ load' \in [Loader -> Loads]
         /\ dirs' \subseteq GenId /\ older' \subseteq GenId \X GenId /\ link' = link
         /\ \A b \in Loader : Sane(load'[b])
         /\ ApartInv' /\ KeptInv'
         /\ \A g \in GenId : g \notin dirs' => gens'[g].tree = NoFiles
         /\ link # None => link \in dirs' /\ gens'[link].tree \in ValidTrees
<1> DEFINE T == load[a].gen
<1>1. T \in GenId
  BY DEF Loading, At, IInv, TypeInv, TypeOK, Sane
<1>2. T \notin Remembered /\ T # link
  BY <1>1, ConfigAssumption DEF IInv, ApartInv, Target, Remembered
<1>3. gens \in [GenId -> Generations] /\ load \in [Loader -> Loads] /\ link \in GenId \cup {None}
  BY DEF IInv, TypeInv, TypeOK, Generations, Loads
<1>4. gens' \in [GenId -> Generations] /\ load' \in [Loader -> Loads]
  BY <1>3, Empty DEF Discard
<1>5. dirs' \subseteq GenId /\ older' \subseteq GenId \X GenId /\ link' = link
  BY DEF Discard, Among, IInv, TypeInv, TypeOK
<1>6. \A b \in Loader : Sane(load'[b])
  BY <1>3 DEF Discard, IInv, TypeInv, Sane, NoLoad
<1>7. ApartInv'
  <2>1. \A b \in Loader : load'[b].gen \in {load[b].gen, None} /\ (b = a => load'[b].gen = None)
    BY <1>3 DEF Discard, NoLoad
  <2> QED
    BY <2>1, <1>5 DEF IInv, ApartInv, Remembered, Target
<1>8. KeptInv'
  BY <1>2 DEF Discard, IInv, KeptInv, Remembered, Target
<1>9. \A g \in GenId : g \notin dirs' => gens'[g].tree = NoFiles
  BY <1>1, <1>3 DEF Discard, IInv, WrittenInv, NoGen, Target
<1>10. link # None => link \in dirs' /\ gens'[link].tree \in ValidTrees
  BY <1>1, <1>2, <1>3 DEF Discard, IInv, CurrentValid, Target
<1> QED
  BY <1>4, <1>5, <1>6, <1>7, <1>8, <1>9, <1>10

LEMMA HangUpTypes ==
  ASSUME TypeOK, HungUp
  PROVE  calls' = <<>> /\ calls' \in Seq(Catalogs) /\ sync' \in Syncs
<1>1. calls' = <<>> /\ calls' \in Seq(Catalogs)
  BY DEF HungUp
<1>2. sync' \in Syncs
  BY DEF TypeOK, HungUp, Syncs
<1> QED
  BY <1>1, <1>2

LEMMA RefusedStep ==
  ASSUME IInv, NEW a \in Loader, Loading(a), Discard(a), Refused(a),
         UNCHANGED <<bucket, clock, flaky, config, faults>>
  PROVE  IInv'
<1>1. sync' \in Syncs /\ calls' \in Seq(Catalogs) /\ runtime' \in {runtime, "failed"}
      /\ calls' \in {calls, <<>>}
  <2>1. CASE a = "boot"
    BY <2>1, HangUpTypes DEF Refused, IInv, TypeInv
  <2>2. CASE a # "boot"
    BY <2>2 DEF Refused, IInv, TypeInv, TypeOK, Syncs
  <2> QED
    BY <2>1, <2>2
<1>2. UNCHANGED <<catalog, snapshots, record, build>>
  BY DEF Refused
<1>3. TypeOK'
  BY <1>1, <1>2, DiscardStep DEF IInv, TypeInv, TypeOK, Generations, Loads, Syncs
<1>4. WrittenInv'
  BY <1>1, DiscardStep, <1>2 DEF IInv, WrittenInv
<1>5. CurrentValid'
  BY <1>2, DiscardStep DEF IInv, CurrentValid
<1>6. BootInv'
  BY <1>1, <1>2, DiscardStep DEF IInv, TypeInv, BootInv
<1> QED
  BY <1>2, <1>3, <1>4, <1>5, <1>6, DiscardStep DEF IInv, TypeInv

LEMMA RejectStep ==
  ASSUME IInv, NEW a \in Loader, Reject(a)
  PROVE  IInv'
<1>1. Loading(a)
  BY DEF Reject, Fetched, At, Loading
<1> QED
  BY <1>1, RefusedStep DEF Reject

LEMMA FetchFailsStep ==
  ASSUME IInv, NEW a \in Loader, NEW answered \in BOOLEAN, FetchFails(a, answered)
  PROVE  IInv'
<1>1. Loading(a) /\ Discard(a) /\ UNCHANGED <<bucket, clock, flaky, config, faults>>
  BY DEF FetchFails
<1>2. CASE Refused(a)
  BY <1>1, <1>2, RefusedStep
<1>3. CASE ~Refused(a)
  <2>1. /\ runtime' = "seeding" /\ Cached
        /\ catalog' = [tree |-> gens[link].tree, source |-> gens[link].source]
        /\ UNCHANGED <<calls, snapshots, record, build, sync>>
    BY <1>3 DEF FetchFails
  <2>2. link \in GenId /\ config \in Source /\ catalog' \in Catalogs /\ catalog'.source = config
    BY <2>1 DEF Cached, Validates, Catalogs, IInv, TypeInv, TypeOK
  <2>3. TypeOK'
    BY <1>1, <2>1, <2>2, DiscardStep DEF IInv, TypeInv, TypeOK, Generations, Loads
  <2>4. WrittenInv' /\ CurrentValid' /\ BootInv'
    BY <1>1, <2>1, <2>2, DiscardStep DEF IInv, WrittenInv, CurrentValid, BootInv
  <2> QED
    BY <1>1, <2>1, <2>3, <2>4, DiscardStep DEF IInv, TypeInv
<1> QED
  BY <1>2, <1>3

LEMMA ActivateStep ==
  ASSUME IInv, NEW a \in Loader, Activate(a)
  PROVE  IInv'
<1> DEFINE T == load[a].gen
           new == [tree |-> gens[T].tree, source |-> config]
<1>1. load[a].pc # "idle" /\ T \in GenId /\ T # None
  BY ConfigAssumption DEF Activate, Fetched, At, IInv, TypeInv, TypeOK, Sane
<1>2. gens \in [GenId -> Generations] /\ load \in [Loader -> Loads] /\ sync \in Syncs
      /\ config \in Source /\ calls \in Seq(Catalogs)
  BY DEF IInv, TypeInv, TypeOK, Generations, Loads, Syncs
<1>3. gens[T].tree \in ValidTrees /\ new \in Catalogs /\ T \in dirs
  BY <1>1, <1>2, ConfigAssumption DEF Activate, Validates, Target, Catalogs, IInv, WrittenInv
<1>4. T # link /\ link' = T /\ UNCHANGED <<config, dirs, snapshots, record, build>>
  BY <1>1 DEF Activate, IInv, ApartInv, Target
<1>5. gens' \in [GenId -> Generations] /\ gens'[T].tree = gens[T].tree
      /\ \A g \in GenId : gens'[g].tree \in {gens[g].tree, NoFiles}
  <2>1. \A g \in GenId :
          gens'[g] = IF g = link THEN NoGen
                     ELSE IF g = T THEN [tree |-> gens[g].tree, listed |-> load[a].items,
                                         source |-> config]
                     ELSE gens[g]
    BY DEF Activate, Target
  <2>2. gens' = [g \in GenId |-> gens'[g]]
    BY DEF Activate
  <2>3. \A g \in GenId : gens'[g] \in Generations /\ gens'[g].tree \in {gens[g].tree, NoFiles}
    <3> SUFFICES ASSUME NEW g \in GenId
                 PROVE  gens'[g] \in Generations /\ gens'[g].tree \in {gens[g].tree, NoFiles}
      OBVIOUS
    <3>1. CASE g = link
      <4>1. gens'[g] = NoGen
        BY <2>1, <3>1
      <4>2. NoGen.tree = NoFiles
        BY DEF NoGen
      <4> QED
        BY <4>1, <4>2, Empty
    <3>2. CASE g # link /\ g = T
      <4>1. gens'[g] = [tree |-> gens[g].tree, listed |-> load[a].items, source |-> config]
        BY <2>1, <3>2
      <4>2. gens[g].tree \in Tree /\ load[a].items \in Tree
        BY <1>2 DEF Generations, Loads
      <4> QED
        BY <1>2, <4>1, <4>2 DEF Generations
    <3>3. CASE g # link /\ g # T
      BY <1>2, <2>1, <3>3
    <3> QED
      BY <3>1, <3>2, <3>3
  <2> QED
    BY <1>1, <1>4, <2>1, <2>2, <2>3
<1>6. load' \in [Loader -> Loads] /\ load' = [load EXCEPT ![a] = NoLoad]
  BY <1>2, Empty DEF Activate
<1>7. runtime' \in {runtime, "seeding"} /\ catalog' \in {catalog, new} /\ sync' \in Syncs
      /\ calls' \in {calls, Append(calls, new)}
  BY <1>2 DEF Activate, Syncs, Target
<1>8. TypeOK'
  <2>1. runtime' \in {"down", "failed", "loading", "seeding", "warming", "up"}
        /\ catalog' \in Catalogs \cup {None} /\ calls' \in Seq(Catalogs)
    <3>1. Append(calls, new) \in Seq(Catalogs)
      BY <1>2, <1>3
    <3> QED
      BY <1>2, <1>3, <1>7, <3>1 DEF IInv, TypeInv, TypeOK
  <2>2. UNCHANGED <<bucket, clock, flaky, config, dirs, older, snapshots, record, build, faults>>
    BY DEF Activate
  <2> QED
    BY <1>1, <1>4, <1>5, <1>6, <1>7, <2>1, <2>2 DEF IInv, TypeInv, TypeOK, Generations, Loads, Syncs
<1>9. \A b \in Loader : load'[b].gen \in {load[b].gen, None} /\ (b = a => load'[b].gen = None)
                        /\ Sane(load'[b])
  BY <1>2, <1>6 DEF NoLoad, IInv, TypeInv, Sane
<1>10. ApartInv'
  BY <1>1, <1>4, <1>9 DEF IInv, ApartInv, Remembered, Target
<1>11. KeptInv'
  BY <1>4 DEF IInv, KeptInv, Remembered
<1>12. WrittenInv'
  <2>1. \A i \in 1 .. Len(calls') : calls'[i].source = config
    BY <1>2, <1>7 DEF IInv, WrittenInv
  <2> QED
    BY <1>4, <1>5, <2>1 DEF IInv, WrittenInv
<1>13. CurrentValid'
  BY <1>3, <1>4, <1>5, <1>7 DEF IInv, CurrentValid
<1>14. BootInv'
  BY <1>1, <1>4, <1>7 DEF IInv, TypeInv, BootInv
<1> QED
  BY <1>8, <1>9, <1>10, <1>11, <1>12, <1>13, <1>14 DEF IInv, TypeInv

------------------------------------------------------------------------------
(* The beginning of a load                                                 *)

LEMMA FreshName ==
  ASSUME GenId \ Mentioned # {}
  PROVE  NewName \in GenId /\ NewName \notin Mentioned
  BY DEF NewName

LEMMA BeginStep ==
  ASSUME IInv, NEW a \in Loader, Begin(a), UNCHANGED <<dirs, gens, link, snapshots, record, build>>
  PROVE  /\ load' \in [Loader -> Loads] /\ older' \subseteq GenId \X GenId
         /\ \A b \in Loader : Sane(load'[b])
         /\ ApartInv' /\ KeptInv'
<1>1. NewName \in GenId /\ NewName \notin Mentioned /\ NewName # None
  BY FreshName, ConfigAssumption DEF Begin
<1>2. load \in [Loader -> Loads] /\ older \subseteq GenId \X GenId /\ dirs \subseteq GenId
  BY DEF IInv, TypeInv, TypeOK, Loads
<1> DEFINE begun == [NoLoad EXCEPT !.pc = "listing", !.gen = NewName]
<1>3. load' = [load EXCEPT ![a] = begun] /\ begun \in Loads /\ begun.pc = "listing" /\ begun.gen = NewName
  <2>1. load' = [load EXCEPT ![a] = begun]
    BY DEF Begin
  <2>2. begun \in Loads /\ begun.pc = "listing" /\ begun.gen = NewName
    BY <1>1, Empty DEF Loads
  <2> QED
    BY <2>1, <2>2
<1> HIDE DEF begun
<1>4. load' \in [Loader -> Loads]
  BY <1>2, <1>3
<1>5. older' \subseteq GenId \X GenId
  <2>1. Named \subseteq GenId
    BY <1>2 DEF Named, Loads
  <2> QED
    BY <1>1, <1>2, <2>1 DEF Begin
<1>6. \A b \in Loader : Sane(load'[b])
  BY <1>1, <1>2, <1>3 DEF IInv, TypeInv, Sane
<1>7. NewName \notin Remembered \cup {build, link} /\ \A b \in Loader : load[b].gen # NewName
  BY <1>1 DEF Mentioned, Named, InUse, Remembered
<1>8. ApartInv'
  BY <1>2, <1>3, <1>7 DEF IInv, ApartInv, Remembered, Target
<1> QED
  BY <1>4, <1>5, <1>6, <1>8 DEF IInv, KeptInv, Remembered

LEMMA StartBootStep == IInv /\ StartBoot => IInv'
<1> SUFFICES ASSUME IInv, StartBoot PROVE IInv'
  OBVIOUS
<1>1. Begin("boot") /\ "boot" \in Loader /\ runtime' = "loading"
      /\ UNCHANGED <<bucket, clock, flaky, config, dirs, gens, link, catalog, calls, snapshots, record,
                     build, sync>>
  BY DEF StartBoot, Loader
<1>2. faults' \in [Fault -> 0 .. MaxOfAKind]
  BY HappensTypes DEF StartBoot, Fault, IInv, TypeInv, TypeOK
<1>3. TypeOK'
  BY <1>1, <1>2, BeginStep DEF IInv, TypeInv, TypeOK, Loads
<1>4. WrittenInv' /\ CurrentValid' /\ BootInv'
  BY <1>1 DEF IInv, WrittenInv, CurrentValid, BootInv
<1> QED
  BY <1>1, <1>3, <1>4, BeginStep DEF IInv, TypeInv

LEMMA TickStep == IInv /\ Tick => IInv'
<1> SUFFICES ASSUME IInv, Tick PROVE IInv'
  OBVIOUS
<1>1. Begin("sync") /\ "sync" \in Loader /\ sync' = [sync EXCEPT !.pc = "loading", !.seen = Digest]
      /\ UNCHANGED <<bucket, clock, flaky, config, dirs, gens, link, serving, faults>>
  BY DEF Tick, Loader
<1>2. sync' \in Syncs
  BY <1>1 DEF Syncs, Digest, IInv, TypeInv, TypeOK
<1>3. TypeOK'
  BY <1>1, <1>2, BeginStep DEF IInv, TypeInv, TypeOK, Loads, Syncs, serving
<1>4. WrittenInv' /\ CurrentValid' /\ BootInv'
  BY <1>1 DEF IInv, TypeInv, WrittenInv, CurrentValid, BootInv, serving
<1> QED
  BY <1>1, <1>3, <1>4, BeginStep DEF IInv, TypeInv, serving

------------------------------------------------------------------------------
(* The runtime                                                             *)

\* Steps that change only what is served, remembered or built.
LEMMA ServingStep ==
  ASSUME IInv,
         UNCHANGED <<bucket, clock, flaky, config, disk, load, catalog, calls, sync, faults>>,
         runtime' \in {"seeding", "warming", "up"}, runtime \in {"seeding", "warming", "up"},
         snapshots' \in Uses, record' \in Uses, build' \in {None, build, link},
         Remembered' \subseteq Remembered \cup {build, None},
         Remembered' \ {None} \subseteq dirs,
         runtime' = "up" => record' = snapshots'
  PROVE  IInv'
<1>1. TypeOK'
  BY DEF IInv, TypeInv, TypeOK, BootInv, Uses, disk
<1>2. ApartInv'
  BY DEF IInv, ApartInv, Target, disk
<1>3. KeptInv' /\ WrittenInv' /\ CurrentValid' /\ BootInv'
  BY DEF IInv, TypeInv, KeptInv, WrittenInv, CurrentValid, BootInv, disk
<1> QED
  BY <1>1, <1>2, <1>3 DEF IInv, TypeInv

LEMMA SeedStep == IInv /\ Seed => IInv'
<1> SUFFICES ASSUME IInv, Seed PROVE IInv'
  OBVIOUS
<1>1. snapshots \in Uses /\ record \in Uses /\ link \in GenId
  BY DEF Seed, IInv, TypeInv, TypeOK, BootInv, Uses
<1>2. snapshots' \in Uses /\ {snapshots'.active, snapshots'.previous} \subseteq Remembered \cup {None}
  <2>1. CASE snapshots' = snapshots
    BY <1>1, <2>1 DEF Remembered
  <2>2. ASSUME NEW previous \in {record.previous, None},
               snapshots' = [active |-> record.active, previous |-> previous]
        PROVE  snapshots' \in Uses
               /\ {snapshots'.active, snapshots'.previous} \subseteq Remembered \cup {None}
    BY <1>1, <2>2 DEF Remembered, Uses
  <2> QED
    BY <2>1, <2>2 DEF Seed
<1>3. Remembered' \subseteq Remembered \cup {None}
  BY <1>2 DEF Seed, Remembered
<1>4. Remembered' \ {None} \subseteq dirs
  BY <1>3 DEF IInv, KeptInv
<1> QED
  BY <1>1, <1>2, <1>3, <1>4, ServingStep DEF Seed

LEMMA StartBuildStep == IInv /\ StartBuild => IInv'
<1> SUFFICES ASSUME IInv, StartBuild PROVE IInv'
  OBVIOUS
<1>1. snapshots \in Uses /\ record \in Uses /\ record = snapshots
  BY DEF StartBuild, IInv, TypeInv, TypeOK, BootInv, Uses
<1>2. Remembered' = Remembered
  BY DEF StartBuild, Remembered
<1> QED
  BY <1>1, <1>2, ServingStep DEF StartBuild, IInv, KeptInv

\* A build that is applied had its files.
LEMMA AppliedUses ==
  ASSUME IInv, NEW cutover \in BOOLEAN, StillThere
  PROVE  /\ Applied(cutover) \in Uses
         /\ {Applied(cutover).active, Applied(cutover).previous} \subseteq Remembered \cup {build, None}
         /\ {Applied(cutover).active, Applied(cutover).previous} \ {None} \subseteq dirs
  BY DEF Applied, StillThere, Remembered, Uses, IInv, TypeInv, TypeOK, KeptInv

LEMMA FinishBuildStep == IInv /\ FinishBuild => IInv'
<1> SUFFICES ASSUME IInv, FinishBuild PROVE IInv'
  OBVIOUS
<1>1. snapshots \in Uses /\ record = snapshots
  BY DEF FinishBuild, IInv, TypeInv, TypeOK, BootInv, Uses
<1>2. /\ snapshots' \in Uses /\ record' = snapshots'
      /\ {snapshots'.active, snapshots'.previous} \subseteq Remembered \cup {build, None}
      /\ {snapshots'.active, snapshots'.previous} \ {None} \subseteq dirs
  <2>1. CASE UNCHANGED <<snapshots, record>>
    BY <1>1, <2>1 DEF Remembered, IInv, KeptInv
  <2>2. CASE ~UNCHANGED <<snapshots, record>>
    BY <2>2, AppliedUses DEF FinishBuild
  <2> QED
    BY <2>1, <2>2
<1>3. Remembered' \subseteq Remembered \cup {build, None} /\ Remembered' \ {None} \subseteq dirs
  BY <1>2 DEF Remembered
<1> QED
  BY <1>2, <1>3, ServingStep DEF FinishBuild

LEMMA RollbackStep == IInv /\ Rollback => IInv'
<1> SUFFICES ASSUME IInv, Rollback PROVE IInv'
  OBVIOUS
<1>1. snapshots \in Uses
  BY DEF IInv, TypeInv, TypeOK, Uses
<1>2. snapshots' \in Uses /\ record' = snapshots' /\ Remembered' \subseteq Remembered
  BY <1>1 DEF Rollback, Uses, Remembered
<1>3. Remembered' \ {None} \subseteq dirs
  BY <1>2 DEF IInv, KeptInv
<1> QED
  BY <1>2, <1>3, ServingStep DEF Rollback

\* Prune deletes no directory in use and not the current one.
LEMMA PruneStep ==
  ASSUME IInv, NEW used, Prune(used)
  PROVE  /\ gens' \in [GenId -> Generations] /\ older' \subseteq GenId \X GenId /\ link' = link
         /\ dirs' \subseteq dirs /\ used \cap dirs \subseteq dirs'
         /\ \A g \in GenId : g \notin dirs' => gens'[g].tree = NoFiles
         /\ link # None => link \in dirs' /\ gens'[link].tree \in ValidTrees
<1>1. gens \in [GenId -> Generations] /\ link \in GenId \cup {None}
  BY DEF IInv, TypeInv, TypeOK, Generations
<1>2. link' = link /\ dirs' \subseteq dirs /\ used \cap dirs \subseteq dirs' /\ older' \subseteq GenId \X GenId
  BY DEF Prune, Spared, Among, IInv, TypeInv, TypeOK
<1>3. \A g \in GenId : gens'[g] = IF g \in dirs \ dirs' THEN NoGen ELSE gens[g]
  BY DEF Prune
<1>4. gens' \in [GenId -> Generations]
  BY <1>1, Empty DEF Prune
<1>5. \A g \in GenId : g \notin dirs' => gens'[g].tree = NoFiles
  BY <1>3 DEF NoGen, IInv, WrittenInv
<1>6. link # None => link \in dirs' /\ gens'[link].tree \in ValidTrees
  <2>1. link # None => link \in dirs'
    BY DEF Prune, Spared, IInv, CurrentValid
  <2> QED
    BY <1>1, <1>3, <2>1 DEF IInv, CurrentValid
<1> QED
  BY <1>2, <1>4, <1>5, <1>6

\* Steps that end in a prune, with what is served from then on.
LEMMA PruningStep ==
  ASSUME IInv, Prune({snapshots'.active, snapshots'.previous} \ {None}),
         UNCHANGED <<bucket, clock, flaky, config, load, faults>>,
         runtime \in {"warming", "up"}, runtime' = "up",
         snapshots' \in Uses, record' = snapshots', build' \in {None, build},
         {snapshots'.active, snapshots'.previous} \subseteq Remembered \cup {build, None},
         {snapshots'.active, snapshots'.previous} \ {None} \subseteq dirs,
         catalog' \in Catalogs \cup {None}, catalog' # None => catalog'.source = config,
         calls' \in Seq(Catalogs), \A i \in 1 .. Len(calls') : calls'[i].source = config,
         sync' \in Syncs
  PROVE  IInv'
<1> DEFINE used == {snapshots'.active, snapshots'.previous} \ {None}
<1>1. /\ gens' \in [GenId -> Generations] /\ older' \subseteq GenId \X GenId /\ link' = link
      /\ dirs' \subseteq dirs /\ used \cap dirs \subseteq dirs'
      /\ \A g \in GenId : g \notin dirs' => gens'[g].tree = NoFiles
      /\ link # None => link \in dirs' /\ gens'[link].tree \in ValidTrees
  BY PruneStep
<1>2. TypeOK'
  BY <1>1 DEF IInv, TypeInv, TypeOK, Generations, Uses, Syncs
<1>3. Remembered' \subseteq Remembered \cup {build, None} /\ Remembered' \ {None} \subseteq dirs'
  BY <1>1 DEF Remembered
<1>4. ApartInv'
  BY <1>1, <1>3 DEF IInv, ApartInv, Target
<1>5. BootInv' /\ (\A a \in Loader : Sane(load'[a]))
  BY <1>1 DEF IInv, TypeInv, BootInv
<1>6. KeptInv' /\ WrittenInv' /\ CurrentValid'
  BY <1>1, <1>3 DEF KeptInv, WrittenInv, CurrentValid
<1> QED
  BY <1>2, <1>4, <1>5, <1>6 DEF IInv, TypeInv

LEMMA OpenStep == IInv /\ Open => IInv'
<1> SUFFICES ASSUME IInv, Open PROVE IInv'
  OBVIOUS
<1>1. /\ snapshots' \in Uses
      /\ {snapshots'.active, snapshots'.previous} \subseteq Remembered \cup {build, None}
      /\ {snapshots'.active, snapshots'.previous} \ {None} \subseteq dirs
  <2>1. CASE snapshots' = snapshots
    BY <2>1 DEF Remembered, Uses, IInv, TypeInv, TypeOK, KeptInv
  <2>2. CASE StillThere /\ snapshots' = Applied(FALSE)
    BY <2>2, AppliedUses
  <2> QED
    BY <2>1, <2>2 DEF Open
<1>2. /\ catalog' \in Catalogs \cup {None} /\ (catalog' # None => catalog'.source = config)
      /\ calls' \in Seq(Catalogs) /\ (\A i \in 1 .. Len(calls') : calls'[i].source = config)
      /\ sync' \in Syncs
  BY DEF Open, IInv, TypeInv, TypeOK, WrittenInv, CurrentValid, Syncs
<1> QED
  BY <1>1, <1>2, PruningStep DEF Open

LEMMA ReloadStep == IInv /\ Reload => IInv'
<1> SUFFICES ASSUME IInv, Reload PROVE IInv'
  OBVIOUS
<1>1. snapshots \in Uses /\ record = snapshots /\ calls \in Seq(Catalogs) /\ calls # <<>> /\ sync \in Syncs
  BY DEF Reload, IInv, TypeInv, TypeOK, BootInv, Uses, Syncs
<1>2. /\ snapshots' \in Uses /\ record' = snapshots'
      /\ {snapshots'.active, snapshots'.previous} \subseteq Remembered \cup {build, None}
      /\ {snapshots'.active, snapshots'.previous} \ {None} \subseteq dirs
  <2>1. CASE snapshots' = snapshots
    BY <1>1, <2>1 DEF Reload, Remembered, IInv, KeptInv
  <2>2. CASE snapshots' # snapshots
    BY <2>2, Empty DEF Reload, NoSnapshots
  <2> QED
    BY <2>1, <2>2
<1>3. catalog' \in Catalogs /\ catalog'.source = config
  <2>1. Head(calls) = calls[1] /\ 1 \in 1 .. Len(calls) /\ calls[1] \in Catalogs
    BY <1>1
  <2> QED
    BY <2>1 DEF Reload, IInv, WrittenInv
<1>4. calls' \in Seq(Catalogs) /\ \A i \in 1 .. Len(calls') : calls'[i].source = config
  <2>1. calls' = Tail(calls) /\ calls' \in Seq(Catalogs)
    BY <1>1 DEF Reload
  <2>2. \A i \in 1 .. Len(calls') : i + 1 \in 1 .. Len(calls) /\ calls'[i] = calls[i + 1]
    BY <1>1, <2>1
  <2> QED
    BY <2>1, <2>2 DEF IInv, WrittenInv
<1>5. sync' \in Syncs
  BY <1>1 DEF Reload, Syncs
<1>6. build' \in {None, build} /\ runtime = "up" /\ runtime' = "up"
      /\ UNCHANGED <<bucket, clock, flaky, config, load, faults>>
      /\ Prune({snapshots'.active, snapshots'.previous} \ {None})
  BY DEF Reload
<1> QED
  BY <1>2, <1>3, <1>4, <1>5, <1>6, PruningStep

------------------------------------------------------------------------------
(* The sync loop, and crashes                                              *)

LEMMA SyncSteps == IInv /\ (StartSync \/ CallTimesOut) => IInv'
<1> SUFFICES ASSUME IInv, StartSync \/ CallTimesOut PROVE IInv'
  OBVIOUS
<1>1. sync' \in Syncs
  <2>1. CASE StartSync
    <3>1. link \in GenId /\ gens[link].listed \in Tree \cup {None}
      BY <2>1 DEF StartSync, IInv, TypeInv, TypeOK, BootInv
    <3> QED
      BY <2>1, <3>1 DEF StartSync, IInv, TypeInv, TypeOK, Syncs
  <2>2. CASE CallTimesOut
    BY <2>2 DEF CallTimesOut, IInv, TypeInv, TypeOK, Syncs
  <2> QED
    BY <2>1, <2>2
<1>2. UNCHANGED <<bucket, clock, flaky, config, disk, load, serving>> /\ faults' \in [Fault -> 0 .. MaxOfAKind]
  BY HappensTypes DEF StartSync, CallTimesOut, Fault, IInv, TypeInv, TypeOK
<1>3. TypeOK'
  BY <1>1, <1>2 DEF IInv, TypeInv, TypeOK, Syncs, disk, serving
<1> QED
  BY <1>2, <1>3 DEF IInv, TypeInv, Sane, BootInv, ApartInv, Remembered, KeptInv, WrittenInv,
     CurrentValid, Target, disk, serving

\* The runtime is gone, and with it what it served and some of the loads.
LEMMA StoppedStep ==
  ASSUME IInv, Stopped, calls' = <<>>, sync' \in Syncs, config' \in Source, faults' \in [Fault -> 0 .. MaxOfAKind],
         flaky' = flaky, older' \subseteq older,
         \A a \in Loader : load'[a] \in {load[a], NoLoad}, load' \in [Loader -> Loads]
  PROVE  IInv'
<1>1. NoSnapshots \in Uses
  BY Empty
<1>2. TypeOK'
  BY <1>1 DEF Stopped, IInv, TypeInv, TypeOK, Uses, Syncs, Loads
<1>3. \A a \in Loader : Sane(load'[a]) /\ load'[a].gen \in {load[a].gen, None}
  BY DEF IInv, TypeInv, Sane, NoLoad
<1>4. Remembered' \subseteq Remembered \cup {None} /\ build' = None /\ link' = link
  BY DEF Stopped, Remembered, NoSnapshots
<1>5. ApartInv'
  BY <1>3, <1>4 DEF IInv, ApartInv, Target
<1>6. KeptInv' /\ WrittenInv' /\ CurrentValid' /\ BootInv'
  BY <1>4 DEF Stopped, IInv, KeptInv, WrittenInv, CurrentValid, BootInv
<1> QED
  BY <1>2, <1>3, <1>5, <1>6 DEF IInv, TypeInv

LEMMA CrashStep == IInv /\ Crash => IInv'
<1> SUFFICES ASSUME IInv, Crash PROVE IInv'
  OBVIOUS
<1>1. load \in [Loader -> Loads] /\ config \in Source
  BY DEF IInv, TypeInv, TypeOK, Loads
<1>2. calls' = <<>> /\ sync' \in Syncs
  BY HangUpTypes DEF Crash, IInv, TypeInv
<1>3. load' \in [Loader -> Loads] /\ \A a \in Loader : load'[a] \in {load[a], NoLoad}
  BY <1>1, Empty DEF Crash
<1>4. faults' \in [Fault -> 0 .. MaxOfAKind] /\ older' \subseteq older
  BY HappensTypes DEF Crash, Fault, Among, IInv, TypeInv, TypeOK
<1> QED
  BY <1>1, <1>2, <1>3, <1>4, StoppedStep DEF Crash

LEMMA NodeStep == IInv /\ (Restart \/ GiveUp) => IInv'
<1> SUFFICES ASSUME IInv, Restart \/ GiveUp PROVE IInv'
  OBVIOUS
<1>1. NodeStops /\ flaky' = flaky /\ faults' \in [Fault -> 0 .. MaxOfAKind]
  BY HappensTypes DEF Restart, GiveUp, Fault, IInv, TypeInv, TypeOK
<1>2. load' \in [Loader -> Loads] /\ \A a \in Loader : load'[a] \in {load[a], NoLoad}
  BY <1>1, Empty DEF NodeStops
<1>3. sync' \in Syncs /\ calls' = <<>> /\ config' \in Source /\ older' \subseteq older /\ Stopped
  BY <1>1, Empty DEF NodeStops, Among
<1> QED
  BY <1>1, <1>2, <1>3, StoppedStep

------------------------------------------------------------------------------
LEMMA NextHolds == IInv /\ [Next]_vars => IInv'
<1> SUFFICES ASSUME IInv, [Next]_vars PROVE IInv'
  OBVIOUS
<1>1. ASSUME NEW s \in Source, NEW f \in File, Upload(s, f) \/ Remove(s, f)
      PROVE  IInv'
  BY <1>1, OutsideSteps
<1>2. CASE Settle
  <2>1. UNCHANGED <<bucket, clock, config, disk, load, serving, sync, faults>> /\ flaky' \in BOOLEAN
    BY <1>2 DEF Settle
  <2> QED
    BY <2>1 DEF IInv, TypeInv, TypeOK, Sane, BootInv, ApartInv, Remembered, KeptInv, WrittenInv,
       CurrentValid, Target, disk, serving
<1>3. ASSUME NEW a \in Loader, LoaderStep(a)
      PROVE  IInv'
  BY <1>3, ListStep, RejectStep, ActivateStep, GetStep, FetchFailsStep DEF LoaderStep
<1>4. CASE StartBoot \/ Seed \/ Open
  BY <1>4, StartBootStep, SeedStep, OpenStep
<1>5. CASE StartBuild \/ FinishBuild \/ Rollback \/ Reload
  BY <1>5, StartBuildStep, FinishBuildStep, RollbackStep, ReloadStep
<1>6. CASE StartSync \/ Tick \/ CallTimesOut
  BY <1>6, SyncSteps, TickStep
<1>7. CASE Crash \/ Restart \/ GiveUp
  BY <1>7, CrashStep, NodeStep
<1>8. CASE UNCHANGED vars
  BY <1>8 DEF vars, IInv, TypeInv, TypeOK, Sane, BootInv, ApartInv, Remembered, KeptInv, WrittenInv,
     CurrentValid, Target, disk, serving
<1> QED
  BY <1>1, <1>2, <1>3, <1>4, <1>5, <1>6, <1>7, <1>8 DEF Next

LEMMA Invariant == Spec => []IInv
<1> QED
  BY InitHolds, NextHolds, PTL DEF Spec

\* Every variable holds a value of its kind, whatever fails and crashes and
\* whoever loads.
THEOREM TypeCorrect == Spec => []TypeOK
<1>1. IInv => TypeOK
  BY DEF IInv, TypeInv
<1> QED
  BY <1>1, Invariant, PTL

\* The files of the generation that a snapshot was built from are there as
\* long as it serves or may be rolled back to (prune, generation_missing?),
\* with any number of generations, loads of two processes and crashes.
THEOREM FilesOutlastSnapshots == Spec => []SnapshotFiles
<1>1. IInv => SnapshotFiles
  BY DEF IInv, KeptInv, Remembered, SnapshotFiles, InUse
<1> QED
  BY <1>1, Invariant, PTL

\* Only a generation that validated is current, its directory is there, and
\* what runs came from the configured source (load_generation, load_cached).
THEOREM OnlyValidCurrent == Spec => []CurrentValid
<1>1. IInv => CurrentValid
  BY DEF IInv
<1> QED
  BY <1>1, Invariant, PTL

------------------------------------------------------------------------------
(* What is current is whole                                                *)

\* What a load writes to is its own.
LEMMA OwnTarget ==
  ASSUME IInv, NEW a \in Loader, Loading(a)
  PROVE  /\ Target(a) \in GenId /\ Target(a) # None /\ Target(a) # link
         /\ \A b \in Loader : b # a => Target(b) # Target(a)
  BY ConfigAssumption DEF IInv, TypeInv, TypeOK, Sane, ApartInv, Loading, At, Target

LEMMA WholeKinds ==
  ASSUME IInv
  PROVE  /\ gens \in [GenId -> Generations] /\ load \in [Loader -> Loads]
         /\ link \in GenId \cup {None} /\ Digest \in Tree /\ dirs \subseteq GenId
         /\ NoLoad.pc = "idle" /\ NoLoad.gen = None /\ Files(NoFiles) = {} /\ NoGen.tree = NoFiles
  BY ConfigAssumption
  DEF IInv, TypeInv, TypeOK, Generations, Loads, Digest, NoLoad, Files, NoFiles, NoGen

\* Steps that write to no generation that is current or being written.
LEMMA WholeStays ==
  ASSUME IInv, WholeInv, link' = link,
         link # None => gens'[link].tree = gens[link].tree /\ gens'[link].listed = gens[link].listed,
         \A a \in Loader : load'[a].pc = "listing" => load'[a].todo = {},
         \A a \in Loader : load'[a].pc = "fetching" =>
           load'[a] = load[a] /\ gens'[Target(a)].tree = gens[Target(a)].tree
  PROVE  WholeInv'
<1>1. link' # None => Files(gens'[link'].tree) = Files(gens'[link'].listed)
  BY DEF WholeInv, Files
<1>2. ASSUME NEW a \in Loader, load'[a].pc = "fetching"
      PROVE  /\ load'[a].todo \subseteq Files(load'[a].items)
             /\ Files(gens'[load'[a].gen].tree) = Files(load'[a].items) \ load'[a].todo
  BY <1>2 DEF WholeInv, At, Target, Files
<1> QED
  BY <1>1, <1>2 DEF WholeInv, At, Target, Files

LEMMA WholeListStep ==
  ASSUME IInv, WholeInv, NEW a \in Loader, List(a)
  PROVE  WholeInv'
<1>1. Loading(a)
  BY DEF List, At, Loading
<1>2. /\ link' = link /\ gens' = [gens EXCEPT ![Target(a)] = NoGen]
      /\ load' = [load EXCEPT ![a].pc = "fetching", ![a].items = Digest,
                              ![a].todo = {f \in File : Digest[f] # 0}]
  BY DEF List
<1>3. link # None => Files(gens'[link].tree) = Files(gens'[link].listed)
  BY <1>1, <1>2, OwnTarget, WholeKinds DEF WholeInv
<1>0. \A b \in Loader : load'[b].pc = "listing" => load'[b].todo = {}
  BY <1>2, WholeKinds DEF WholeInv, At, Loads, NoLoad
<1>4. ASSUME NEW b \in Loader, load'[b].pc = "fetching"
      PROVE  /\ load'[b].todo \subseteq Files(load'[b].items)
             /\ Files(gens'[load'[b].gen].tree) = Files(load'[b].items) \ load'[b].todo
  <2>1. CASE b = a
    <3>1. load'[a].todo = Files(Digest) /\ load'[a].items = Digest /\ load'[a].gen = Target(a)
      BY <1>2, WholeKinds DEF Files, Loads, Target
    <3>2. Files(gens'[Target(a)].tree) = {}
      BY <1>1, <1>2, OwnTarget, WholeKinds
    <3> QED
      BY <2>1, <3>1, <3>2
  <2>2. CASE b # a
    <3>1. load'[b] = load[b] /\ At(b, "fetching")
      BY <1>2, <1>4, <2>2, WholeKinds DEF At
    <3>2. gens'[load[b].gen] = gens[load[b].gen]
      BY <1>1, <1>2, <2>2, <3>1, OwnTarget, WholeKinds DEF Loading, At, Target
    <3> QED
      BY <3>1, <3>2 DEF WholeInv, Target
  <2> QED
    BY <2>1, <2>2
<1> QED
  BY <1>0, <1>2, <1>3, <1>4 DEF WholeInv, At, Target, Files

LEMMA WholeGetStep ==
  ASSUME IInv, WholeInv, NEW a \in Loader, NEW f \in File, Get(a, f)
  PROVE  WholeInv'
<1>1. Loading(a) /\ At(a, "fetching")
  <2>1. load[a].pc \in {"idle", "listing", "fetching"} /\ load[a].todo # {}
    BY WholeKinds DEF Get, Loads
  <2>2. load[a].pc # "idle"
    BY <2>1 DEF IInv, TypeInv, Sane, NoLoad
  <2> QED
    BY <2>1, <2>2 DEF WholeInv, Loading, At
<1>2. /\ link' = link /\ f \in load[a].todo /\ Digest[f] # 0
      /\ gens' = [gens EXCEPT ![Target(a)].tree[f] = Digest[f]]
      /\ load' = [load EXCEPT ![a].todo = @ \ {f}]
  BY DEF Get
<1>3. link # None => Files(gens'[link].tree) = Files(gens'[link].listed)
  BY <1>1, <1>2, OwnTarget, WholeKinds DEF WholeInv
<1>0. \A b \in Loader : load'[b].pc = "listing" => load'[b].todo = {}
  BY <1>2, WholeKinds DEF WholeInv, At, Loads, NoLoad
<1>4. ASSUME NEW b \in Loader, load'[b].pc = "fetching"
      PROVE  /\ load'[b].todo \subseteq Files(load'[b].items)
             /\ Files(gens'[load'[b].gen].tree) = Files(load'[b].items) \ load'[b].todo
  <2>1. CASE b = a
    <3>1. /\ load'[a].todo = load[a].todo \ {f} /\ load'[a].items = load[a].items
          /\ load'[a].gen = Target(a)
      BY <1>2, WholeKinds DEF Loads, Target
    <3>2. Files(gens'[Target(a)].tree) = Files(gens[Target(a)].tree) \cup {f}
      <4>1. gens'[Target(a)].tree = [gens[Target(a)].tree EXCEPT ![f] = Digest[f]]
        BY <1>1, <1>2, OwnTarget, WholeKinds
      <4>2. gens[Target(a)].tree \in Tree
        BY <1>1, OwnTarget, WholeKinds DEF Generations
      <4> QED
        BY <1>2, <4>1, <4>2 DEF Files, Tree
    <3>3. load[a].todo \subseteq Files(load[a].items)
          /\ Files(gens[Target(a)].tree) = Files(load[a].items) \ load[a].todo
      BY <1>1 DEF WholeInv
    <3> QED
      BY <1>2, <2>1, <3>1, <3>2, <3>3
  <2>2. CASE b # a
    <3>1. load'[b] = load[b] /\ At(b, "fetching")
      BY <1>2, <1>4, <2>2, WholeKinds DEF At
    <3>2. gens'[load[b].gen] = gens[load[b].gen]
      BY <1>1, <1>2, <2>2, <3>1, OwnTarget, WholeKinds DEF Loading, At, Target
    <3> QED
      BY <3>1, <3>2 DEF WholeInv, Target
  <2> QED
    BY <2>1, <2>2
<1> QED
  BY <1>0, <1>2, <1>3, <1>4 DEF WholeInv, At, Target, Files

LEMMA WholeActivateStep ==
  ASSUME IInv, WholeInv, NEW a \in Loader, Activate(a)
  PROVE  WholeInv'
<1>1. Loading(a) /\ At(a, "fetching") /\ load[a].todo = {}
  BY DEF Activate, Fetched, At, Loading
<1>2. link' = Target(a) /\ load' = [load EXCEPT ![a] = NoLoad]
  BY DEF Activate
<1>3. \A g \in GenId :
        gens'[g] = IF g = link THEN NoGen
                   ELSE IF g = Target(a) THEN [tree |-> gens[g].tree, listed |-> load[a].items,
                                               source |-> config]
                   ELSE gens[g]
  BY DEF Activate
<1>4. Files(gens'[Target(a)].tree) = Files(gens'[Target(a)].listed)
  <2>1. /\ gens'[Target(a)].tree = gens[Target(a)].tree
        /\ gens'[Target(a)].listed = load[a].items
    <3>1. gens'[Target(a)] = [tree |-> gens[Target(a)].tree, listed |-> load[a].items,
                              source |-> config]
      BY <1>1, <1>3, OwnTarget
    <3> QED
      BY <3>1
  <2>2. Files(gens[Target(a)].tree) = Files(load[a].items)
    BY <1>1 DEF WholeInv
  <2> QED
    BY <2>1, <2>2
<1>0. \A b \in Loader : load'[b].pc = "listing" => load'[b].todo = {}
  BY <1>2, WholeKinds DEF WholeInv, At, Loads
<1>5. ASSUME NEW b \in Loader, load'[b].pc = "fetching"
      PROVE  /\ load'[b].todo \subseteq Files(load'[b].items)
             /\ Files(gens'[load'[b].gen].tree) = Files(load'[b].items) \ load'[b].todo
  <2>1. b # a /\ load'[b] = load[b] /\ At(b, "fetching") /\ Loading(b)
    BY <1>2, <1>5, WholeKinds DEF At, Loading
  <2>2. Target(b) \in GenId /\ Target(b) # link /\ Target(b) # Target(a)
    BY <1>1, <2>1, OwnTarget
  <2>3. gens'[Target(b)] = gens[Target(b)]
    BY <1>3, <2>2
  <2> QED
    BY <2>1, <2>3 DEF WholeInv, Target
<1> QED
  BY <1>0, <1>2, <1>4, <1>5 DEF WholeInv, At, Target, Files

\* The end of a load that is discarded.
LEMMA WholeDiscardStep ==
  ASSUME IInv, WholeInv, NEW a \in Loader, Loading(a), Discard(a)
  PROVE  WholeInv'
<1>1. link' = link /\ load' = [load EXCEPT ![a] = NoLoad] /\ gens' = [gens EXCEPT ![Target(a)] = NoGen]
  BY DEF Discard
<1>2. link # None => gens'[link] = gens[link]
  BY <1>1, OwnTarget, WholeKinds
<1>3. \A b \in Loader : load'[b].pc = "fetching" =>
        load'[b] = load[b] /\ gens'[Target(b)] = gens[Target(b)]
  <2> SUFFICES ASSUME NEW b \in Loader, load'[b].pc = "fetching"
               PROVE  load'[b] = load[b] /\ gens'[Target(b)] = gens[Target(b)]
    OBVIOUS
  <2>1. b # a /\ load'[b] = load[b] /\ Loading(b)
    BY <1>1, WholeKinds DEF Loading, At
  <2> QED
    BY <1>1, <2>1, OwnTarget, WholeKinds
<1>4. \A b \in Loader : load'[b].pc = "listing" => load'[b].todo = {}
  BY <1>1, WholeKinds DEF WholeInv, At
<1> QED
  BY <1>1, <1>2, <1>3, <1>4, WholeStays

\* A prune that spares the loads.
LEMMA WholePruneStep ==
  ASSUME IInv, WholeInv, NEW used, Prune(used), UNCHANGED load,
         \A a \in Loader : Target(a) \in dirs => Target(a) \in dirs'
  PROVE  WholeInv'
<1>1. link' = link /\ \A g \in GenId : gens'[g] = IF g \in dirs \ dirs' THEN NoGen ELSE gens[g]
  BY DEF Prune
<1>2. link # None => gens'[link] = gens[link]
  <2>1. link # None => link \in dirs'
    BY PruneStep
  <2> QED
    BY <1>1, <2>1, WholeKinds
<1>3. \A b \in Loader : load'[b].pc = "fetching" =>
        load'[b] = load[b] /\ gens'[Target(b)] = gens[Target(b)]
  BY <1>1, OwnTarget DEF Loading, At
<1>4. \A b \in Loader : load'[b].pc = "listing" => load'[b].todo = {}
  BY DEF WholeInv, At
<1> QED
  BY <1>1, <1>2, <1>3, <1>4, WholeStays

LEMMA WholeNext == IInv /\ WholeInv /\ [Next /\ LoadsSpared]_vars => WholeInv'
<1> SUFFICES ASSUME IInv, WholeInv, [Next /\ LoadsSpared]_vars PROVE WholeInv'
  OBVIOUS
<1>1. ASSUME UNCHANGED <<gens, link>>,
             \A a \in Loader : load'[a].pc = "listing" => load'[a].todo = {},
             \A a \in Loader : load'[a].pc = "fetching" => load'[a] = load[a]
      PROVE  WholeInv'
  BY <1>1, WholeStays
<1>0. \A a \in Loader : load[a].pc = "listing" => load[a].todo = {}
  BY DEF WholeInv, At
<1>2. ASSUME NEW s \in Source, NEW f \in File, Upload(s, f) \/ Remove(s, f)
      PROVE  WholeInv'
  BY <1>0, <1>1, <1>2 DEF Upload, Remove, disk
<1>3. ASSUME NEW a \in Loader, LoaderStep(a)
      PROVE  WholeInv'
  <2>1. CASE Reject(a)
    BY <2>1, WholeDiscardStep DEF Reject, Fetched, At, Loading
  <2>2. ASSUME NEW answered \in BOOLEAN, FetchFails(a, answered)
        PROVE  WholeInv'
    BY <2>2, WholeDiscardStep DEF FetchFails
  <2> QED
    BY <1>3, <2>1, <2>2, WholeListStep, WholeGetStep, WholeActivateStep DEF LoaderStep
<1>4. ASSUME NEW a \in Loader, Begin(a), UNCHANGED <<gens, link>>
      PROVE  WholeInv'
  <2>1. load' = [load EXCEPT ![a] = [NoLoad EXCEPT !.pc = "listing", !.gen = NewName]]
    BY <1>4 DEF Begin
  <2>2. [NoLoad EXCEPT !.pc = "listing", !.gen = NewName].pc = "listing"
    BY DEF NoLoad
  <2>3. \A b \in Loader : load'[b].pc = "fetching" => load'[b] = load[b]
    BY <2>1, <2>2, WholeKinds
  <2>4. \A b \in Loader : load'[b].pc = "listing" => load'[b].todo = {}
    BY <2>1, WholeKinds DEF WholeInv, At, NoLoad
  <2> QED
    BY <1>1, <1>4, <2>3, <2>4
<1>5. CASE StartBoot \/ Tick
  BY <1>4, <1>5 DEF StartBoot, Tick, Loader
<1>6. CASE Open \/ Reload
  <2>1. CASE LoadsSpared
    BY <1>6, <2>1, WholePruneStep DEF LoadsSpared, Open, Reload
  <2>2. CASE UNCHANGED vars
    BY <1>0, <1>1, <2>2 DEF vars, disk
  <2> QED
    BY <2>1, <2>2
<1>7. CASE Settle \/ Seed \/ StartBuild \/ FinishBuild \/ Rollback \/ StartSync \/ CallTimesOut
  BY <1>0, <1>1, <1>7 DEF Settle, Seed, StartBuild, FinishBuild, Rollback, StartSync, CallTimesOut, disk
<1>8. CASE Crash \/ Restart \/ GiveUp
  <2>1. UNCHANGED <<gens, link>> /\ \A a \in Loader : load'[a] \in {load[a], NoLoad}
    BY <1>8, WholeKinds DEF Crash, Restart, GiveUp, NodeStops, Stopped
  <2> QED
    BY <1>0, <1>1, <2>1, WholeKinds
<1>9. CASE UNCHANGED vars
  BY <1>0, <1>1, <1>9 DEF vars, disk
<1> QED
  BY <1>2, <1>3, <1>5, <1>6, <1>7, <1>8, <1>9 DEF Next

\* The current generation holds every file of one listing as long as no prune
\* deletes what a load is writing ("a fetch may be writing one", prune), with
\* any number of loads, changes, failures and crashes.
THEOREM WholeIfSpared == Spec /\ [][LoadsSpared]_vars => []CurrentWhole
<1>1. Init => WholeInv
  BY DEF Init, WholeInv, At, NoLoad
<1>2. IInv /\ WholeInv => CurrentWhole
  BY DEF IInv, WholeInv, CurrentWhole
<1>3. IInv /\ WholeInv /\ [Next]_vars /\ [LoadsSpared]_vars => WholeInv'
  BY WholeNext
<1> QED
  BY <1>1, <1>2, <1>3, Invariant, PTL DEF Spec

------------------------------------------------------------------------------
(* One crash spares the loads                                              *)

LEMMA AgeKinds ==
  ASSUME IInv
  PROVE  /\ load \in [Loader -> Loads] /\ sync \in Syncs /\ dirs \subseteq GenId /\ older \subseteq GenId \X GenId
         /\ faults \in [Fault -> 0 .. MaxOfAKind] /\ "crash" \in Fault
         /\ NoLoad.pc = "idle" /\ NoLoad.gen = None /\ None \notin GenId
         /\ Named \subseteq GenId /\ "boot" \in Loader /\ "sync" \in Loader
         /\ \A a \in Loader : ~Loading(a) => Target(a) = None
  BY ConfigAssumption
  DEF IInv, TypeInv, TypeOK, Sane, Loads, Syncs, Fault, NoLoad, Named, Loader, Loading, At, Target

\* Steps that name nothing new: of what is named after the load, at most what
\* no longer is is forgotten.
LEMMA AgeStays ==
  ASSUME IInv, AgeInv, older' \subseteq older, older' \subseteq Named' \X Named',
         Loading("boot")' => Loading("boot") /\ UNCHANGED runtime,
         Loading("sync")' => Loading("sync") /\ Target("sync")' = Target("sync"),
         Loading("sync") /\ runtime' = "loading" => runtime' = runtime /\ Target("boot")' = Target("boot"),
         Loading("sync") /\ runtime' \in {"down", "failed"} => (runtime' = runtime \/ Newer' = {}),
         Loading("sync")' => sync'.pc = sync.pc,
         sync'.pc # "off" /\ faults'["crash"] = 0 => runtime' = "up",
         faults'["crash"] = 0 => faults["crash"] = 0
  PROVE  AgeInv'
<1>1. ASSUME Loading("sync")'
      PROVE  Newer' \subseteq Newer
  BY <1>1 DEF Newer
<1>2. Loading("boot")' => runtime' = "loading"
  BY DEF AgeInv
<1>3. ASSUME Loading("sync")'
      PROVE  /\ sync'.pc = "loading" /\ \A g, h \in Newer' : g = h
             /\ faults'["crash"] = 0 \/ runtime' \in {"down", "failed"} => Newer' = {}
             /\ runtime' = "loading" => Newer' \subseteq {Target("boot")'}
  BY <1>1, <1>3 DEF AgeInv, Target
<1> QED
  BY <1>2, <1>3 DEF AgeInv

\* The names in use stay while a load goes on, and when its directory stays.
LEMMA AgeFetchStep ==
  ASSUME IInv, AgeInv, NEW a \in Loader, List(a) \/ (\E f \in File : Get(a, f))
  PROVE  AgeInv'
<1>1. Loading(a)
  BY DEF List, Get, Loading, At, IInv, TypeInv, TypeOK, Sane, NoLoad
<1>2. older' = older /\ UNCHANGED <<serving, sync, faults>>
  BY DEF List, Get
<1>3. \A b \in Loader : load'[b].gen = load[b].gen /\ (load'[b].pc = "idle" <=> load[b].pc = "idle")
  BY <1>1, AgeKinds DEF List, Get, Loading, At, Loads
<1>4. Named' = Named
  <2>1. dirs' = dirs \ {Target(a)} \/ dirs' = dirs \cup {Target(a)}
    BY DEF List, Get
  <2>2. Target(a) \in {load[b].gen : b \in Loader} \ {None}
    BY <1>1, OwnTarget DEF Target
  <2>3. {load'[b].gen : b \in Loader} = {load[b].gen : b \in Loader}
    BY <1>3
  <2> QED
    BY <2>1, <2>2, <2>3 DEF Named
<1>5. \A b \in Loader : (Loading(b)' <=> Loading(b)) /\ Target(b)' = Target(b)
  BY <1>3 DEF Loading, At, Target
<1> QED
  BY <1>2, <1>4, <1>5, AgeStays, AgeKinds DEF AgeInv, serving

\* A load that ends: its name goes, or is that of a directory.
LEMMA AgeEndStep ==
  ASSUME IInv, AgeInv, NEW a \in Loader, Loading(a), load' = [load EXCEPT ![a] = NoLoad],
         \/ Discard(a)
         \/ Target(a) \in dirs /\ UNCHANGED <<dirs, older>> /\ (a = "boot" => runtime' = "seeding"),
         \/ a = "sync" /\ runtime' = runtime
         \/ a = "boot" /\ runtime' \in {"failed", "seeding"}
            /\ (sync' = sync \/ sync.pc = "waiting"),
         UNCHANGED faults
  PROVE  AgeInv'
<1>1. \A b \in Loader : load'[b] = IF b = a THEN NoLoad ELSE load[b]
  BY AgeKinds
<1>2. /\ \A b \in Loader : b # a => (Loading(b)' <=> Loading(b)) /\ Target(b)' = Target(b)
      /\ ~Loading(a)' /\ Target(a)' = None
  BY <1>1, AgeKinds DEF Loading, At, Target
<1>3. older' \subseteq older /\ older' \subseteq Named' \X Named'
  <2>1. CASE Discard(a)
    <3>1. Named \ {Target(a)} \subseteq Named'
      BY <1>1, <2>1 DEF Discard, Named, Target
    <3>2. older' \subseteq older /\ older' \subseteq (Named \ {Target(a)}) \X (Named \ {Target(a)})
      BY <2>1, AgeKinds DEF Discard, Among, AgeInv
    <3> QED
      BY <3>1, <3>2
  <2>2. CASE Target(a) \in dirs /\ UNCHANGED <<dirs, older>>
    <3>1. Named \subseteq Named'
      BY <1>1, <2>2 DEF Named, Target
    <3> QED
      BY <2>2, <3>1 DEF AgeInv
  <2> QED
    BY <2>1, <2>2
<1>4. CASE a = "sync"
  BY <1>2, <1>3, <1>4, AgeStays, AgeKinds DEF AgeInv
<1>5. CASE a = "boot"
  <2>1. runtime = "loading" /\ runtime' \in {"failed", "seeding"}
        /\ (runtime' = "failed" => Discard(a)) /\ (Loading("sync")' => sync'.pc = sync.pc)
    BY <1>2, <1>5, AgeKinds DEF AgeInv
  <2>2. ASSUME Loading("sync"), Discard(a)
        PROVE  Newer' = {}
    <3>1. Newer \subseteq {Target("boot")}
      BY <1>5, <2>2 DEF AgeInv
    <3>2. Target("boot") \notin Newer'
      BY <1>2, <1>5, <2>2 DEF Discard, Among, Newer
    <3>3. Newer' \subseteq Newer
      BY <1>2, <1>3, <1>5, AgeKinds DEF Newer
    <3> QED
      BY <3>1, <3>2, <3>3
  <2> QED
    BY <1>2, <1>3, <1>5, <2>1, <2>2, AgeStays, AgeKinds DEF AgeInv
<1> QED
  BY <1>4, <1>5 DEF Loader

LEMMA AgeLoaderStep ==
  ASSUME IInv, AgeInv, NEW a \in Loader, LoaderStep(a)
  PROVE  AgeInv'
<1>1. CASE Reject(a)
  <2>1. Loading(a) /\ Discard(a) /\ UNCHANGED faults
    BY <1>1 DEF Reject, Fetched, At, Loading
  <2>3. Refused(a)
    BY <1>1 DEF Reject
  <2>2. load' = [load EXCEPT ![a] = NoLoad]
    BY <2>1 DEF Discard
  <2>4. \/ a = "sync" /\ runtime' = runtime
        \/ a = "boot" /\ runtime' \in {"failed", "seeding"} /\ (sync' = sync \/ sync.pc = "waiting")
    BY <2>3 DEF Refused, HungUp, Loader
  <2> QED
    BY <2>1, <2>2, <2>4, AgeEndStep
<1>2. ASSUME NEW answered \in BOOLEAN, FetchFails(a, answered)
      PROVE  AgeInv'
  <2>1. Loading(a) /\ Discard(a) /\ UNCHANGED faults
    BY <1>2 DEF FetchFails
  <2>3. Refused(a) \/ (a = "boot" /\ runtime' = "seeding" /\ sync' = sync)
    <3>1. CASE ~Refused(a)
      BY <1>2, <3>1 DEF FetchFails
    <3> QED
      BY <3>1
  <2>2. load' = [load EXCEPT ![a] = NoLoad]
    BY <2>1 DEF Discard
  <2>4. \/ a = "sync" /\ runtime' = runtime
        \/ a = "boot" /\ runtime' \in {"failed", "seeding"} /\ (sync' = sync \/ sync.pc = "waiting")
    BY <2>3 DEF Refused, HungUp, Loader
  <2> QED
    BY <2>1, <2>2, <2>4, AgeEndStep
<1>3. CASE Activate(a)
  <2>1. Loading(a) /\ UNCHANGED <<dirs, older, faults>> /\ load' = [load EXCEPT ![a] = NoLoad]
        /\ (a = "boot" => runtime' = "seeding" /\ sync' = sync) /\ (a = "sync" => runtime' = runtime)
    BY <1>3 DEF Activate, Fetched, At, Loading
  <2>2. Target(a) \in dirs
    BY <1>3, <2>1, OwnTarget, ConfigAssumption DEF Activate, Validates, IInv, WrittenInv
  <2> QED
    BY <2>1, <2>2, AgeEndStep DEF Loader
<1> QED
  BY <1>1, <1>2, <1>3, AgeFetchStep DEF LoaderStep

\* A load that begins: nothing is named after it yet, and only a boot's is
\* named after sync's.
LEMMA AgeBeginStep ==
  ASSUME IInv, AgeInv, StartBoot \/ Tick
  PROVE  AgeInv'
<1>1. PICK a \in Loader :
        /\ Begin(a) /\ UNCHANGED dirs
        /\ \/ /\ a = "boot" /\ runtime \in {"down", "failed"} /\ runtime' = "loading"
              /\ UNCHANGED sync /\ (faults'["crash"] = 0 => faults["crash"] = 0)
           \/ /\ a = "sync" /\ sync.pc = "idle" /\ runtime \notin {"down", "failed"}
              /\ UNCHANGED <<runtime, faults>> /\ sync'.pc = "loading"
  <2>1. CASE StartBoot
    <3>1. faults'["crash"] = 0 => faults["crash"] = 0
      BY <2>1, AgeKinds, HappensTypes DEF StartBoot, Fault
    <3> QED
      BY <2>1, <3>1, AgeKinds DEF StartBoot
  <2>2. CASE Tick
    <3>1. sync'.pc = "loading"
      BY <2>2, AgeKinds DEF Tick, Syncs
    <3> QED
      BY <2>2, <3>1, AgeKinds DEF Tick, Alive, serving
  <2> QED
    BY <2>1, <2>2
<1>2. NewName \in GenId /\ NewName \notin Named
  BY <1>1, FreshName DEF Begin, Mentioned
<1>3. PICK name \in GenId : name = NewName
  BY <1>2
<1>4. /\ name \notin Named /\ older' = older \cup (Named \X {name})
      /\ load' = [load EXCEPT ![a] = [NoLoad EXCEPT !.pc = "listing", !.gen = name]]
  BY <1>1, <1>2, <1>3 DEF Begin
<1>5. /\ load'[a].pc = "listing" /\ load'[a].gen = name
      /\ \A b \in Loader : b # a => load'[b] = load[b]
  <2>1. [NoLoad EXCEPT !.pc = "listing", !.gen = name].pc = "listing"
        /\ [NoLoad EXCEPT !.pc = "listing", !.gen = name].gen = name
    BY DEF NoLoad
  <2> QED
    BY <1>4, <2>1, AgeKinds
<1>6. /\ Loading(a)' /\ Target(a)' = name
      /\ \A b \in Loader : b # a => (Loading(b)' <=> Loading(b)) /\ Target(b)' = Target(b)
  BY <1>5 DEF Loading, At, Target
<1>7. older' \subseteq Named' \X Named'
  <2>1. load[a].gen = None
    BY <1>1, AgeKinds DEF AgeInv, Target
  <2>2. name # None
    BY ConfigAssumption
  <2>3. Named \cup {name} \subseteq Named'
    BY <1>1, <1>5, <2>1, <2>2, AgeKinds DEF Named
  <2> QED
    BY <1>4, <2>3 DEF AgeInv
<1>8. CASE a = "boot"
  <2>1. ASSUME Loading("sync")
        PROVE  Newer' \subseteq Newer \cup {name} /\ Newer = {}
    BY <1>1, <1>4, <1>6, <1>8, <2>1, AgeKinds DEF Newer, AgeInv
  <2> QED
    BY <1>1, <1>6, <1>7, <1>8, <2>1, AgeKinds DEF AgeInv
<1>9. CASE a = "sync"
  <2>1. Newer' = {}
    BY <1>4, <1>6, <1>9 DEF Newer, AgeInv
  <2> QED
    BY <1>1, <1>6, <1>7, <1>9, <2>1, AgeKinds DEF AgeInv
<1> QED
  BY <1>8, <1>9 DEF Loader

\* Steps that name nothing and forget nothing.
LEMMA AgeIdle ==
  ASSUME IInv, AgeInv, dirs' = dirs, older' = older, load' = load,
         \/ sync' = sync
         \/ sync.pc = "off" /\ runtime = "up"
         \/ sync.pc = "waiting" /\ sync'.pc = "idle",
         \/ runtime' = runtime
         \/ runtime \in {"seeding", "warming"} /\ runtime' \in {"warming", "up"},
         faults'["crash"] = faults["crash"]
  PROVE  AgeInv'
<1>1. Named' = Named /\ \A a \in Loader : (Loading(a)' <=> Loading(a)) /\ Target(a)' = Target(a)
  BY DEF Named, Loading, At, Target
<1> QED
  BY <1>1, AgeStays, AgeKinds DEF AgeInv

LEMMA AgeNext == MaxOfAKind <= 1 /\ IInv /\ AgeInv /\ [Next]_vars => AgeInv'
<1> SUFFICES ASSUME MaxOfAKind <= 1, IInv, AgeInv, [Next]_vars PROVE AgeInv'
  OBVIOUS
<1>2. ASSUME NEW s \in Source, NEW f \in File, Upload(s, f) \/ Remove(s, f)
      PROVE  AgeInv'
  BY <1>2, AgeIdle DEF Upload, Remove, disk, serving
<1>3. ASSUME NEW a \in Loader, LoaderStep(a)
      PROVE  AgeInv'
  BY <1>3, AgeLoaderStep
<1>4. CASE Settle \/ Seed \/ StartBuild \/ FinishBuild \/ Rollback
  BY <1>4, AgeIdle DEF Settle, Seed, StartBuild, FinishBuild, Rollback, disk, serving
<1>5. CASE StartSync \/ CallTimesOut
  <2>1. CASE StartSync
    BY <2>1, AgeIdle DEF StartSync, disk, serving
  <2>2. CASE CallTimesOut
    <3>1. sync'.pc = "idle" /\ faults'["crash"] = faults["crash"]
      BY <2>2, AgeKinds DEF CallTimesOut, Happens, Syncs, Fault
    <3> QED
      BY <2>2, <3>1, AgeIdle DEF CallTimesOut, disk, serving
  <2> QED
    BY <1>5, <2>1, <2>2
<1>6. CASE StartBoot \/ Tick
  BY <1>6, AgeBeginStep
<1>7. CASE Open \/ Reload
  <2>1. /\ runtime \in {"warming", "up"} /\ runtime' = "up" /\ UNCHANGED <<load, faults>>
        /\ \/ sync' = sync
           \/ sync.pc = "waiting"
    BY <1>7 DEF Open, Reload
  <2>2. older' \subseteq older /\ older' \subseteq Named' \X Named'
    <3>1. PICK used : Prune(used)
      BY <1>7 DEF Open, Reload
    <3>2. /\ dirs' = Spared(used)
          /\ older' = Among(Spared(used) \cup {load[a].gen : a \in Loader})
      BY <3>1 DEF Prune
    <3>3. older' \subseteq (dirs' \cup {load[a].gen : a \in Loader}) \X
                          (dirs' \cup {load[a].gen : a \in Loader})
          /\ older' \subseteq older
      BY <3>2, AgeKinds DEF Among
    <3>4. None \notin GenId /\ older' \subseteq GenId \X GenId
      BY <3>3, AgeKinds
    <3> QED
      BY <2>1, <3>3, <3>4 DEF Named
  <2>3. \A a \in Loader : (Loading(a)' <=> Loading(a)) /\ Target(a)' = Target(a)
    BY <2>1 DEF Loading, At, Target
  <2> QED
    BY <2>1, <2>2, <2>3, AgeStays, AgeKinds DEF AgeInv
<1>8. CASE Crash
  <2>0. faults["crash"] = 0 /\ faults'["crash"] = 1
    BY <1>8, AgeKinds, ConfigAssumption DEF Crash, Happens
  <2>1. /\ runtime' = "down" /\ UNCHANGED dirs
        /\ load' = [load EXCEPT !["boot"] = NoLoad] /\ older' = Among(dirs \cup {load["sync"].gen})
    BY <1>8 DEF Crash, Stopped
  <2>2. /\ ~Loading("boot")' /\ (Loading("sync")' <=> Loading("sync"))
        /\ Target("sync")' = Target("sync") /\ load'["sync"] = load["sync"]
    BY <2>1, AgeKinds DEF Loading, At, Target
  <2>3. older' \subseteq older /\ older' \subseteq Named' \X Named'
    <3>1. older' \subseteq (dirs \cup {load["sync"].gen}) \X (dirs \cup {load["sync"].gen})
          /\ older' \subseteq GenId \X GenId /\ older' \subseteq older
      BY <2>1, AgeKinds DEF Among
    <3> QED
      BY <2>1, <2>2, <3>1, AgeKinds DEF Named
  <2>4. Loading("sync") => Newer' = {}
    BY <2>0, <2>2, <2>3 DEF AgeInv, Newer
  <2>5. Loading("sync") => sync'.pc = sync.pc
    BY <1>8 DEF Crash, HungUp, AgeInv
  <2> QED
    <3>1. older' \subseteq older /\ older' \subseteq Named' \X Named'
      BY <2>3
    <3>2. Loading("boot")' => Loading("boot") /\ UNCHANGED runtime
      BY <2>2
    <3>3. Loading("sync")' => Loading("sync") /\ Target("sync")' = Target("sync")
      BY <2>2
    <3>4. Loading("sync") /\ runtime' = "loading" => runtime' = runtime /\ Target("boot")' = Target("boot")
      BY <2>1
    <3>5. Loading("sync") /\ runtime' \in {"down", "failed"} => (runtime' = runtime \/ Newer' = {})
      BY <2>4
    <3>6. Loading("sync")' => sync'.pc = sync.pc
      BY <2>2, <2>5
    <3>7. sync'.pc # "off" /\ faults'["crash"] = 0 => runtime' = "up"
      BY <2>0
    <3>8. faults'["crash"] = 0 => faults["crash"] = 0
      BY <2>0
    <3> QED
      BY <3>1, <3>2, <3>3, <3>4, <3>5, <3>6, <3>7, <3>8, AgeStays
<1>9. CASE Restart \/ GiveUp
  <2>1. NodeStops
    BY <1>9 DEF Restart, GiveUp
  <2>2. \A a \in Loader : ~Loading(a)'
    BY <2>1, AgeKinds DEF NodeStops, Loading, At
  <2>3. sync'.pc = "off" /\ older' \subseteq Named' \X Named'
    BY <2>1 DEF NodeStops, NoSync, Stopped, Among, Named, AgeInv
  <2> QED
    BY <2>2, <2>3, AgeKinds DEF AgeInv
<1>10. CASE UNCHANGED vars
  BY <1>10, AgeIdle DEF vars, disk, serving
<1> QED
  BY <1>2, <1>3, <1>4, <1>5, <1>6, <1>7, <1>8, <1>9, <1>10 DEF Next

\* With one crash at most, only the boot after it is newer than what sync
\* writes to, so that it is among the newest two.
LEMMA OneCrashSpares == IInv /\ AgeInv => LoadsSpared
<1> SUFFICES ASSUME IInv, AgeInv, Open \/ Reload, NEW a \in Loader, Target(a) \in dirs
             PROVE  Target(a) \in dirs'
  BY DEF LoadsSpared
<1>1. Target(a) # None /\ runtime # "loading"
  BY AgeKinds DEF Open, Reload
<1>2. a = "sync" /\ Loading("sync")
  BY <1>1, AgeKinds DEF AgeInv, Loader
<1> DEFINE after == {h \in dirs : <<Target(a), h>> \in older}
<1>3. after \subseteq Newer /\ \A g, h \in Newer : g = h
  BY <1>2, AgeKinds DEF AgeInv, Newer
<1> HIDE DEF after
<1>4. Cardinality(after) < 2
  <2>1. CASE after = {}
    BY <2>1, FS_EmptySet
  <2>2. ASSUME NEW g \in after
        PROVE  Cardinality(after) < 2
    <3>1. after = {g}
      BY <1>3, <2>2
    <3>2. Cardinality({g}) = 1
      BY FS_Singleton
    <3> QED
      BY <3>1, <3>2
  <2> QED
    BY <2>1, <2>2
<1>5. Target(a) \in NewestTwo
  BY <1>4 DEF NewestTwo, after
<1> QED
  BY <1>5 DEF Open, Reload, Prune, Spared

\* So the current generation is always whole when no kind of fault happens
\* twice: it takes two crashes of the runtime in one fetch of sync's, and the
\* boots after them, to have a prune delete what the fetch has written.
THEOREM WholeWithOneCrash == MaxOfAKind <= 1 /\ Spec => []CurrentWhole
<1>1. Init => AgeInv
  BY DEF Init, AgeInv, Loading, At, NoLoad, NoSync, Loader
<1>2. MaxOfAKind <= 1 /\ IInv /\ AgeInv /\ [Next]_vars => AgeInv'
  BY AgeNext
<1>3. IInv /\ AgeInv => LoadsSpared
  BY OneCrashSpares
<1>4. ASSUME MaxOfAKind <= 1
      PROVE  Spec => []CurrentWhole
  <2>1. IInv /\ AgeInv /\ [Next]_vars => AgeInv'
    BY <1>2, <1>4
  <2> QED
    BY <1>1, <1>3, <2>1, Invariant, WholeIfSpared, PTL DEF Spec
<1> QED
  BY <1>4

------------------------------------------------------------------------------
(* A bucket that is called unchanged is served: what was fetched from it    *)

LEMMA FreshStays ==
  ASSUME IInv, FreshInv, UNCHANGED <<bucket, link>>, link # None => gens'[link] = gens[link],
         \A a \in Loader : load'[a].pc = "fetching" =>
           /\ config' = config /\ load'[a] = load[a]
           /\ \A f \in File : gens'[Target(a)].tree[f] \in {gens[Target(a)].tree[f], 0}
  PROVE  FreshInv'
<1>1. link' # None =>
        /\ gens'[link'].source \in Source
        /\ gens'[link'].listed = bucket'[gens'[link'].source]
             => Same(gens'[link'].tree, gens'[link'].listed)
  BY DEF FreshInv
<1>2. ASSUME NEW a \in Loader, load'[a].pc = "fetching", load'[a].items = Digest'
      PROVE  \A f \in File : gens'[load'[a].gen].tree[f] # 0 => gens'[load'[a].gen].tree[f] = Digest'[f]
  <2>1. At(a, "fetching") /\ load[a].items = Digest /\ Digest' = Digest /\ load'[a].gen = Target(a)
    BY <1>2 DEF At, Digest, Target
  <2>2. Same(gens[Target(a)].tree, Digest)
    BY <2>1 DEF FreshInv
  <2>3. \A f \in File : gens'[Target(a)].tree[f] \in {gens[Target(a)].tree[f], 0}
    BY <1>2
  <2> QED
    BY <2>1, <2>2, <2>3 DEF Same
<1> QED
  BY <1>1, <1>2 DEF FreshInv, Same, At, Target, Digest

LEMMA FreshBucketStep ==
  ASSUME IInv, FreshInv, NeverBack, UNCHANGED <<config, link, gens, load>>
  PROVE  FreshInv'
<1>0. config \in Source
  BY DEF IInv, TypeInv, TypeOK
<1>1. ASSUME link # None, gens[link].listed = bucket'[gens[link].source]
      PROVE  Same(gens[link].tree, gens[link].listed)
  <2>1. gens[link].source \in Source
    BY <1>1 DEF FreshInv
  <2>2. gens[link].listed \in Compared(gens[link].source)
    BY <1>1 DEF Compared
  <2>3. bucket'[gens[link].source] = bucket[gens[link].source]
    BY <1>1, <2>1, <2>2 DEF NeverBack
  <2> QED
    BY <1>1, <2>3 DEF FreshInv
<1>2. ASSUME NEW a \in Loader, At(a, "fetching"), load[a].items = Digest'
      PROVE  Same(gens[Target(a)].tree, Digest')
  <2>1. load[a].items \in Compared(config)
    BY <1>2 DEF Compared
  <2>2. Digest' = Digest
    BY <1>0, <1>2, <2>1 DEF NeverBack, Digest
  <2> QED
    BY <1>2, <2>2 DEF FreshInv
<1> QED
  BY <1>1, <1>2 DEF FreshInv, At, Target, Same, Digest

\* A step of one load.
LEMMA FreshFetch ==
  ASSUME FreshInv, UNCHANGED <<bucket, config, link>>, link # None => gens'[link] = gens[link],
         \A b \in Loader : load'[b].pc = "fetching" /\ load'[b].items = Digest
                            => Same(gens'[load'[b].gen].tree, Digest)
  PROVE  FreshInv'
<1>1. link' # None =>
        /\ gens'[link'].source \in Source
        /\ gens'[link'].listed = bucket'[gens'[link'].source]
             => Same(gens'[link'].tree, gens'[link'].listed)
  BY DEF FreshInv
<1> QED
  BY <1>1 DEF FreshInv, At, Target, Same, Digest

LEMMA FreshListStep ==
  ASSUME IInv, FreshInv, NEW a \in Loader, List(a)
  PROVE  FreshInv'
<1>1. Loading(a)
  BY DEF List, At, Loading
<1>2. /\ UNCHANGED <<bucket, config, link>> /\ gens' = [gens EXCEPT ![Target(a)] = NoGen]
      /\ load' = [load EXCEPT ![a].pc = "fetching", ![a].items = Digest,
                              ![a].todo = {f \in File : Digest[f] # 0}]
  BY DEF List
<1>3. link # None => gens'[link] = gens[link]
  BY <1>1, <1>2, OwnTarget, WholeKinds
<1>4. ASSUME NEW b \in Loader, load'[b].pc = "fetching", load'[b].items = Digest
      PROVE  Same(gens'[load'[b].gen].tree, Digest)
  <2>1. CASE b = a
    <3>1. load'[a].gen = Target(a)
      BY <1>2, WholeKinds DEF Loads, Target
    <3>2. gens'[Target(a)].tree = NoFiles
      BY <1>1, <1>2, OwnTarget, WholeKinds
    <3> QED
      BY <2>1, <3>1, <3>2 DEF Same, NoFiles
  <2>2. CASE b # a
    <3>1. load'[b] = load[b] /\ At(b, "fetching")
      BY <1>2, <1>4, <2>2, WholeKinds DEF At
    <3>2. gens'[load[b].gen] = gens[load[b].gen]
      BY <1>1, <1>2, <2>2, <3>1, OwnTarget, WholeKinds DEF Loading, At, Target
    <3> QED
      BY <1>4, <3>1, <3>2 DEF FreshInv, Target
  <2> QED
    BY <2>1, <2>2
<1> QED
  BY <1>2, <1>3, <1>4, FreshFetch

LEMMA FreshGetStep ==
  ASSUME IInv, WholeInv, FreshInv, NEW a \in Loader, NEW f \in File, Get(a, f)
  PROVE  FreshInv'
<1>1. Loading(a) /\ At(a, "fetching")
  <2>1. load[a].pc \in {"idle", "listing", "fetching"} /\ load[a].todo # {}
    BY WholeKinds DEF Get, Loads
  <2>2. load[a].pc # "idle"
    BY <2>1 DEF IInv, TypeInv, Sane, NoLoad
  <2> QED
    BY <2>1, <2>2 DEF WholeInv, Loading, At
<1>2. /\ UNCHANGED <<bucket, config, link>>
      /\ gens' = [gens EXCEPT ![Target(a)].tree[f] = Digest[f]]
      /\ load' = [load EXCEPT ![a].todo = @ \ {f}]
  BY DEF Get
<1>3. link # None => gens'[link] = gens[link]
  BY <1>1, <1>2, OwnTarget, WholeKinds
<1>4. ASSUME NEW b \in Loader, load'[b].pc = "fetching", load'[b].items = Digest
      PROVE  Same(gens'[load'[b].gen].tree, Digest)
  <2>1. CASE b = a
    <3>1. load'[a].items = load[a].items /\ load'[a].gen = Target(a)
      BY <1>2, WholeKinds DEF Loads, Target
    <3>2. gens'[Target(a)].tree = [gens[Target(a)].tree EXCEPT ![f] = Digest[f]]
      BY <1>1, <1>2, OwnTarget, WholeKinds
    <3>3. gens[Target(a)].tree \in Tree
      BY <1>1, OwnTarget, WholeKinds DEF Generations
    <3>4. Same(gens[Target(a)].tree, Digest)
      BY <1>1, <1>4, <2>1, <3>1 DEF FreshInv
    <3> QED
      BY <2>1, <3>1, <3>2, <3>3, <3>4 DEF Same, Tree
  <2>2. CASE b # a
    <3>1. load'[b] = load[b] /\ At(b, "fetching")
      BY <1>2, <1>4, <2>2, WholeKinds DEF At
    <3>2. gens'[load[b].gen] = gens[load[b].gen]
      BY <1>1, <1>2, <2>2, <3>1, OwnTarget, WholeKinds DEF Loading, At, Target
    <3> QED
      BY <1>4, <3>1, <3>2 DEF FreshInv, Target
  <2> QED
    BY <2>1, <2>2
<1> QED
  BY <1>2, <1>3, <1>4, FreshFetch

LEMMA FreshActivateStep ==
  ASSUME IInv, FreshInv, NEW a \in Loader, Activate(a)
  PROVE  FreshInv'
<1>1. Loading(a) /\ At(a, "fetching")
  BY DEF Activate, Fetched, At, Loading
<1>2. UNCHANGED <<bucket, config>> /\ link' = Target(a) /\ load' = [load EXCEPT ![a] = NoLoad]
  BY DEF Activate
<1>3. \A g \in GenId :
        gens'[g] = IF g = link THEN NoGen
                   ELSE IF g = Target(a) THEN [tree |-> gens[g].tree, listed |-> load[a].items,
                                               source |-> config]
                   ELSE gens[g]
  BY DEF Activate
<1>4. /\ gens'[Target(a)].tree = gens[Target(a)].tree
      /\ gens'[Target(a)].listed = load[a].items
      /\ gens'[Target(a)].source = config
  <2>1. gens'[Target(a)] = [tree |-> gens[Target(a)].tree, listed |-> load[a].items,
                            source |-> config]
    BY <1>1, <1>3, OwnTarget
  <2> QED
    BY <2>1
<1>5. load[a].items = Digest => Same(gens[Target(a)].tree, Digest)
  BY <1>1 DEF FreshInv
<1>6. config \in Source
  BY DEF IInv, TypeInv, TypeOK
<1>7. ASSUME NEW b \in Loader, load'[b].pc = "fetching", load'[b].items = Digest
      PROVE  Same(gens'[load'[b].gen].tree, Digest)
  <2>1. b # a /\ load'[b] = load[b] /\ At(b, "fetching") /\ Loading(b)
    BY <1>2, <1>7, WholeKinds DEF At, Loading
  <2>2. Target(b) \in GenId /\ Target(b) # link /\ Target(b) # Target(a)
    BY <1>1, <2>1, OwnTarget
  <2>3. gens'[Target(b)] = gens[Target(b)]
    BY <1>3, <2>2
  <2> QED
    BY <1>7, <2>1, <2>3 DEF FreshInv, Target
<1> QED
  BY <1>2, <1>4, <1>5, <1>6, <1>7 DEF FreshInv, At, Target, Same, Digest

LEMMA FreshDiscardStep ==
  ASSUME IInv, FreshInv, NEW a \in Loader, Loading(a), Discard(a), UNCHANGED <<bucket, config>>
  PROVE  FreshInv'
<1>1. link' = link /\ load' = [load EXCEPT ![a] = NoLoad] /\ gens' = [gens EXCEPT ![Target(a)] = NoGen]
  BY DEF Discard
<1>2. link # None => gens'[link] = gens[link]
  BY <1>1, OwnTarget, WholeKinds
<1>3. ASSUME NEW b \in Loader, load'[b].pc = "fetching"
      PROVE  load'[b] = load[b] /\ gens'[Target(b)] = gens[Target(b)]
  <2>1. b # a /\ load'[b] = load[b] /\ Loading(b)
    BY <1>1, <1>3, WholeKinds DEF Loading, At
  <2> QED
    BY <1>1, <2>1, OwnTarget, WholeKinds
<1> QED
  BY <1>1, <1>2, <1>3, FreshStays

LEMMA FreshPruneStep ==
  ASSUME IInv, FreshInv, NEW used, Prune(used), UNCHANGED <<bucket, config, load>>
  PROVE  FreshInv'
<1>1. link' = link /\ \A g \in GenId : gens'[g] = IF g \in dirs \ dirs' THEN NoGen ELSE gens[g]
  BY DEF Prune
<1>2. link # None => gens'[link] = gens[link]
  <2>1. link # None => link \in dirs'
    BY PruneStep
  <2> QED
    BY <1>1, <2>1, WholeKinds
<1>3. ASSUME NEW b \in Loader, load'[b].pc = "fetching"
      PROVE  \A f \in File : gens'[Target(b)].tree[f] \in {gens[Target(b)].tree[f], 0}
  <2>1. Target(b) \in GenId
    BY <1>3, OwnTarget DEF Loading, At
  <2>2. gens'[Target(b)] \in {NoGen, gens[Target(b)]}
    BY <1>1, <2>1
  <2> QED
    BY <2>2, WholeKinds DEF NoFiles
<1> QED
  BY <1>1, <1>2, <1>3, FreshStays

LEMMA FreshNext == IInv /\ WholeInv /\ FreshInv /\ NeverBack /\ [Next]_vars => FreshInv'
<1> SUFFICES ASSUME IInv, WholeInv, FreshInv, NeverBack, [Next]_vars PROVE FreshInv'
  OBVIOUS
<1>1. ASSUME UNCHANGED <<bucket, gens, link>>,
             \A a \in Loader : load'[a].pc = "fetching" => config' = config /\ load'[a] = load[a]
      PROVE  FreshInv'
  BY <1>1, FreshStays
<1>2. ASSUME NEW s \in Source, NEW f \in File, Upload(s, f) \/ Remove(s, f)
      PROVE  FreshInv'
  BY <1>2, FreshBucketStep DEF Upload, Remove, disk
<1>3. ASSUME NEW a \in Loader, LoaderStep(a)
      PROVE  FreshInv'
  <2>1. CASE Reject(a)
    BY <2>1, FreshDiscardStep DEF Reject, Fetched, At, Loading
  <2>2. ASSUME NEW answered \in BOOLEAN, FetchFails(a, answered)
        PROVE  FreshInv'
    BY <2>2, FreshDiscardStep DEF FetchFails
  <2> QED
    BY <1>3, <2>1, <2>2, FreshListStep, FreshGetStep, FreshActivateStep DEF LoaderStep
<1>4. ASSUME NEW a \in Loader, Begin(a), UNCHANGED <<bucket, config, gens, link>>
      PROVE  FreshInv'
  <2>1. load' = [load EXCEPT ![a] = [NoLoad EXCEPT !.pc = "listing", !.gen = NewName]]
    BY <1>4 DEF Begin
  <2>2. [NoLoad EXCEPT !.pc = "listing", !.gen = NewName].pc = "listing"
    BY DEF NoLoad
  <2>3. \A b \in Loader : load'[b].pc = "fetching" => load'[b] = load[b]
    BY <2>1, <2>2, WholeKinds
  <2> QED
    BY <1>1, <1>4, <2>3
<1>5. CASE StartBoot \/ Tick
  BY <1>4, <1>5 DEF StartBoot, Tick, Loader
<1>6. CASE Open \/ Reload
  BY <1>6, FreshPruneStep DEF Open, Reload
<1>7. CASE Settle \/ Seed \/ StartBuild \/ FinishBuild \/ Rollback \/ StartSync \/ CallTimesOut
  BY <1>1, <1>7 DEF Settle, Seed, StartBuild, FinishBuild, Rollback, StartSync, CallTimesOut, disk
<1>8. CASE Crash
  <2>1. UNCHANGED <<bucket, config, gens, link>> /\ \A a \in Loader : load'[a] \in {load[a], NoLoad}
    BY <1>8, WholeKinds DEF Crash, Stopped
  <2> QED
    BY <1>1, <2>1, WholeKinds
<1>9. CASE Restart \/ GiveUp
  <2>1. UNCHANGED <<bucket, gens, link>> /\ \A a \in Loader : load'[a] = NoLoad
    BY <1>9 DEF Restart, GiveUp, NodeStops, Stopped
  <2> QED
    BY <1>1, <2>1, WholeKinds
<1>10. CASE UNCHANGED vars
  BY <1>1, <1>10 DEF vars, disk
<1> QED
  BY <1>2, <1>3, <1>5, <1>6, <1>7, <1>8, <1>9, <1>10 DEF Next

------------------------------------------------------------------------------
(* What sync compares, and what runs                                       *)

LEMMA SameWhole ==
  ASSUME NEW tree \in Tree, NEW listed \in Tree, Same(tree, listed), Files(tree) = Files(listed)
  PROVE  tree = listed
<1>1. \A f \in File : tree[f] = listed[f]
  BY DEF Same, Files
<1> QED
  BY <1>1 DEF Tree

\* A load that is done has fetched what it listed if that is still there; so
\* has the one that made the current generation.
LEMMA FetchedWhole ==
  ASSUME IInv, WholeInv, FreshInv, NEW a \in Loader, Fetched(a), load[a].items = Digest
  PROVE  gens[Target(a)].tree = Digest
<1>1. At(a, "fetching") /\ load[a].todo = {} /\ Loading(a)
  BY DEF Fetched, At, Loading
<1>2. Same(gens[Target(a)].tree, Digest)
  BY <1>1 DEF FreshInv
<1>3. Files(gens[Target(a)].tree) = Files(Digest)
  BY <1>1 DEF WholeInv
<1>4. gens[Target(a)].tree \in Tree /\ Digest \in Tree
  BY <1>1, OwnTarget, WholeKinds DEF Generations
<1> QED
  BY <1>2, <1>3, <1>4, SameWhole

LEMMA CurrentFetched ==
  ASSUME IInv, WholeInv, FreshInv, link # None, gens[link].source = config, gens[link].listed = Digest
  PROVE  gens[link].tree = Digest
<1>1. Same(gens[link].tree, Digest) /\ Files(gens[link].tree) = Files(Digest)
  BY DEF FreshInv, WholeInv, Digest
<1>2. gens[link].tree \in Tree /\ Digest \in Tree
  BY WholeKinds DEF Generations
<1> QED
  BY <1>1, <1>2, SameWhole

LEMMA SyncKinds ==
  ASSUME IInv
  PROVE  /\ sync \in Syncs /\ calls \in Seq(Catalogs) /\ Digest \in Tree
         /\ load \in [Loader -> Loads] /\ NoLoad.pc = "idle"
         /\ faults \in [Fault -> 0 .. MaxOfAKind] /\ "crash" \in Fault /\ MaxOfAKind \in Nat
         /\ "boot" \in Loader /\ "sync" \in Loader
  BY ConfigAssumption
  DEF IInv, TypeInv, TypeOK, Syncs, Digest, Loads, NoLoad, Fault, Loader

\* Steps that change neither the bucket nor what is current nor what sync does.
LEMMA SyncStays ==
  ASSUME SyncInv, UNCHANGED <<bucket, config, calls, sync, link>>,
         link # None => gens'[link] = gens[link],
         \A a \in Loader : load'[a].pc # "idle" => load[a].pc # "idle",
         \A a \in Loader : load'[a].pc = "fetching" =>
           load'[a].items = Digest \/ (load[a].pc = "fetching" /\ load'[a].items = load[a].items),
         NoMoreCrashes => NoMoreCrashes',
         \/ UNCHANGED <<runtime, catalog>>
         \/ runtime \in {"seeding", "warming"} /\ runtime' \in {"warming", "up"} /\ UNCHANGED catalog
  PROVE  SyncInv'
<1>1. /\ Digest' = Digest /\ (Here => Here') /\ (Booted' => Booted /\ catalog' = catalog)
      /\ (runtime = "up" => runtime' = "up")
      /\ \A a \in Loader : Loading(a)' => Loading(a)
      /\ \A a \in Loader : At(a, "fetching")' =>
           load'[a].items = Digest \/ (At(a, "fetching") /\ load'[a].items = load[a].items)
  BY DEF Digest, Here, Booted, Loading, At
<1>2. OffInv'
  BY <1>1 DEF SyncInv, OffInv, Loader
<1>3. SeenInv'
  BY <1>1 DEF SyncInv, SeenInv, Loader
<1>4. Loading("boot")' => runtime' = "loading"
  BY <1>1 DEF SyncInv, LastInv, Loader
<1>5. LastInv'
  BY <1>1, <1>4 DEF SyncInv, LastInv, Loader
<1> QED
  BY <1>2, <1>3, <1>5 DEF SyncInv

LEMMA SyncBucketStep ==
  ASSUME IInv, SyncInv, NeverBack,
         UNCHANGED <<config, calls, sync, link, gens, load, faults, runtime, catalog>>
  PROVE  SyncInv'
<1>1. CASE Digest' = Digest
  <2>1. Here' <=> Here
    BY <1>1 DEF Here
  <2>2. \A a \in Loader : /\ Loading(a)' <=> Loading(a)
                          /\ \A pc : At(a, pc)' <=> At(a, pc)
    BY DEF Loading, At
  <2>3. (NoMoreCrashes' <=> NoMoreCrashes) /\ (Booted' <=> Booted)
    BY DEF NoMoreCrashes, Booted
  <2> QED
    BY <1>1, <2>1, <2>2, <2>3 DEF SyncInv, OffInv, SeenInv, LastInv, Loader
<1>2. CASE Digest' # Digest
  <2>1. Digest' \notin Compared(config)
    BY <1>2 DEF NeverBack, Digest, IInv, TypeInv, TypeOK
  <2>2. sync.seen # Digest' /\ sync.last # Digest'
    BY <2>1 DEF Compared
  <2>3. \A a \in Loader : Loading(a)' <=> Loading(a)
    BY DEF Loading, At
  <2> QED
    BY <2>2, <2>3 DEF SyncInv, OffInv, SeenInv, LastInv, Loader, Booted
<1> QED
  BY <1>1, <1>2

LEMMA SyncBootStep ==
  ASSUME IInv, SyncInv, StartBoot
  PROVE  SyncInv'
<1>1. /\ UNCHANGED <<bucket, config, calls, sync, link, gens>> /\ runtime \in {"down", "failed"}
      /\ runtime' = "loading"
      /\ load' = [load EXCEPT !["boot"] = [NoLoad EXCEPT !.pc = "listing", !.gen = NewName]]
  BY DEF StartBoot, Begin
<1>2. faults'["crash"] = faults["crash"]
  BY SyncKinds DEF StartBoot, Happens, Fault
<1>3. [NoLoad EXCEPT !.pc = "listing", !.gen = NewName].pc = "listing"
  BY DEF NoLoad
<1>4. load'["sync"] = load["sync"] /\ load'["boot"].pc = "listing"
  BY <1>1, <1>3, SyncKinds
<1>5. (Loading("sync")' <=> Loading("sync")) /\ (At("sync", "fetching")' <=> At("sync", "fetching"))
      /\ ~At("boot", "fetching")'
  BY <1>4 DEF Loading, At
<1>6. Digest' = Digest /\ (Here' <=> Here) /\ (NoMoreCrashes' <=> NoMoreCrashes) /\ ~Booted'
  BY <1>1, <1>2 DEF Digest, Here, NoMoreCrashes, Booted
<1>7. OffInv' /\ SeenInv'
  BY <1>1, <1>4, <1>5, <1>6 DEF SyncInv, OffInv, SeenInv
<1>8. LastInv'
  BY <1>1, <1>5, <1>6 DEF SyncInv, LastInv
<1> QED
  BY <1>7, <1>8 DEF SyncInv

LEMMA SyncTickStep ==
  ASSUME IInv, SyncInv, Tick
  PROVE  SyncInv'
<1>1. /\ UNCHANGED <<bucket, config, calls, link, gens, runtime, catalog, faults>>
      /\ sync.last # Digest
      /\ load' = [load EXCEPT !["sync"] = [NoLoad EXCEPT !.pc = "listing", !.gen = NewName]]
  BY DEF Tick, Begin, serving
<1>2. sync'.pc = "loading" /\ sync'.last = sync.last
  BY SyncKinds DEF Tick, Syncs
<1>3. [NoLoad EXCEPT !.pc = "listing", !.gen = NewName].pc = "listing"
  BY DEF NoLoad
<1>4. load'["boot"] = load["boot"] /\ load'["sync"].pc = "listing"
  BY <1>1, <1>3, SyncKinds
<1>5. (Loading("boot")' <=> Loading("boot")) /\ ~At("sync", "fetching")' /\ Digest' = Digest
  BY <1>1, <1>4 DEF Loading, At, Digest
<1> QED
  BY <1>1, <1>2, <1>5 DEF SyncInv, OffInv, SeenInv, LastInv

\* What discards a load leaves of the others and of the current generation.
LEMMA DiscardLeaves ==
  ASSUME IInv, NEW a \in Loader, Loading(a), Discard(a), UNCHANGED <<bucket, config>>
  PROVE  /\ link' = link /\ Digest' = Digest /\ (Here => Here') /\ ~Loading(a)'
         /\ link # None => gens'[link] = gens[link]
         /\ \A b \in Loader : b # a => load'[b] = load[b]
         /\ ~At(a, "fetching")'
<1>1. link' = link /\ load' = [load EXCEPT ![a] = NoLoad] /\ gens' = [gens EXCEPT ![Target(a)] = NoGen]
  BY DEF Discard
<1>2. link # None => gens'[link] = gens[link]
  BY <1>1, OwnTarget, WholeKinds
<1>3. load'[a] = NoLoad /\ \A b \in Loader : b # a => load'[b] = load[b]
  BY <1>1, SyncKinds
<1>4. Digest' = Digest
  BY DEF Digest
<1>5. Here => Here'
  BY <1>1, <1>2, <1>4 DEF Here
<1> QED
  BY <1>1, <1>2, <1>3, <1>4, <1>5, SyncKinds DEF Loading, At

LEMMA SyncRefusedStep ==
  ASSUME IInv, SyncInv, NEW a \in Loader, Loading(a), Discard(a), Refused(a),
         UNCHANGED <<bucket, config, faults>>
  PROVE  SyncInv'
<1>1. /\ link' = link /\ Digest' = Digest /\ (Here => Here') /\ ~Loading(a)'
      /\ \A b \in Loader : b # a => load'[b] = load[b]
      /\ ~At(a, "fetching")'
  BY DiscardLeaves
<1>2. NoMoreCrashes' <=> NoMoreCrashes
  BY DEF NoMoreCrashes
<1>3. CASE a = "boot"
  <2>1. /\ runtime = "loading" /\ runtime' = "failed" /\ calls' = <<>>
        /\ sync' = IF sync.pc = "waiting" THEN [sync EXCEPT !.pc = "idle"] ELSE sync
    BY <1>3 DEF Refused, HungUp, SyncInv, LastInv
  <2>2. /\ sync'.pc = IF sync.pc = "waiting" THEN "idle" ELSE sync.pc
        /\ sync'.seen = sync.seen /\ sync'.last = sync.last
    BY <2>1, SyncKinds DEF Syncs
  <2>3. load'["sync"] = load["sync"]
    BY <1>1, <1>3, SyncKinds
  <2>4. (Loading("sync")' <=> Loading("sync")) /\ (At("sync", "fetching")' <=> At("sync", "fetching"))
        /\ ~Booted'
    BY <2>1, <2>3 DEF Loading, At, Booted
  <2>5. OffInv' /\ SeenInv'
    BY <1>1, <2>1, <2>2, <2>3, <2>4 DEF SyncInv, OffInv, SeenInv
  <2>6. LastInv'
    BY <1>1, <1>3, <2>1, <2>2, <2>4 DEF SyncInv, LastInv
  <2> QED
    BY <2>5, <2>6 DEF SyncInv
<1>4. CASE a # "boot"
  <2>1. a = "sync" /\ sync.pc = "loading" /\ UNCHANGED <<runtime, calls, catalog>>
        /\ sync' = [sync EXCEPT !.pc = "idle"]
    BY <1>4 DEF Refused, SyncInv, SeenInv, Loader
  <2>2. sync'.pc = "idle" /\ sync'.last = sync.last /\ sync.last # Digest
    BY <2>1, SyncKinds DEF Syncs, SyncInv, LastInv
  <2>3. load'["boot"] = load["boot"]
    BY <1>1, <2>1, SyncKinds
  <2>4. Loading("boot")' <=> Loading("boot")
    BY <2>3 DEF Loading, At
  <2> QED
    BY <1>1, <2>1, <2>2, <2>4 DEF SyncInv, OffInv, SeenInv, LastInv
<1> QED
  BY <1>3, <1>4

LEMMA SyncFallbackStep ==
  ASSUME IInv, SyncInv, Loading("boot"), Discard("boot"), Cached, runtime' = "seeding",
         catalog' = [tree |-> gens[link].tree, source |-> gens[link].source],
         UNCHANGED <<bucket, config, faults, calls, sync>>
  PROVE  SyncInv'
<1>1. /\ link' = link /\ Digest' = Digest /\ (Here => Here') /\ ~Loading("boot")'
      /\ link # None => gens'[link] = gens[link]
      /\ load'["sync"] = load["sync"] /\ ~At("boot", "fetching")'
  BY DiscardLeaves, SyncKinds
<1>2. NoMoreCrashes' <=> NoMoreCrashes
  BY DEF NoMoreCrashes
<1>3. /\ runtime = "loading" /\ link # None /\ gens[link].source = config
      /\ catalog'.tree = gens[link].tree
  BY DEF SyncInv, LastInv, Cached
<1>4. (Loading("sync")' <=> Loading("sync")) /\ (At("sync", "fetching")' <=> At("sync", "fetching"))
  BY <1>1 DEF Loading, At
<1>5. OffInv' /\ SeenInv'
  BY <1>1, <1>2, <1>3, <1>4 DEF SyncInv, OffInv, SeenInv
<1>6. LastInv'
  BY <1>1, <1>2, <1>3 DEF SyncInv, LastInv, Here
<1> QED
  BY <1>5, <1>6 DEF SyncInv

LEMMA SyncActivateStep ==
  ASSUME IInv, WholeInv, FreshInv, SyncInv, BootsFirst, NEW a \in Loader, Activate(a)
  PROVE  SyncInv'
<1>1. Loading(a) /\ At(a, "fetching") /\ Fetched(a)
  BY DEF Activate, Fetched, At, Loading
<1>2. UNCHANGED <<bucket, config, faults>> /\ link' = Target(a) /\ load' = [load EXCEPT ![a] = NoLoad]
  BY DEF Activate
<1>3. gens'[Target(a)].tree = gens[Target(a)].tree /\ gens'[Target(a)].source = config
      /\ link' # None
  <2>1. gens'[Target(a)] = [tree |-> gens[Target(a)].tree, listed |-> load[a].items,
                            source |-> config]
    BY <1>1, OwnTarget DEF Activate
  <2> QED
    BY <1>1, <1>2, <2>1, OwnTarget
<1>4. load[a].items = Digest => gens[Target(a)].tree = Digest
  BY <1>1, FetchedWhole
<1>5. Digest' = Digest /\ (NoMoreCrashes' <=> NoMoreCrashes)
  BY <1>2 DEF Digest, NoMoreCrashes
<1>6. load[a].items = Digest => Here'
  BY <1>2, <1>3, <1>4, <1>5 DEF Here
<1>7. /\ \A b \in Loader : b # a => load'[b] = load[b]
      /\ ~Loading(a)' /\ ~At(a, "fetching")'
  BY <1>2, SyncKinds DEF Loading, At
<1>8. CASE a = "boot"
  <2>1. /\ runtime = "loading" /\ runtime' = "seeding" /\ UNCHANGED <<calls, sync>>
        /\ catalog' = [tree |-> gens[Target(a)].tree, source |-> config]
    BY <1>1, <1>8 DEF Activate, SyncInv, LastInv
  <2>2. catalog'.tree = gens[Target(a)].tree
    BY <2>1
  <2>3. load'["sync"] = load["sync"]
    BY <1>7, <1>8, SyncKinds
  <2>4. (Loading("sync")' <=> Loading("sync")) /\ (At("sync", "fetching")' <=> At("sync", "fetching"))
    BY <2>3 DEF Loading, At
  <2>5. sync.pc = "waiting" => NoMoreCrashes
    BY <1>8 DEF BootsFirst
  <2>6. OffInv'
    BY <1>2, <1>3, <2>1, <2>2, <2>4 DEF SyncInv, OffInv
  <2>7. SeenInv'
    BY <1>5, <2>1, <2>3, <2>4, <2>5 DEF SyncInv, SeenInv
  <2>8. LastInv'
    BY <1>1, <1>4, <1>5, <1>6, <1>7, <1>8, <2>1, <2>2 DEF SyncInv, LastInv
  <2> QED
    BY <2>6, <2>7, <2>8 DEF SyncInv
<1>9. CASE a = "sync"
  <2>1. sync.pc = "loading" /\ sync.last # Digest /\ UNCHANGED <<runtime, catalog>>
    BY <1>1, <1>9 DEF Activate, SyncInv, SeenInv, LastInv
  <2>2. load'["boot"] = load["boot"]
    BY <1>7, <1>9, SyncKinds
  <2>3. Loading("boot")' => runtime' = "loading"
    BY <2>1, <2>2 DEF Loading, At, SyncInv, LastInv
  <2>4. CASE Alive
    <3>1. /\ calls' = Append(calls, [tree |-> gens[Target(a)].tree, source |-> config])
          /\ sync' = [sync EXCEPT !.pc = "waiting"]
      BY <1>9, <2>4 DEF Activate
    <3>2. sync'.pc = "waiting" /\ sync'.last = sync.last /\ sync'.seen = sync.seen
      BY <3>1, SyncKinds DEF Syncs
    <3>3. calls' # <<>> /\ calls'[Len(calls')].tree = gens[Target(a)].tree
      BY <3>1, SyncKinds
    <3>4. sync.seen = Digest => load[a].items = Digest
      BY <1>1, <1>9, <2>1 DEF SyncInv, SeenInv
    <3>5. SeenInv'
      BY <1>4, <1>5, <1>6, <1>7, <1>9, <3>2, <3>3, <3>4 DEF SeenInv
    <3> QED
      BY <1>5, <2>1, <2>3, <3>2, <3>5 DEF SyncInv, OffInv, LastInv
  <2>5. CASE ~Alive
    <3>1. UNCHANGED calls /\ sync' = [sync EXCEPT !.pc = "idle"]
      BY <1>9, <2>5 DEF Activate
    <3>2. sync'.pc = "idle" /\ sync'.last = sync.last
      BY <3>1, SyncKinds DEF Syncs
    <3> QED
      BY <1>5, <1>7, <1>9, <2>1, <2>3, <3>2 DEF SyncInv, OffInv, SeenInv, LastInv
  <2> QED
    BY <2>4, <2>5
<1> QED
  BY <1>8, <1>9 DEF Loader

LEMMA SyncLoaderStep ==
  ASSUME IInv, WholeInv, FreshInv, SyncInv, BootsFirst, NEW a \in Loader, LoaderStep(a)
  PROVE  SyncInv'
<1>1. CASE List(a)
  <2>1. /\ UNCHANGED <<bucket, config, calls, sync, link, runtime, catalog, faults>>
        /\ gens' = [gens EXCEPT ![Target(a)] = NoGen] /\ Loading(a)
        /\ load' = [load EXCEPT ![a].pc = "fetching", ![a].items = Digest,
                                ![a].todo = {f \in File : Digest[f] # 0}]
    BY <1>1 DEF List, serving, At, Loading
  <2>2. link # None => gens'[link] = gens[link]
    BY <2>1, OwnTarget, WholeKinds
  <2>3. /\ \A b \in Loader : load'[b].pc # "idle" => load[b].pc # "idle"
        /\ \A b \in Loader : load'[b].pc = "fetching" =>
             load'[b].items = Digest \/ (load[b].pc = "fetching" /\ load'[b].items = load[b].items)
    BY <2>1, SyncKinds DEF Loads, Loading, At
  <2> QED
    BY <2>1, <2>2, <2>3, SyncStays DEF NoMoreCrashes
<1>2. ASSUME NEW f \in File, Get(a, f)
      PROVE  SyncInv'
  <2>1. /\ UNCHANGED <<bucket, config, calls, sync, link, runtime, catalog, faults>>
        /\ gens' = [gens EXCEPT ![Target(a)].tree[f] = Digest[f]] /\ f \in load[a].todo
        /\ load' = [load EXCEPT ![a].todo = @ \ {f}]
    BY <1>2 DEF Get, serving
  <2>2. Loading(a)
    BY <2>1 DEF Loading, At, IInv, TypeInv, Sane, NoLoad
  <2>3. link # None => gens'[link] = gens[link]
    BY <2>1, <2>2, OwnTarget, WholeKinds
  <2>4. \A b \in Loader : load'[b].pc = load[b].pc /\ load'[b].items = load[b].items
    BY <2>1, SyncKinds DEF Loads
  <2> QED
    BY <2>1, <2>3, <2>4, SyncStays DEF NoMoreCrashes
<1>3. CASE Reject(a)
  BY <1>3, SyncRefusedStep DEF Reject, Fetched, At, Loading
<1>4. ASSUME NEW answered \in BOOLEAN, FetchFails(a, answered)
      PROVE  SyncInv'
  <2>1. CASE Refused(a)
    BY <1>4, <2>1, SyncRefusedStep DEF FetchFails
  <2>2. CASE ~Refused(a)
    BY <1>4, <2>2, SyncFallbackStep DEF FetchFails
  <2> QED
    BY <2>1, <2>2
<1> QED
  BY <1>1, <1>2, <1>3, <1>4, SyncActivateStep DEF LoaderStep

LEMMA PruneLeaves ==
  ASSUME IInv, NEW used, Prune(used)
  PROVE  link' = link /\ (link # None => gens'[link] = gens[link])
<1>1. link' = link /\ \A g \in GenId : gens'[g] = IF g \in dirs \ dirs' THEN NoGen ELSE gens[g]
  BY DEF Prune
<1>2. link # None => link \in dirs'
  BY PruneStep
<1> QED
  BY <1>1, <1>2, WholeKinds

LEMMA SyncReloadStep ==
  ASSUME IInv, SyncInv, Reload
  PROVE  SyncInv'
<1>1. /\ UNCHANGED <<bucket, config, load, runtime, faults>> /\ runtime = "up" /\ calls # <<>>
      /\ catalog' = Head(calls) /\ calls' = Tail(calls)
      /\ sync' = IF sync.pc = "waiting" /\ Len(calls) = 1
                 THEN [sync EXCEPT !.pc = "idle", !.last = sync.seen]
                 ELSE sync
  BY DEF Reload
<1>2. link' = link /\ (link # None => gens'[link] = gens[link])
  BY PruneLeaves DEF Reload
<1>3. Digest' = Digest /\ (Here' <=> Here) /\ (NoMoreCrashes' <=> NoMoreCrashes) /\ (Booted' <=> Booted)
  BY <1>1, <1>2 DEF Digest, Here, NoMoreCrashes, Booted
<1>4. sync.pc # "off" /\ sync.last # Digest /\ ~Loading("boot")
  BY <1>1 DEF SyncInv, OffInv, LastInv
<1>5. \A a \in Loader : (Loading(a)' <=> Loading(a)) /\ (At(a, "fetching")' <=> At(a, "fetching"))
  BY <1>1 DEF Loading, At
<1>6. CASE sync.pc = "waiting" /\ Len(calls) = 1
  <2>1. sync'.pc = "idle" /\ sync'.last = sync.seen
    BY <1>1, <1>6, SyncKinds DEF Syncs
  <2>2. calls' = <<>> /\ catalog' = calls[Len(calls)]
    BY <1>1, <1>6, SyncKinds
  <2>3. OffInv' /\ SeenInv'
    BY <1>5, <1>6, <2>1, SyncKinds DEF SyncInv, OffInv, SeenInv
  <2>4. LastInv'
    <3>1. ~Loading("boot")' /\ ~At("boot", "fetching")'
      BY <1>4, <1>5, SyncKinds DEF Loading, At
    <3> QED
      BY <1>1, <1>3, <1>6, <2>1, <2>2, <3>1 DEF SyncInv, SeenInv, LastInv
  <2> QED
    BY <2>3, <2>4 DEF SyncInv
<1>7. CASE ~(sync.pc = "waiting" /\ Len(calls) = 1)
  <2>1. sync' = sync
    BY <1>1, <1>7
  <2>2. sync.pc = "waiting" => calls' # <<>> /\ calls'[Len(calls')] = calls[Len(calls)]
    <3> SUFFICES ASSUME sync.pc = "waiting"
                 PROVE  calls' # <<>> /\ calls'[Len(calls')] = calls[Len(calls)]
      OBVIOUS
    <3>1. calls \in Seq(Catalogs) /\ Len(calls) \in Nat /\ Len(calls) > 1
      <4>1. calls \in Seq(Catalogs) /\ calls # <<>>
        BY <1>1, SyncKinds
      <4>2. Len(calls) \in Nat /\ Len(calls) # 0
        BY <4>1
      <4>3. Len(calls) # 1
        BY <1>7
      <4>4. \A n \in Nat : n # 0 /\ n # 1 => n > 1
        OBVIOUS
      <4>5. Len(calls) > 1
        BY <4>2, <4>3, <4>4
      <4> QED
        BY <4>1, <4>2, <4>5
    <3>2. Len(calls') = Len(calls) - 1 /\ \A i \in 1 .. Len(calls) - 1 : calls'[i] = calls[i + 1]
      BY <1>1, <3>1
    <3>3. calls' # <<>>
      BY <3>1, <3>2
    <3>4. calls'[Len(calls) - 1] = calls[Len(calls) - 1 + 1]
      BY <3>1, <3>2
    <3> QED
      BY <3>1, <3>2, <3>3, <3>4
  <2>3. OffInv' /\ LastInv'
    BY <1>3, <1>4, <1>5, <2>1, SyncKinds DEF OffInv, LastInv
  <2>4. SeenInv'
    BY <1>1, <1>3, <1>5, <2>1, <2>2, SyncKinds DEF SyncInv, SeenInv
  <2> QED
    BY <2>3, <2>4 DEF SyncInv
<1> QED
  BY <1>6, <1>7

LEMMA SyncStartStep ==
  ASSUME IInv, WholeInv, FreshInv, SyncInv, StartSync
  PROVE  SyncInv'
<1>1. /\ UNCHANGED <<bucket, config, link, gens, load, runtime, catalog, calls, faults>>
      /\ sync.pc = "off" /\ runtime = "up"
      /\ sync' = [sync EXCEPT !.pc = "idle", !.last = gens[link].listed]
  BY DEF StartSync, disk, serving
<1>2. sync'.pc = "idle" /\ sync'.last = gens[link].listed
  BY <1>1, SyncKinds DEF Syncs
<1>3. /\ calls = <<>> /\ ~Loading("sync") /\ ~Loading("boot")
      /\ link # None /\ gens[link].source = config /\ catalog.tree = gens[link].tree
  BY <1>1 DEF SyncInv, OffInv, LastInv, Booted
<1>4. gens[link].listed = Digest => gens[link].tree = Digest
  BY <1>3, CurrentFetched
<1>5. Digest' = Digest /\ (Here' <=> Here) /\ ~Loading("sync")' /\ ~Loading("boot")' /\ ~At("boot", "fetching")'
  BY <1>1, <1>3 DEF Digest, Here, Loading, At
<1> QED
  BY <1>1, <1>2, <1>3, <1>4, <1>5 DEF SyncInv, OffInv, SeenInv, LastInv, Here

LEMMA SyncTimeoutStep ==
  ASSUME IInv, SyncInv, CallTimesOut
  PROVE  SyncInv'
<1>1. /\ UNCHANGED <<bucket, config, link, gens, load, runtime, catalog, calls>>
      /\ sync.pc = "waiting" /\ sync' = [sync EXCEPT !.pc = "idle"]
  BY DEF CallTimesOut, disk, serving
<1>2. sync'.pc = "idle" /\ sync'.last = sync.last /\ sync.last # Digest
  BY <1>1, SyncKinds DEF Syncs, SyncInv, LastInv
<1>3. Digest' = Digest /\ (Loading("sync")' <=> Loading("sync")) /\ (Loading("boot")' <=> Loading("boot"))
  BY <1>1 DEF Digest, Loading, At
<1> QED
  BY <1>1, <1>2, <1>3 DEF SyncInv, OffInv, SeenInv, LastInv

LEMMA SyncCrashStep ==
  ASSUME IInv, SyncInv, Crash
  PROVE  SyncInv'
<1>1. /\ UNCHANGED <<bucket, config, link, gens>> /\ runtime' = "down" /\ calls' = <<>>
      /\ load' = [load EXCEPT !["boot"] = NoLoad]
      /\ sync' = IF sync.pc = "waiting" THEN [sync EXCEPT !.pc = "idle"] ELSE sync
  BY DEF Crash, Stopped, HungUp
<1>2. ~NoMoreCrashes
  BY SyncKinds DEF Crash, Happens, NoMoreCrashes
<1>3. /\ sync'.pc = IF sync.pc = "waiting" THEN "idle" ELSE sync.pc
      /\ sync'.seen = sync.seen /\ sync'.last = sync.last
  BY <1>1, SyncKinds DEF Syncs
<1>4. load'["sync"] = load["sync"] /\ load'["boot"] = NoLoad
  BY <1>1, SyncKinds
<1>5. /\ Loading("sync")' <=> Loading("sync")
      /\ At("sync", "fetching")' <=> At("sync", "fetching")
      /\ ~Loading("boot")' /\ ~At("boot", "fetching")'
  BY <1>4, SyncKinds DEF Loading, At
<1>6. Digest' = Digest /\ (Here' <=> Here) /\ ~Booted'
  BY <1>1 DEF Digest, Here, Booted
<1>7. OffInv' /\ SeenInv'
  BY <1>1, <1>3, <1>4, <1>5, <1>6 DEF SyncInv, OffInv, SeenInv
<1>8. LastInv'
  BY <1>1, <1>2, <1>3, <1>5, <1>6 DEF SyncInv, LastInv
<1> QED
  BY <1>7, <1>8 DEF SyncInv

LEMMA SyncNext ==
  IInv /\ WholeInv /\ FreshInv /\ SyncInv /\ NeverBack /\ [Next /\ BootsFirst]_vars => SyncInv'
<1> SUFFICES ASSUME IInv, WholeInv, FreshInv, SyncInv, NeverBack, [Next /\ BootsFirst]_vars
             PROVE  SyncInv'
  OBVIOUS
<1>2. ASSUME NEW s \in Source, NEW f \in File, Upload(s, f) \/ Remove(s, f)
      PROVE  SyncInv'
  BY <1>2, SyncBucketStep DEF Upload, Remove, disk, serving
<1>3. ASSUME NEW a \in Loader, LoaderStep(a), BootsFirst
      PROVE  SyncInv'
  BY <1>3, SyncLoaderStep
<1>4. ASSUME UNCHANGED <<bucket, config, calls, sync, link, gens, load, catalog>>,
             faults'["crash"] = faults["crash"],
             runtime' = runtime \/ (runtime = "seeding" /\ runtime' = "warming")
      PROVE  SyncInv'
  BY <1>4, SyncStays DEF NoMoreCrashes
<1>5. CASE Settle \/ Seed \/ StartBuild \/ FinishBuild \/ Rollback
  BY <1>4, <1>5 DEF Settle, Seed, StartBuild, FinishBuild, Rollback, disk, serving
<1>6. CASE Open
  <2>1. link' = link /\ (link # None => gens'[link] = gens[link])
    BY <1>6, PruneLeaves DEF Open
  <2>2. /\ UNCHANGED <<bucket, config, calls, sync, load, catalog, faults>>
        /\ runtime = "warming" /\ runtime' = "up"
    BY <1>6 DEF Open
  <2> QED
    BY <2>1, <2>2, SyncStays DEF NoMoreCrashes
<1>7. CASE Restart \/ GiveUp
  <2>1. NodeStops
    BY <1>7 DEF Restart, GiveUp
  <2>2. /\ \A a \in Loader : load'[a] = NoLoad
        /\ sync'.pc = "off" /\ calls' = <<>> /\ runtime' = "down"
    BY <2>1 DEF NodeStops, NoSync, Stopped
  <2> QED
    BY <2>2, SyncKinds DEF SyncInv, OffInv, SeenInv, LastInv, Loading, At, Booted
<1>8. CASE UNCHANGED vars
  BY <1>4, <1>8 DEF vars, disk, serving
<1> QED
  BY <1>2, <1>3, <1>5, <1>6, <1>7, <1>8, SyncBootStep, SyncTickStep, SyncReloadStep, SyncStartStep,
     SyncTimeoutStep, SyncCrashStep
  DEF Next

\* When a tick calls the bucket unchanged, what it holds is served, for any
\* number of changes, fetches that fail, reloads that time out, crashes and
\* restarts, as long as no change brings a listing back, no prune deletes
\* what a load is writing and no boot overtakes a reload (running_digest,
\* apply_change).
THEOREM SkipsIfFresh ==
  Spec /\ [][NeverBack]_vars /\ [][LoadsSpared]_vars /\ [][BootsFirst]_vars => []SkipsOnlyCurrent
<1>1. Init => WholeInv /\ FreshInv /\ SyncInv
  BY ConfigAssumption
  DEF Init, WholeInv, At, NoLoad, FreshInv, SyncInv, OffInv, SeenInv, LastInv, NoSync, Loading, Booted,
      Loader
<1>2. SyncInv => SkipsOnlyCurrent
  BY DEF SyncInv, LastInv, SkipsOnlyCurrent, Booted
<1>3. IInv /\ WholeInv /\ [Next]_vars /\ [LoadsSpared]_vars => WholeInv'
  BY WholeNext
<1>4. IInv /\ WholeInv /\ FreshInv /\ [Next]_vars /\ [NeverBack]_vars => FreshInv'
  <2>1. UNCHANGED vars => NeverBack
    BY DEF vars, NeverBack
  <2> QED
    BY <2>1, FreshNext
<1>5. IInv /\ WholeInv /\ FreshInv /\ SyncInv /\ [Next]_vars /\ [NeverBack]_vars /\ [BootsFirst]_vars => SyncInv'
  <2>1. UNCHANGED vars => NeverBack
    BY DEF vars, NeverBack
  <2> QED
    BY <2>1, SyncNext
<1> QED
  BY <1>1, <1>2, <1>3, <1>4, <1>5, Invariant, PTL DEF Spec

\* With no kind of fault twice, only the premise on the changes is needed: a
\* boot while sync runs follows the one crash.
THEOREM SkipsWithOneCrash == MaxOfAKind <= 1 /\ Spec /\ [][NeverBack]_vars => []SkipsOnlyCurrent
<1>1. Init => AgeInv
  BY DEF Init, AgeInv, Loading, At, NoLoad, NoSync, Loader
<1>2. MaxOfAKind <= 1 /\ IInv /\ AgeInv /\ [Next]_vars => AgeInv'
  BY AgeNext
<1>3. IInv /\ AgeInv => LoadsSpared
  BY OneCrashSpares
<1>4. MaxOfAKind <= 1 /\ IInv /\ AgeInv => BootsFirst
  <2> SUFFICES ASSUME MaxOfAKind <= 1, IInv, AgeInv, Activate("boot"), sync.pc = "waiting"
               PROVE  faults["crash"] >= MaxOfAKind
    BY DEF BootsFirst, NoMoreCrashes
  <2>1. runtime = "loading"
    BY DEF AgeInv, Activate, Fetched, Loading, At
  <2>2. faults["crash"] # 0
    BY <2>1 DEF AgeInv
  <2> QED
    BY <2>2, SyncKinds
<1>5. ASSUME MaxOfAKind <= 1
      PROVE  Spec /\ [][NeverBack]_vars => []SkipsOnlyCurrent
  <2>1. IInv /\ AgeInv /\ [Next]_vars => AgeInv'
    BY <1>2, <1>5
  <2>2. IInv /\ AgeInv => BootsFirst
    BY <1>4, <1>5
  <2> QED
    BY <1>1, <1>3, <2>1, <2>2, Invariant, SkipsIfFresh, PTL DEF Spec
<1> QED
  BY <1>5
=============================================================================
